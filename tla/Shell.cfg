SPECIFICATION ShellPartsSpec
CONSTANTS
  Nothing = Nothing
  Typed = Typed
  Topic = {"t"}
  MaxSockets = 3
  MaxCalls = 2
  MaxTimers = 1
  MaxToasts = 2
  Duration = 2
  MaxGiven = 4
INVARIANTS
  PageTypeOK
  ShellBusy
  KeySurvives
PROPERTIES
  Reconnects
  SetupEnds
  ImplementsNotifications
CHECK_DEADLOCK FALSE
