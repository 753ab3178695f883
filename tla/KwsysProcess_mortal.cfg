CONSTANTS
  NumberOfCommands = 2
  Timeout = 0
  UserTimeouts = {0}
  MaxTime = 0
  MaxData = 1
  Orphans = TRUE
  SetOptionAnytime = FALSE
  ExternalReaper = FALSE
  SelectFails = FALSE
SPECIFICATION MortalSpec
PROPERTIES
  CallsReturn
