CONSTANTS
  NumberOfCommands = 1
  Timeout = 2
  UserTimeouts = {1}
  MaxTime = 3
  MaxData = 1
  Orphans = TRUE
  SetOptionAnytime = FALSE
  ExternalReaper = TRUE
  SelectFails = TRUE
SPECIFICATION FairSpec
PROPERTIES
  CallsReturn
  ExitMeansDrained
  ExpiredInTime
