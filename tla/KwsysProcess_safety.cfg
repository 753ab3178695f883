CONSTANTS
  NumberOfCommands = 2
  Timeout = 1
  UserTimeouts = {0}
  MaxTime = 2
  MaxData = 1
  Orphans = TRUE
  SetOptionAnytime = FALSE
  ExternalReaper = FALSE
  SelectFails = FALSE
SPECIFICATION Spec
INVARIANTS
  TypeOK
  NoLostChildExit
  NoSigPipe
  ReportedIsReadable
  CountersAgree
  Released
PROPERTIES
  ZeroTimeoutPolls
  LifecycleSpec
