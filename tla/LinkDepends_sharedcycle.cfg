SPECIFICATION Spec
CONSTANTS Items <- MCItems
          Target = "t"
          Links <- MCSharedCycle

PROPERTY Terminates
CHECK_DEADLOCK FALSE
