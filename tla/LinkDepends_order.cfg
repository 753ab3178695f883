SPECIFICATION Spec
CONSTANTS Items <- MCItems
          Target = "t"
          Links <- MCLinks
INVARIANTS ConstraintsExact LineIsComplete SafeLine KeepsSafeOrder
PROPERTY Terminates
CHECK_DEADLOCK FALSE
