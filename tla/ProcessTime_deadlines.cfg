CONSTANTS
  Second = 3
  Epoch = 4
  LastTime = 11
  Timeouts <- MCTimeouts
  CallerTimeouts <- MCCallerTimeouts
  Null = Null
  Never = Never
SPECIFICATION TimeSpec
INVARIANTS
  DeadlineFromStart
  EarlierDeadline
  ExpiresInTime
