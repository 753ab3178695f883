SPECIFICATION Spec
CONSTANTS Programs <- MCFailures
          Variables <- MCVariables
INVARIANT ListFileKnown
CHECK_DEADLOCK FALSE
