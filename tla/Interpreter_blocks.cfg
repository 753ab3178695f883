SPECIFICATION Spec
CONSTANTS Programs <- MCPrograms
          Variables <- MCVariables
INVARIANTS ExecutesAsWritten StateNests ListFileKnown
CHECK_DEADLOCK FALSE
