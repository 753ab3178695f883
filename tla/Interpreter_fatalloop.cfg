SPECIFICATION FairSpec
CONSTANTS Programs <- MCFailures
          Variables <- MCVariables
PROPERTY HaltsOnFatal
CHECK_DEADLOCK FALSE
