SPECIFICATION Spec
CONSTANTS N = 3
          Names <- MCNames
          Projects <- MCProjects
INVARIANT ReadsFinalDepends
CHECK_DEADLOCK FALSE
