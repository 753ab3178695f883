SPECIFICATION Spec
CONSTANTS N = 3
          Names <- MCNames
          Projects <- MCProjects
INVARIANTS SafeBuildOrder NoNewDepends ReproducesAcyclic FailsOnBadCycle
CHECK_DEADLOCK FALSE
