SPECIFICATION Spec
CONSTANTS d1 = d1
          d2 = d2
          d3 = d3
          Dirs <- MCDirs
          UserLists <- MCUserLists
          ImplicitSets <- MCImplicitSets
          Kinds = {"SOName", "Library"}
          MaxLibraries = 3
INVARIANT NoFalseAlarm
CHECK_DEADLOCK FALSE
