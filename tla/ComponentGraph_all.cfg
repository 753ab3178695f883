SPECIFICATION FairSpec
CONSTANT Graphs <- MCGraphs
INVARIANT EdgesTransferred
PROPERTIES CondensationSpec Terminates
CHECK_DEADLOCK FALSE
