------------------------- MODULE MCOrderDirectories -------------------------
(* The directories of a user for the model checker.  Every library is      *)
(* enumerated, so that a few lists and sets do for all of them.            *)
EXTENDS OrderDirectories

CONSTANTS d1, d2, d3
MCDirs == {d1, d2, d3}
MCUserLists == {<<>>, <<d1, d2, d3>>, <<d2, d1, d2>>}
MCImplicitSets == {{}, {d1}}
=============================================================================
