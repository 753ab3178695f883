---------------------------- MODULE MCDependScan ----------------------------
EXTENDS DependScan, TLC

CONSTANTS a, b, h, k, ObjA, ObjB   \* two sources, two headers, two objects

MCObject == [s \in Sources |-> CASE s = a -> ObjA [] s = b -> ObjB]
MCSymmetry == Permutations(Headers)
=============================================================================
