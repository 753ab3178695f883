SPECIFICATION Spec
CONSTANTS a = a
          b = b
          ObjA = ObjA
          ObjB = ObjB
          h = h
          k = k
          Sources = {a}
          Headers = {h, k}
          Object <- MCObject
          Info = Info
          Internal = Internal
          IncludeCache = IncludeCache
          CarefulEdits = TRUE
          InterruptedAt = {"update", "scan", "truncate", "cache", "entry", "internal", "rules", "compile"}
SYMMETRY MCSymmetry
INVARIANT ScanIsExact
