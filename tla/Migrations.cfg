\* Two applications, four runs, each of which may be killed between files.
SPECIFICATION Spec
CONSTANTS
  a1 = a1
  a2 = a2
  v1 = v1
  v2 = v2
  Applications = {a1, a2}
  Values = {v1, v2}
  Times = {1, 2, 3}
  MaxRuns = 4
SYMMETRY Symmetric
INVARIANTS
  ViewUnspoiled
  CopiedOnce
  RerunNeverRaises
CHECK_DEADLOCK FALSE
