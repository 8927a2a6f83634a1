SPECIFICATION Spec
CONSTANTS
  Procs = {p1, p2}
  Nobody = nobody
  Absent = absent
  max_bytes = 3
  max_files = 3
  Sizes = {1, 2, 4}
  MaxLines = 7
  MaxFailures = 3
SYMMETRY ProcSymmetry
INVARIANTS RetainedIsSuffix TornOnlyAtEnd SizeBound RetentionFloor
