SPECIFICATION LateSpec
CONSTANTS
  Procs = {p1, p2}
  Nobody = nobody
  Absent = absent
  max_bytes = 3
  max_files = 3
  Sizes = {1, 2, 4}
  MaxLines = 4
  MaxFailures = 1
INVARIANTS CurrentFileBounded
