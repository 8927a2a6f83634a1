SPECIFICATION Spec
CONSTANTS
  Senders = {s1, s2}
  Sinks = {"file", "stdout"}
  buffer_size = 2
  MaxRecords = 3
SYMMETRY SenderSymmetry
INVARIANTS LossCounted
