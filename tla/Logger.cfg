SPECIFICATION FairSpec
CONSTANTS
  Senders = {s1, s2, s3}
  Sinks = {"file", "stdout"}
  buffer_size = 2
  MaxRecords = 4
INVARIANTS DeliveredInOrder Accounting
PROPERTIES AcceptedRecordWritten WriterEnds
