\* One client, records with a zero byte in them, answers in pieces.
CONSTANTS
  Once = {c1}
  Continuous = {}
  Kinds = {"nul", "stream"}
  StreamRows = 2
  ShortReads = TRUE
  MaxRecords = 3
  MaxSessions = 3
  MaxFailures = 0
SPECIFICATION FairSpec
INVARIANT NothingSkipped
\* A fetch and an add that hold one lock of the storage each wait for ever.
CHECK_DEADLOCK FALSE
