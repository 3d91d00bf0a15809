\* Two clients, one that consumes and one that does so continuously, share a
\* group; twice the server crashes or a connection breaks.
CONSTANTS
  Once = {c1}
  Continuous = {c2}
  Kinds = {"plain", "empty", "binary", "arrow"}
  StreamRows = 1
  ShortReads = FALSE
  MaxRecords = 2
  MaxSessions = 3
  MaxFailures = 2
SPECIFICATION FairSpec
INVARIANTS
  TypeOK
  NothingSkipped
PROPERTIES
  SessionCommitsGrow
  AllDelivered
\* A fetch and an add that hold one lock of the storage each wait for ever.
CHECK_DEADLOCK FALSE
