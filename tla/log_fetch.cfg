\* One topic of up to three records, batches of none to two rows.
\* A thread that adds and one that fetches may block each other for ever.
CONSTANTS
  Threads = {t1, t2}
  Topics = {p1}
  RowCounts = {0, 1, 2}
  MaxRecords = 3
  MaxOffset = 6
  Raw = Raw
  NoThread = NoThread
SPECIFICATION Spec
INVARIANTS TypeOK OffsetsCountRows FoundExists
PROPERTY FetchIsSuffix
SYMMETRY Symmetry
CHECK_DEADLOCK FALSE
