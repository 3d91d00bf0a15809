\* Two topics of one record: does every request return?
CONSTANTS
  Threads = {t1, t2}
  Topics = {p1, p2}
  RowCounts = {1}
  MaxRecords = 1
  MaxOffset = 1
  Raw = Raw
  NoThread = NoThread
SPECIFICATION FairSpec
PROPERTY RequestsReturn
CHECK_DEADLOCK FALSE
