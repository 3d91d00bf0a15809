\* One producer, one crash: does a topic keep its schema?
CONSTANTS
  Threads = {t1}
  Ids = {i1, i2}
  Topics = {p1}
  Schemas = {s1}
  NumUncommitted = 1
  MaxCrashes = 1
  NoRecord = NoRecord
  NoThread = NoThread
  Raw = Raw
  NoSchema = NoSchema
  Absent = Absent
SPECIFICATION FairSpec
PROPERTY SchemaKept
