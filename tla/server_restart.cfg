\* One producer, one consumer, one crash: does the server come up again?
CONSTANTS
  Threads = {t1}
  NumUncommitted = 1
  NoRecord = NoRecord
  NoThread = NoThread
  Ids = {i1, i2}
  Topics <- OneTopic
  Schemas = {s1}
  Raw = Raw
  NoSchema = NoSchema
  Absent = Absent
  MaxCrashes = 1
  Groups <- OneGroup
  Orders = {o1}
  Pieces = 1
  Readings = {}
  NoPair = NoPair
  Consumers = {c1}
SPECIFICATION FairSpec
PROPERTY ServerReturns
