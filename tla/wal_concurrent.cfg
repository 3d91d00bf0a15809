\* Three producers, the default threshold; any write of the file may fail.
CONSTANTS
  Threads = {t1, t2, t3}
  Records = {r1, r2, r3}
  NumUncommitted = 1
  NoRecord = NoRecord
  NoThread = NoThread
SPECIFICATION FairSpec
INVARIANTS
  TypeOK
  LogFollowsFile
  NoStrandedRecords
PROPERTIES
  ImplementsOrderedLog
  AddReturns
  QueuedIsPublished
