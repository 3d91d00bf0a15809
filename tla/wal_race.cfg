\* Two producers, the default threshold: is a published record in the file?
CONSTANTS
  Threads = {t1, t2}
  Records = {r1, r2, r3}
  NumUncommitted = 1
  NoRecord = NoRecord
  NoThread = NoThread
SPECIFICATION FairSpec
INVARIANT WriteAhead
