\* Three threads commit for two groups, one of them with a colon in its name; they
\* write in different orders, in up to two writes of which any may fail, and a
\* splice is read as something else.
CONSTANTS
  Threads = {t1, t2, t3}
  Groups <- ColonGroups
  Topics <- OneTopic
  Offsets = {0, 1}
  Orders = {o1, o2}
  Pieces = 2
  Readings <- ColonReadings
  NoPair = NoPair
SPECIFICATION Spec
INVARIANTS
  TypeOK
  Persisted
  SnapshotCurrent
PROPERTY CommitsSurvive
SYMMETRY Symmetry
