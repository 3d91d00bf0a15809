\* Two producers, two topics, two schemas, one crash, the default threshold.
CONSTANTS
  Threads = {t1, t2}
  Ids = {i1, i2, i3}
  Topics = {p1, p2}
  Schemas = {s1, s2}
  NumUncommitted = 1
  MaxCrashes = 1
  NoRecord = NoRecord
  NoThread = NoThread
  Raw = Raw
  NoSchema = NoSchema
  Absent = Absent
SPECIFICATION Spec
INVARIANTS
  TypeOK
  OneSchema
PROPERTY OffsetsSurvive
SYMMETRY Symmetry
