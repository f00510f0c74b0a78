\* Two threads, four inserts of records of one byte or of twenty-four, two linked
\* pages with room for one large tuple or two small ones, two frames.
CONSTANTS
  PageSize = 72
  Small = small
  Large = large
  Tuples <- Records
  Length <- RecordLength
  Threads = {t1, t2}
  NoTuple = NoTuple
  Formatted = 2
  PoolSize = 2
  DiskFails = TRUE
  MaxInserts = 4
SPECIFICATION Spec
SYMMETRY Symmetry
INVARIANTS
  TypeOK
  PagesAreWellFormed
  StoredTuplesStay
  SpaceMapIsExact
PROPERTY
  OnlyErrorsLeakPins
