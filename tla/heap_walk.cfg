\* One thread, and one page that its user has formatted, with room for one tuple.
CONSTANTS
  PageSize = 52
  Small = small
  Large = large
  Tuples <- Records
  Length <- RecordLength
  Threads = {t1}
  NoTuple = NoTuple
  Formatted = 1
  PoolSize = 2
  DiskFails = FALSE
  MaxInserts = 3
SPECIFICATION FairSpec
PROPERTY
  InsertReturns
