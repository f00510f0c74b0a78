\* One frame for two pages; a read from disk may report an error.
CONSTANTS
  PageIds <- OneFile
  PoolSize = 1
  Handles = {h1}
  Data = {a}
  ZeroData = ZeroData
  BlankData = BlankData
  TornData = TornData
  NoPage = NoPage
  MaxLsn = 0
  Faults = {"read"}
SPECIFICATION Spec
INVARIANT
  FetchedPageIsItsPage
