\* Two frames for three pages of one file, two clients; a write to disk may
\* report an error.
CONSTANTS
  PageIds <- OneFileThreePages
  PoolSize = 2
  Handles = {h1, h2}
  Data = {a}
  ZeroData = ZeroData
  BlankData = BlankData
  TornData = TornData
  NoPage = NoPage
  MaxLsn = 1
  Faults = {"write"}
SPECIFICATION Spec
SYMMETRY Symmetry
INVARIANTS
  TypeOK
  CleanFramesMatchDisk
  FlushAllStores
  WriteAheadRule
PROPERTY
  CachingIsTransparent
