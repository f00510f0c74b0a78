\* One frame for three pages of two files, two of which share a place on disk;
\* every call that can fail may fail.
CONSTANTS
  PageIds <- TwoFiles
  PoolSize = 1
  Handles = {h1, h2}
  Data = {a}
  ZeroData = ZeroData
  BlankData = BlankData
  TornData = TornData
  NoPage = NoPage
  MaxLsn = 1
  Faults = {"read", "write", "tear", "sync"}
SPECIFICATION FairSpec
INVARIANTS
  TableMatchesFrames
  HandlesStay
  PinsCountHandles
PROPERTIES
  OnlyFailedFetchesStrand
  FlushReturns
