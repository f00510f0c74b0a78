\* Four frames, under either policy; three pages of two blocks, and any number of
\* stops of the process.
CONSTANTS
  Capacity = 4
  None = None
  Data = {1}
  Zero = 0
  Unsure = Unsure
  PAGE_SIZE = 2
  MaxPages = 3
SPECIFICATION EitherSpec
INVARIANTS
  PartsTypeOK
  SizeCountsActive
PROPERTIES
  LRUEvictsLeastRecentlyUsed
  LRUImplementsPolicy
  EvictsInClockOrder
  ImplementsPolicy
  SweepEnds
  ImplementsPageFile
