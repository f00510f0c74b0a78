\* Two threads, four keys, two values, and arrays of three entries in pages that
\* would hold three or four.  One pin may be left behind before the calls that
\* leave them stop.
CONSTANTS
  Keys = {1, 2, 3, 4}
  Ctids = {c1, c2}
  NoCtid = NoCtid
  Threads = {t1, t2}
  Capacity = 3
  LeafSizes = {3, 4}
  MaxLeft = 1
SPECIFICATION Spec
SYMMETRY Symmetry
INVARIANTS
  TypeOK
  KeysAscend
PROPERTIES
  OnlyRangesAndPanicsLeakPins
  ImplementsIndex
