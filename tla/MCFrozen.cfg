SPECIFICATION Spec
CONSTANTS
  Threads = {t1, t2}
  Elems = {e1, e2}
  Indices = {0, 1, 2}
  BucketSize = 2
  MaxElems = 2
  None = None
  Uninit = Uninit
INVARIANTS
  DropFreesWhatWasWritten
  InsertNamesItsElement
  LoopsSeeEverything
PROPERTY ImplementsAppendOnly
