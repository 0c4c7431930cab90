CONSTANTS
  None = None
  Reader = reader
  Filtered = filtered
  Tasks = {t1, t2}
  Slices = {s1, s2}
  NRecords = 2
  FilteredIndices <- MCFilteredIndices
  SliceArgs <- MCSliceArgs
  MaxDepth = 2
  ReenterSame = FALSE
SPECIFICATION Spec
INVARIANT TypeOK
PROPERTY EachLoopYieldsAll
INVARIANT NoIndexError SlicesOfFilteredStayFiltered
