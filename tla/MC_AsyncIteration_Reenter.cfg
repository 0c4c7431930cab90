CONSTANTS
  None = None
  Reader = reader
  Filtered = filtered
  Tasks = {t1}
  Slices = {s1, s2}
  NRecords = 2
  FilteredIndices <- MCFilteredIndices
  SliceArgs <- MCSliceArgs
  MaxDepth = 2
  ReenterSame = TRUE
SPECIFICATION Spec
PROPERTY EachLoopYieldsAll
