CONSTANTS
  Work <- Spans  Rows <- SomeRows
  NumBins = 6  NumHashes = 3  StashSize = 2  Batch = 2  Limit = 1
SPECIFICATION Spec
INVARIANT Conserved
CHECK_DEADLOCK FALSE
