CONSTANTS
  Work <- Spans  Rows <- SomeRows
  NumBins = 6  NumHashes = 3  StashSize = 2  Batch = 2  Limit = 1
SPECIFICATION SuiteSpec
INVARIANTS TreesPunctured TableRight BinsRight
PROPERTIES CallsEnd
CHECK_DEADLOCK FALSE
