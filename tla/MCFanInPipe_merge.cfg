SPECIFICATION FairSpec
CONSTANTS
  Sources = {manual, w1, w2}
  Manual = manual
  MaxItems = 2
  ReaderTimesOut = TRUE
INVARIANT NothingLost
INVARIANT OneAheadPerSource
PROPERTY ImplementsMergedInput
PROPERTY EverythingArrives
