SPECIFICATION CachesSpec
CONSTANTS
  MaxSize = 12
  ChunkSize = 4
  Overlap = 2
  Batches <- SomeBatches
  FirstTexts <- AllTexts
  NextTexts <- SomeTexts
  Threads = {t1, t2}
  MaxJobs = 3
  MaxEdits = 2
INVARIANTS SizeIsExact OwnVectors FreshUnlessRaced ChunksAreWhole
CHECK_DEADLOCK FALSE
