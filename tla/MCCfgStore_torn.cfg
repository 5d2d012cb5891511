SPECIFICATION FairSpec
CONSTANTS
  Keys = {1, 2}
  Values <- MixedValues
  NoValue = NoValue
  Pages = 2
  PageCells = 5
  BufferCells = 5
  CrashAt = {"idle", "write"}
  FailAt = {}
INVARIANTS SuccessMeansStored NoNeedlessWrite
PROPERTIES WriteOnce UpdateReturns
