SPECIFICATION Spec
CONSTANTS
  Keys = {1, 2}
  Values <- NarrowValues
  NoValue = NoValue
  Pages = 3
  PageCells = 3
  BufferCells = 5
  CrashAt = {"idle", "scan", "write", "locate", "clear"}
  FailAt = {"scan", "write", "locate", "clear"}
INVARIANTS TypeOK LoadsWhatWasPromised CurrentIsNewest
