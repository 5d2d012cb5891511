SPECIFICATION MCSpec
CONSTANTS
  N = 4
  Clients <- Frames
  PoolsBase = 6
  PoolSize = 5
  PoolCount = 4
  NoBlock = NoBlock
  MaxYields = 2
  FrameBytes = 4
  FrameAlign = 2
  Handles = {h1, h2}
  None = None
  Users = {c1, c2, c3}
  Base = 5
  StackSize = 9
  Sizes = {0, 1, 2}
  Alignments = {1, 4}
  Depth = 2
  MaxAwaits = 2
  Objects = {a, b}
  VectorSize = 3
  Values = {1, 2}
  Raw = Raw
  Moved = Moved
  Functions = {f, g}
  FirstBuffer = 6
  Align = 2
  BufferSize = 4
  Types <- CallableTypes
  Captures = {x, y}
  Fragile = {y}
  NullPointer = NullPointer
  BoundedTypes <- NumberTypes
  Limits <- OutputLimits
  Coefficients <- PidCoefficients
  Measures <- MeasuredValues
  Clock = 3
  Elements <- Integers3
  MaxLength = 3
  IndexMax = 2
INVARIANTS LibraryTypeOK BlocksAreAccounted SessionsAreSound FramesAreOwned ContainersOwnTheirItems NumbersStayInRange AlgorithmsAgree
PROPERTIES BlocksArePrivate EveryoneEnds RecursionIsNested VectorsAreStacks
CHECK_DEADLOCK FALSE
