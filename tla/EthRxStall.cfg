SPECIFICATION Spec
CONSTANTS
  MaxHeap = 100
  StructSize = 2
  Data = {0, 1, 4, 7, 8, 9}
  Junk = Junk
  NULL = NULL
  Worlds <- Replugged
  Kinds = {"ECM", "NCM"}
  Frames <- TwoFrames
  InitSize = 3
  MaxSize = 9
  StepSize = 3
  Chunk = 3
  Pbufs = {1, 4}
  MaxRetries = 1
  PoolLevels = {0, 2, 3}
  Base = 69
  MaxStage = 1
PROPERTY Recovers
