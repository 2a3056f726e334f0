SPECIFICATION Spec
CONSTANTS
  MaxHeap = 7
  StructSize = 1
  Data = {0, 1, 2}
  Junk = Junk
  NULL = NULL
  Worlds <- ThreeWorlds
  Makes <- SomeMakes
  Grows <- OneGrow
  Shrinks <- OneShrink
  MaxSizes = {6}
  Pushes <- SomePushes
  Base = 1
  MaxStage = 1
INVARIANT RingOK HeapExact
PROPERTY OnlyPopRelieves IsByteQueue
