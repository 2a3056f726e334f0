SPECIFICATION Spec
CONSTANTS
  MaxHeap = 66
  StructSize = 1
  Data = {0}
  Junk = Junk
  None = None
  Pools <- ThreePools
  Sizes = {2, 9}
  ClearPct = 70
  Rings = {0, 4}
INVARIANT Accounted RefusedOnlyWhenFull
PROPERTY PressureFollows
