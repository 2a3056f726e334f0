SPECIFICATION Spec
CONSTANTS
  NULL = NULL
  Devices = {d1, d2}
  Eths = {e1, e2, e3}
  Slots = 2
  MaxRetries = 1
  Configs <- SomeConfigs
  Worlds <- SomeWorlds
INVARIANT NumsExact  UpIsReady NoGhost LinkHasRoute
PROPERTY ComesBack
