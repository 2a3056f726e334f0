SPECIFICATION Spec
CONSTANTS
  Home <- Below
  Worlds <- SixWorlds
  MaxOps = 2
INVARIANT PathInSync TargetsSelected NoNullStrip BusyIsOwed CallbackMatches
PROPERTY BusyEnds IsClient
CHECK_DEADLOCK FALSE
