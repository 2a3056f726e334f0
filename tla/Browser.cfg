SPECIFICATION Spec
CONSTANTS
  Shown = 2
  Listed = 3
  Word = 6
  MaxLocal = 2
  MaxRemote = 4
INVARIANT SelectionInRange CursorVisible
