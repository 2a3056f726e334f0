SPECIFICATION Spec
CONSTANTS
  Worlds <- PlainAndAll
  Blocks = 2
  MaxOps = 2
INVARIANT HonestResult ReplyInStep TransfersWhole NoNullPcb
PROPERTY Answered IsClient
CHECK_DEADLOCK FALSE
