\* Stop commands behind other commands.
SPECIFICATION Spec
CONSTANTS
  SemMax = 2
  HwSlots = 4
  Cmds <- Run2Stop
  SockIds = {0}
  NoSock = 99
  SwSlots = 2
  Prio = 50
  MaxMsg = 3
INVARIANT StopWins
CHECK_DEADLOCK FALSE
