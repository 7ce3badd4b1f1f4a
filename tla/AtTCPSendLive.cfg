\* Liveness of the command channel: a semaphore that overflows at one token.
SPECIFICATION FairSpec
CONSTANTS
  SemMax = 1
  HwSlots = 4
  Cmds <- Run2Stop
  SockIds = {0}
  NoSock = 99
  SwSlots = 2
  Prio = 50
  MaxMsg = 3
PROPERTY ServedOrLost
CHECK_DEADLOCK FALSE
