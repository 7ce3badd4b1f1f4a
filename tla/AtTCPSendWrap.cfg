\* The stack wrap: Stkptr wraps after half of the device's stack.
SPECIFICATION Spec
CONSTANTS
  SemMax = 2
  HwSlots = 4
  Cmds <- RunOnly
  SockIds = {0}
  NoSock = 99
  SwSlots = 2
  Prio = 50
  MaxMsg = 4
INVARIANT OwnDescriptor
CHECK_DEADLOCK FALSE
