\* The command channel: two slots per wrap of Stkptr, four in the device.
SPECIFICATION Spec
CONSTANTS
  SemMax = 2
  HwSlots = 4
  Cmds <- Run2Stop
  SockIds = {0, 1}
  NoSock = 99
  SwSlots = 2
  Prio = 50
  MaxMsg = 5
INVARIANTS
  TypeOK
  Accounting
  InterruptPending
  NoSleepOnToken
  DescriptorOfItsMessage
  ExactWhenKeepingUp
  NeverOlder
  LatestCommandStands
  NoSocketLeak
PROPERTIES
  StuckForEver
  ImplementsSignal
CHECK_DEADLOCK FALSE
