\* The EEPROM driver of two tasks and the feeding tick.
CONSTANTS
  Prios <- MCPrios
  MaxPoll = 2
  Addrs <- MCAddrs
  ByteData = 65
  PageData <- MCPageData
  Times <- MCTimes
  CallMax = 2
SPECIFICATION FairSpec
INVARIANTS X5045TypeOK BusyIsPolled NoForeignByte
PROPERTIES DoneUnlessDisturbed NoForeignPeriod CallsReturn
