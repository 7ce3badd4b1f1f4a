\* One dog with a time limit beyond 16 bits, scaled to a width of 4.
SPECIFICATION Spec
CONSTANTS
  Dogs = {0}
  CountMod = 4
  TickMod = 4
  IntMod = 1000000
  Requests <- LongRequests
  HwTicks = 2
INVARIANT RequestHonoured
