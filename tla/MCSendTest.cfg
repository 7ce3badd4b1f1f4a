\* The test transmitter in every evaluation order, with the frame of the
\* source, a request every 302 clocks and one reset at any of them.
CONSTANTS
  WORDS = 30
  PRE = 14
  DLY = 71
  RAM_SIZE = 144
  IRQ = 300
  ResetMax = 1
SPECIFICATION Spec
INVARIANTS SendTestTypeOK RamHoldsFrame AnsweredAsCommented
PROPERTIES OddHalfSent
