\* Two dogs, 3 feed counts, a timer of 3 ticks; 3 ms overflow the conversion.
SPECIFICATION FairSpec
CONSTANTS
  Dogs = {0, 1}
  CountMod = 3
  TickMod = 3
  IntMod = 3000
  Requests = {1, 2, 3}
  HwTicks = 2
INVARIANTS
  TypeOK
  FeedSeen
  TimeIsRemaining
  StopsExactlyWhenDue
PROPERTIES
  HangIsReset
