SPECIFICATION FairSpec
CONSTANTS
  a = a
  blank = blank
  HeaderIds = {a, blank}
  Blank = {blank}
  Unknown = Unknown
  Durations <- SomeDurations
  PerMilli = 2
  Threshold = 2
  MaxRecords = 4
INVARIANTS
  TypeOK
  NothingLostOrDoubled
  GaugeIsExact
  ProducerClosedLast
  CloseDrains
  UsageIsRounded
PROPERTIES
  ThresholdFlushes
  LoopExits
CHECK_DEADLOCK FALSE
