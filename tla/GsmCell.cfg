SPECIFICATION Spec
CONSTANTS
  Channels = 4
  CompleteCalls = 5
  MaxArriving = 12
INVARIANTS TypeOK ChannelsAgree WellLinked NeverAborts
CHECK_DEADLOCK FALSE
