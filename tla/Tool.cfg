CONSTANTS
  Interface = "newer"
  Faults = {"timeout", "late", "others"}
  MaxMsgs = 1
  MaxTicks = 1
  Modes = {"list", "autostart", "imu"}
SPECIFICATION FairSpec
INVARIANTS TypeOK LeftRunningAccounted StreamLeftAccounted
PROPERTIES ImplementsService SignalEndsStreaming TimeLimitEnds
