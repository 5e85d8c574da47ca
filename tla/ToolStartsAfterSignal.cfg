CONSTANTS
  Interface = "current"
  Faults = {}
  MaxMsgs = 1
  MaxTicks = 1
  Modes = {"autostart"}
SPECIFICATION FairSpec
PROPERTY NothingStartedAfterSignal
