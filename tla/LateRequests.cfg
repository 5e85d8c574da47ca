SPECIFICATION FairSpec
CONSTANTS
  pose = pose
  p1 = p1
  u1 = u1
  none = none
  Streams = {pose}
  Offered = {pose}
  Dests = {p1, u1}
  Ports = {p1}
  UserDests = {u1}
  Capacity = 3
  MaxForeign = 1
  MaxLate = 1
  Faults = {"timeout", "late", "reboot"}
  None = none
  Firmware <- MCFirmware110
  MaxTracked = 1
INVARIANTS LeakAccounting
PROPERTIES EveryCallReturns ImplementsLedger SilencedOnlyLate
