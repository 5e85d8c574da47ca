SPECIFICATION Spec
CONSTANTS
  pose = pose
  imu = imu
  p1 = p1
  u1 = u1
  u2 = u2
  none = none
  Streams = {pose, imu}
  Offered = {pose, imu}
  Dests = {p1, u1, u2}
  Ports = {p1}
  UserDests = {u1, u2}
  Capacity = 3
  MaxForeign = 0
  MaxLate = 0
  Faults = {}
  None = none
  Firmware <- MCFirmware17
  MaxTracked = 2
SYMMETRY Symmetry
INVARIANTS DeletedOnDestruction
