SPECIFICATION Spec
CONSTANTS
  pose = pose
  imu = imu
  slam = slam
  p1 = p1
  p2 = p2
  u1 = u1
  u2 = u2
  none = none
  Streams = {pose, imu, slam}
  Offered = {pose, imu}
  Dests = {p1, p2, u1, u2}
  Ports = {p1, p2}
  UserDests = {u1, u2}
  Capacity = 3
  MaxForeign = 1
  MaxLate = 0
  Faults = {}
  None = none
  Firmware <- MCFirmware17
  MaxTracked = 2
SYMMETRY Symmetry
INVARIANTS TypeOK StreamedOnlyToBoundPort ExitCleans
