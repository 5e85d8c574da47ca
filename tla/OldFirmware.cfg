SPECIFICATION Spec
CONSTANTS
  pose = pose
  imu = imu
  slam = slam
  p1 = p1
  u1 = u1
  u2 = u2
  none = none
  Streams = {pose, imu, slam}
  Offered = {pose, imu}
  Dests = {p1, u1, u2}
  Ports = {p1}
  UserDests = {u1, u2}
  Capacity = 3
  MaxForeign = 1
  MaxLate = 0
  Faults = {"timeout", "refuse", "absent"}
  None = none
  Firmware <- MCFirmware16
  MaxTracked = 1
SYMMETRY Symmetry
INVARIANTS LiveReceiverServed TrackedImpliesInitialised LeakAccounting
           SeveralOnlyIfUnderstood IInv
PROPERTIES ErasedOnlyIfGone
