SPECIFICATION Spec
CONSTANTS
  r1 = r1
  r2 = r2
  f1 = f1
  f2 = f2
  f3 = f3
  NoFd = NoFd
  Receivers = {r1, r2}
  Fds = {f1, f2, f3}
  Names = {"eth", "wlan"}
  AnyName = ""
  Octet = 2
  Visard <- MCVisard
  Hosts <- MCHosts
  PortLimit = 4
  AskedPorts = {0, 2, 6}
  HostPorts = {2, 3}
SYMMETRY Symmetry
INVARIANTS IInv ReservedInv DescriptorsAccounted FirstReachingInterface DestinationIsBound
PROPERTIES ImplementsReservation
