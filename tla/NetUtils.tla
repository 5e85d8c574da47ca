------------------------------ MODULE NetUtils -------------------------------
(***************************************************************************)
(* net_utils.cc: IP addresses and the networks they belong to.  An address *)
(* is its four octets, as text in the code; Octet is 256 there.  Netmasks  *)
(* are contiguous, as the kernel demands of an interface's, so the         *)
(* complement of a mask is the size of its network less one.               *)
(***************************************************************************)
EXTENDS Integers

CONSTANT Octet  \* how many values an octet has

ASSUME NetUtilsAssumption == Octet \in Nat \ {0}

Octets == 0..(Octet - 1)
Addresses == Octets \X Octets \X Octets \X Octets

ipToUInt(ip) == ((ip[1] * Octet + ip[2]) * Octet + ip[3]) * Octet + ip[4]

\* How many addresses a network with this mask has: ~mask + 1.
Size(mask) == Octet * Octet * Octet * Octet - ipToUInt(mask)

\* network & mask: the host part is cleared.
net_lower(network, mask) ==
  ipToUInt(network) - (ipToUInt(network) % Size(mask))

\* net_lower | ~mask
net_upper(network, mask) == net_lower(network, mask) + (Size(mask) - 1)

\* Slip: the last address of a network is left out.
isIPBelowUpper(ip, network, mask) ==
  /\ ipToUInt(ip) >= net_lower(network, mask)
  /\ ipToUInt(ip) < net_upper(network, mask)

isIPInRange(ip, network, mask) ==
  /\ ipToUInt(ip) >= net_lower(network, mask)
  /\ ipToUInt(ip) <= net_upper(network, mask)

\* What isIPInRange() is to find out: the same network part.
SameNetwork(ip, other, mask) ==
  ipToUInt(ip) \div Size(mask) = ipToUInt(other) \div Size(mask)
=============================================================================
