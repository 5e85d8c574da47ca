---------------------------- MODULE MCDataReceiver ----------------------------
(* Receivers on hosts with up to two interfaces, addresses of four bits.      *)
EXTENDS DataReceiver, TLC

CONSTANTS r1, r2, f1, f2, f3

Symmetry == Permutations(Receivers) \cup Permutations(Fds)

MCVisard == <<0, 1, 1, 0>>

\* Masks of 1, 4 and 16 addresses: a host, a network, everything.
MCNetmasks == {<<1, 1, 1, 1>>, <<1, 1, 0, 0>>, <<0, 0, 0, 0>>}

\* The sensor's own address, ends and outsides of its network 0100..0111.
MCAddresses == {<<0, 1, 1, 0>>, <<0, 1, 0, 0>>, <<0, 1, 1, 1>>, <<1, 0, 0, 0>>}

MCInterface(name, family, addr, netmask) ==
  [name |-> name, family |-> family, addr |-> addr, netmask |-> netmask]

MCInterfaces ==
  {MCInterface(n, "AF_INET", a, m) :
     n \in {"eth"}, a \in MCAddresses, m \in MCNetmasks}
    \cup {MCInterface("wlan", "AF_INET", <<0, 1, 0, 1>>, <<1, 1, 0, 0>>),
          MCInterface("wlan", "other", Zero, Zero)}

\* The mask of everything is no second one: it would match like a network's.
MCSecond == {i \in MCInterfaces : i.netmask # Zero \/ i.family = "other"}

MCHosts == {<<>>} \cup {<<i>> : i \in MCInterfaces}
             \cup (MCInterfaces \X MCSecond)
=============================================================================
