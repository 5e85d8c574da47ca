----------------------------- MODULE DataReceiver ----------------------------
(***************************************************************************)
(* Receivers from nothing to an open socket and back: getThisHostsIP()     *)
(* over the interfaces of this host, the constructors of DataReceiver and  *)
(* TrackedDataReceiver, the destination createReceiverForStream() adds,    *)
(* and the destructor.  Threads may create receivers at the same time, so  *)
(* each system call is a step; what the kernel answers is external.        *)
(* RemoteInterface takes over where a receiver is up.                      *)
(***************************************************************************)
EXTENDS NetUtils, Sequences, FiniteSets

CONSTANTS
  Receivers,   \* receiver objects
  Fds,         \* file descriptors of the process
  NoFd,        \* the member _sockfd before socket()
  Hosts,       \* sequences of interfaces getifaddrs() may list
  Names,       \* interface names a caller may ask for
  AnyName,     \* the empty name: any interface
  Visard,      \* the address of the sensor
  PortLimit,   \* 65536
  AskedPorts,  \* port numbers callers pass, 0 for an arbitrary one
  HostPorts    \* ports the kernel hands out

Interfaces == [name : Names, family : {"AF_INET", "other"},
               addr : Addresses, netmask : Addresses]

ASSUME DataReceiverAssumption ==
  /\ NoFd \notin Fds
  /\ Hosts \subseteq Seq(Interfaces)
  /\ Visard \in Addresses
  /\ PortLimit \in Nat \ {0}
  /\ 0 \in AskedPorts /\ AskedPorts \subseteq Nat
  /\ HostPorts \subseteq 1..(PortLimit - 1)

VARIABLES
  interfaces,  \* what getifaddrs() lists
  receiver,    \* each receiver with the call that creates it, see Object
  open,        \* the kernel's table: open descriptors,
  bound,       \* and the endpoint each is bound to
  lost         \* ghost: open descriptors nobody has any more

kernel == <<open, bound>>
vars == <<interfaces, receiver, kernel, lost>>

Endpoints == [ip : Addresses, port : Nat]
Zero == <<0, 0, 0, 0>>
Nowhere == [ip |-> Zero, port |-> 0]

Object == [
  pc : {"none", "scan", "socket", "bind", "getsockname", "add", "up"},
  tracked : BOOLEAN,           \* a TrackedDataReceiver?
  name : Names \cup {AnyName}, \* the argument dest_interface
  ifa : Nat \ {0},             \* position in the list of interfaces
  address_buffer : Addresses,  \* address of the interface looked at last
  port : Nat,                  \* the caller's variable, passed by reference
  port_ : Nat,                 \* the members
  sockfd : Fds \cup {NoFd},
  dest_ : Endpoints,           \* what the destructor will delete
  added : Endpoints]           \* what has been added to the stream

Nobody == [pc |-> "none", tracked |-> FALSE, name |-> AnyName, ifa |-> 1,
           address_buffer |-> Zero, port |-> 0, port_ |-> 0, sockfd |-> NoFd,
           dest_ |-> Nowhere, added |-> Nowhere]

TypeOK ==
  /\ interfaces \in Hosts
  /\ receiver \in [Receivers -> Object]
  /\ open \subseteq Fds
  /\ bound \in [Fds -> Endpoints]
  /\ lost \subseteq Fds

Init ==
  /\ interfaces \in Hosts
  /\ receiver = [r \in Receivers |-> Nobody]
  /\ open = {} /\ bound = [f \in Fds |-> Nowhere]
  /\ lost = {}

\* Where an object takes its socket to be.
Endpoint(o) == [ip |-> o.address_buffer, port |-> o.port]

Become(r, object) == receiver' = [receiver EXCEPT ![r] = object]

\* An exception before there is a socket, or the end of the object.
End(r) == Become(r, Nobody)

-----------------------------------------------------------------------------
(* getThisHostsIP(): the loop over the interfaces. *)

\* Only createReceiverForStream() looks for an address.
CreateReceiverForStream(r, name, port) ==
  /\ receiver[r].pc = "none"
  /\ Become(r, [Nobody EXCEPT !.pc = "scan", !.tracked = TRUE,
                              !.name = name, !.port = port])
  /\ UNCHANGED <<interfaces, kernel, lost>>

\* DataReceiver::create(): the program brings a valid address itself.
Create(r, ip, port) ==
  /\ receiver[r].pc = "none"
  /\ Become(r, [Nobody EXCEPT !.pc = "socket", !.address_buffer = ip,
                              !.port = port])
  /\ UNCHANGED <<interfaces, kernel, lost>>

Suitable(i, name) ==
  /\ i.family = "AF_INET"
  /\ name \in {AnyName, i.name}
  /\ isIPInRange(i.addr, Visard, i.netmask)

\* continue, or break with the address in the buffer, which is overwritten
\* before the interface is known to be suitable.
ScanInterface(r) ==
  /\ receiver[r].pc = "scan" /\ receiver[r].ifa <= Len(interfaces)
  /\ LET i == interfaces[receiver[r].ifa]
         found == Suitable(i, receiver[r].name)
     IN  Become(r, [receiver[r] EXCEPT
           !.address_buffer = IF i.family = "AF_INET" THEN i.addr ELSE @,
           !.pc = IF found THEN "socket" ELSE "scan",
           !.ifa = IF found THEN @ ELSE @ + 1])
  /\ UNCHANGED <<interfaces, kernel, lost>>

\* createReceiverForStream() throws invalid_argument.
NoAddress(r) ==
  /\ receiver[r].pc = "scan" /\ receiver[r].ifa > Len(interfaces)
  /\ End(r)
  /\ UNCHANGED <<interfaces, kernel, lost>>

-----------------------------------------------------------------------------
(* The constructors. *)

OpenSocket(r) ==
  /\ receiver[r].pc = "socket"
  /\ \E f \in Fds \ open :
       /\ open' = open \cup {f}
       /\ Become(r, [receiver[r] EXCEPT !.pc = "bind", !.sockfd = f])
  /\ UNCHANGED <<interfaces, bound, lost>>

\* socket() fails, for want of descriptors or for any other reason.
NoSocket(r) ==
  /\ receiver[r].pc = "socket"
  /\ End(r)
  /\ UNCHANGED <<interfaces, kernel, lost>>

\* What follows the constructor of DataReceiver.
Constructed(r) == IF receiver[r].tracked THEN "add" ELSE "up"

\* One of this host's addresses, and a port no other socket is bound to.
Bindable(endpoint) ==
  /\ \E i \in 1..Len(interfaces) : interfaces[i].addr = endpoint.ip
  /\ \A f \in open : bound[f] # endpoint

\* htons(static_cast<u_short>(port)): the kernel sees 16 bits, and 0 as "any".
BindPorts(port) ==
  IF port % PortLimit = 0 THEN HostPorts ELSE {port % PortLimit}

\* Slip: the constructor goes on with port 0, as if it had been bound to it.
BindUnrecorded(r) ==
  /\ receiver[r].pc = "bind"
  /\ \E p \in BindPorts(receiver[r].port) :
       LET endpoint == [ip |-> receiver[r].address_buffer, port |-> p]
       IN  /\ Bindable(endpoint)
           /\ bound' = [bound EXCEPT ![receiver[r].sockfd] = endpoint]
  /\ Become(r, [receiver[r] EXCEPT !.port_ = receiver[r].port,
                                   !.pc = Constructed(r)])
  /\ UNCHANGED <<interfaces, open, lost>>

Bind(r) ==
  /\ receiver[r].pc = "bind"
  /\ \E p \in BindPorts(receiver[r].port) :
       LET endpoint == [ip |-> receiver[r].address_buffer, port |-> p]
       IN  /\ Bindable(endpoint)
           /\ bound' = [bound EXCEPT ![receiver[r].sockfd] = endpoint]
  /\ Become(r, [receiver[r] EXCEPT
       !.port_ = receiver[r].port,
       !.pc = IF receiver[r].port = 0 THEN "getsockname" ELSE Constructed(r)])
  /\ UNCHANGED <<interfaces, open, lost>>

\* bind() fails and the constructor throws without a close().
BindFails(r) ==
  /\ receiver[r].pc = "bind"
  /\ lost' = lost \cup {receiver[r].sockfd}
  /\ End(r)
  /\ UNCHANGED <<interfaces, kernel>>

\* Slip: the caller's variable keeps its 0.
GetSockNameMemberOnly(r) ==
  /\ receiver[r].pc = "getsockname"
  /\ Become(r, [receiver[r] EXCEPT
       !.port_ = bound[receiver[r].sockfd].port,
       !.pc = Constructed(r)])
  /\ UNCHANGED <<interfaces, kernel, lost>>

GetSockName(r) ==
  /\ receiver[r].pc = "getsockname"
  /\ Become(r, [receiver[r] EXCEPT
       !.port_ = bound[receiver[r].sockfd].port,
       !.port = bound[receiver[r].sockfd].port,
       !.pc = Constructed(r)])
  /\ UNCHANGED <<interfaces, kernel, lost>>

\* close(), and the end of the object or of its construction.
Close(r) ==
  /\ open' = open \ {receiver[r].sockfd}
  /\ bound' = [bound EXCEPT ![receiver[r].sockfd] = Nowhere]
  /\ End(r)
  /\ UNCHANGED <<interfaces, lost>>

\* Slip: the exception leaves the socket open.
GetSockNameFailsOpen(r) ==
  /\ receiver[r].pc = "getsockname"
  /\ End(r)
  /\ UNCHANGED <<interfaces, kernel, lost>>

GetSockNameFails(r) == receiver[r].pc = "getsockname" /\ Close(r)

\* dest_ is made after the base class, from the variable that has updated;
\* then createReceiverForStream() adds dest_address and dest_port.
AddDestination(r) ==
  /\ receiver[r].pc = "add"
  /\ Become(r, [receiver[r] EXCEPT !.pc = "up", !.dest_ = Endpoint(receiver[r]),
                                    !.added = Endpoint(receiver[r])])
  /\ UNCHANGED <<interfaces, kernel, lost>>

\* The destructor, also when the destination could not be added or no message
\* has come.  Its DELETE is in RemoteInterface.
Destroy(r) == receiver[r].pc \in {"add", "up"} /\ Close(r)

-----------------------------------------------------------------------------
HostAddresses == {interfaces[i].addr : i \in 1..Len(interfaces)}

Step(r) ==
  \/ \E name \in Names \cup {AnyName}, p \in AskedPorts :
       CreateReceiverForStream(r, name, p)
  \/ \E ip \in HostAddresses \cup {Visard}, p \in AskedPorts : Create(r, ip, p)
  \/ ScanInterface(r) \/ NoAddress(r)
  \/ OpenSocket(r) \/ NoSocket(r) \/ Bind(r) \/ BindFails(r)
  \/ GetSockName(r) \/ GetSockNameFails(r)
  \/ AddDestination(r) \/ Destroy(r)

Next == \E r \in Receivers : Step(r)

Spec == Init /\ [][Next]_vars

-----------------------------------------------------------------------------
(* Properties *)

Used(r) == receiver[r].sockfd # NoFd

\* Each open descriptor is held by one receiver, alive or being constructed,
\* or has been lost by a bind() that failed (data_receiver.h:247-250), and no
\* receiver holds one that is closed: nothing else leaks, and nothing is closed
\* twice or under another receiver.
DescriptorsAccounted ==
  /\ \A f \in Fds :
       f \in open <=> f \in lost \/ \E r \in Receivers : receiver[r].sockfd = f
  /\ \A r \in Receivers : receiver[r].sockfd \notin lost
  /\ \A r, s \in Receivers :
       Used(r) /\ receiver[r].sockfd = receiver[s].sockfd => r = s

\* Interface i is of the name asked for and in the network of the sensor.
Reaches(i, name) ==
  /\ i.family = "AF_INET"
  /\ name \in {AnyName, i.name}
  /\ SameNetwork(i.addr, Visard, i.netmask)

FindsFirst(o) ==
  LET Reached(i) == Reaches(interfaces[i], o.name)
  IN  o.tracked =>
        /\ o.ifa <= Len(interfaces) + 1
        /\ \A i \in 1..(o.ifa - 1) : ~Reached(i)
        /\ o.pc # "scan" =>
             /\ o.ifa <= Len(interfaces) /\ Reached(o.ifa)
             /\ o.address_buffer = interfaces[o.ifa].addr

\* The address streamed to is that of the first interface of the name asked
\* for from which the sensor can be reached; "could not infer a valid IP
\* address" is thrown only if there is none (net_utils.h:62-71).
FirstReachingInterface == \A r \in Receivers : FindsFirst(receiver[r])

IsBound(o) ==
  o.pc = "up" /\ o.port < PortLimit =>
    /\ bound[o.sockfd] = Endpoint(o)
    /\ o.port_ = o.port
    /\ o.tracked => o.added = Endpoint(o) /\ o.dest_ = Endpoint(o)

\* What the sensor is told to stream to, what the destructor will delete there
\* and what getPort() returns are where the socket is bound, as long as the
\* caller's port fits 16 bits (data_receiver.h:76, remote_interface.h:363).
DestinationIsBound == \A r \in Receivers : IsBound(receiver[r])

\* Where the descriptor of each receiver is bound, and what the sensor has been
\* told, if the caller's port fits 16 bits.
Held ==
  [r \in Receivers |-> IF Used(r) THEN bound[receiver[r].sockfd] ELSE Nowhere]
Told ==
  [r \in Receivers |-> IF receiver[r].port < PortLimit THEN receiver[r].added
                                                      ELSE Nowhere]

Promise == INSTANCE Reservation WITH
  Owners <- Receivers, Places <- [ip : Addresses, port : 1..(PortLimit - 1)],
  held <- Held, told <- Told

\* Whatever fails on the way, a receiver gets an endpoint of its own with a
\* port that is not 0, tells the sensor of that one only and not before it has
\* it, and gives both up together, at whatever point it ends
\* (createReceiverForStream() and the constructors under it).
ImplementsReservation == Promise!Spec

-----------------------------------------------------------------------------
(* The inductive invariant of the proofs. *)

\* Which places have a socket.
InPlace(o) ==
  /\ o.pc \in {"bind", "getsockname", "add", "up"} <=> o.sockfd # NoFd
  /\ o.pc = "scan" => o.tracked

PlaceInv == \A r \in Receivers : InPlace(receiver[r])

\* From bind() on: where the socket is, and who knows.
KnowsEndpoint(o) ==
  LET b == bound[o.sockfd]
  IN  /\ o.pc = "getsockname" => b.ip = o.address_buffer /\ b.port \in HostPorts
      /\ o.pc \in {"add", "up"} /\ o.port < PortLimit =>
           b = Endpoint(o) /\ o.port_ = o.port

EndpointInv == \A r \in Receivers : KnowsEndpoint(receiver[r])

\* A socket is somewhere exactly from bind() to close(), and only receivers
\* that are up have told the sensor.
Reserved(o) ==
  /\ o.pc = "bind" => bound[o.sockfd] = Nowhere
  /\ o.pc \in {"getsockname", "add", "up"} => bound[o.sockfd] # Nowhere
  /\ o.pc # "up" => o.added = Nowhere

ReservedInv ==
  /\ \A f \in Fds : bound[f] # Nowhere =>
       \E r \in Receivers : receiver[r].sockfd = f
  /\ \A r \in Receivers : Reserved(receiver[r])

IInv == /\ TypeOK /\ PlaceInv /\ DescriptorsAccounted
        /\ FirstReachingInterface /\ EndpointInv /\ DestinationIsBound
=============================================================================
