-------------------------- MODULE DataReceiverProofs -------------------------
(***************************************************************************)
(* What receivers hold and where they are, for any number of receivers,    *)
(* descriptors and interfaces, every address and every size of a network.  *)
(***************************************************************************)
EXTENDS DataReceiver, TLAPS

USE NetUtilsAssumption, DataReceiverAssumption

-----------------------------------------------------------------------------
(* Addresses *)

LEMMA ProductNat == ASSUME NEW a \in Nat, NEW b \in Nat PROVE a * b \in Nat
  OBVIOUS

\* Distance of two multiples of h.
LEMMA Multiples ==
  ASSUME NEW h \in Nat \ {0}, NEW p \in Int, NEW q \in Int, p < q
  PROVE  h * p + h <= h * q
  <1>1. h * (q - p - 1) \in Nat
    BY ProductNat
  <1>2. h * (q - p - 1) = h * q - h * p - h
    OBVIOUS
  <1>3. h * p \in Int /\ h * q \in Int
    OBVIOUS
  <1>4. QED
    BY <1>1, <1>2, <1>3

\* The same with the multiples given by name: what is left is linear.
LEMMA SameMultiple ==
  ASSUME NEW h \in Nat \ {0}, NEW p \in Int, NEW q \in Int,
         NEW hp \in Int, NEW hq \in Int, NEW a \in 0..(h - 1),
         p < q => hp + h <= hq,
         q < p => hq + h <= hp,
         p = q => hp = hq
  PROVE  (hp + a >= hq /\ hp + a <= hq + (h - 1)) <=> p = q
  OBVIOUS

\* Clearing the part below h and filling it up spans the numbers of one block.
LEMMA Blocks ==
  ASSUME NEW h \in Nat \ {0}, NEW a \in Nat, NEW n \in Nat
  PROVE  (a >= n - (n % h) /\ a <= (n - (n % h)) + (h - 1))
           <=> a \div h = n \div h
  <1> DEFINE p == a \div h
             q == n \div h
  <1>1. /\ p \in Int /\ h * p \in Int
        /\ a % h \in 0..(h - 1) /\ a = h * p + (a % h)
    OBVIOUS
  <1>2. /\ q \in Int /\ h * q \in Int
        /\ n % h \in 0..(h - 1) /\ n = h * q + (n % h)
    OBVIOUS
  <1>3. p < q => h * p + h <= h * q
    BY <1>1, <1>2, Multiples
  <1>4. q < p => h * q + h <= h * p
    BY <1>1, <1>2, Multiples
  <1>5. p = q => h * p = h * q
    OBVIOUS
  <1>6. (h * p + (a % h) >= h * q /\ h * p + (a % h) <= h * q + (h - 1)) <=> p = q
    <2> HIDE DEF p, q
    <2>1. QED
      BY <1>1, <1>2, <1>3, <1>4, <1>5, SameMultiple
  <1>7. n - (n % h) = h * q
    <2> HIDE DEF q
    <2>1. QED
      BY <1>2
  <1>8. QED
    BY <1>1, <1>6, <1>7

\* Four octets make a number below Octet to the fourth.
LEMMA AddressIsNumber ==
  ASSUME NEW ip \in Addresses
  PROVE  /\ ipToUInt(ip) \in Nat
         /\ ipToUInt(ip) < Octet * Octet * Octet * Octet
  <1>1. /\ ip[1] \in Octets /\ ip[2] \in Octets
        /\ ip[3] \in Octets /\ ip[4] \in Octets
    BY DEF Addresses
  <1>2. ASSUME NEW k \in Nat, NEW a \in Nat, NEW d \in Octets, a < k
        PROVE  a * Octet + d \in Nat /\ a * Octet + d < k * Octet
    <2>1. Octet * a + Octet <= Octet * k
      BY <1>2, Multiples
    <2>2. a * Octet = Octet * a /\ k * Octet = Octet * k
      OBVIOUS
    <2>3. a * Octet \in Nat /\ k * Octet \in Nat
      OBVIOUS
    <2>4. QED
      BY <2>1, <2>2, <2>3 DEF Octets
  <1>3. ip[1] \in Nat /\ ip[1] < Octet
    BY <1>1 DEF Octets
  <1> DEFINE two == ip[1] * Octet + ip[2]
             three == two * Octet + ip[3]
  <1>4. two \in Nat /\ two < Octet * Octet
    BY <1>1, <1>2, <1>3
  <1>5. three \in Nat /\ three < Octet * Octet * Octet
    <2>1. Octet * Octet \in Nat
      OBVIOUS
    <2> HIDE DEF two
    <2>2. QED
      BY <1>1, <1>2, <1>4, <2>1
  <1>6. three * Octet + ip[4] \in Nat
          /\ three * Octet + ip[4] < Octet * Octet * Octet * Octet
    <2>1. Octet * Octet * Octet \in Nat
      OBVIOUS
    <2> HIDE DEF three
    <2>2. QED
      BY <1>1, <1>2, <1>5, <2>1
  <1>7. QED
    BY <1>6 DEF ipToUInt

LEMMA SizePositive ==
  ASSUME NEW mask \in Addresses
  PROVE  Size(mask) \in Nat \ {0}
  <1> DEFINE N == Octet * Octet * Octet * Octet
  <1>1. N \in Nat
    OBVIOUS
  <1>2. ipToUInt(mask) \in Nat /\ ipToUInt(mask) < N
    BY AddressIsNumber
  <1>3. Size(mask) = N - ipToUInt(mask)
    BY DEF Size
  <1> HIDE DEF N
  <1>4. QED
    BY <1>1, <1>2, <1>3

\* isIPInRange() (net_utils.cc:71-86) finds out whether two addresses have
\* the same network part, for addresses of any width and networks of any size.
THEOREM RangeIsNetwork ==
  ASSUME NEW ip \in Addresses, NEW network \in Addresses, NEW mask \in Addresses
  PROVE  isIPInRange(ip, network, mask) <=> SameNetwork(ip, network, mask)
  <1>1. /\ ipToUInt(ip) \in Nat /\ ipToUInt(network) \in Nat
        /\ Size(mask) \in Nat \ {0}
    BY AddressIsNumber, SizePositive
  <1>2. QED
    BY <1>1, Blocks DEF isIPInRange, SameNetwork, net_lower, net_upper

-----------------------------------------------------------------------------
(* The life of a receiver *)

LEMMA NobodyIsObject ==
  /\ Nobody \in Object
  /\ Nobody.pc = "none" /\ ~Nobody.tracked /\ Nobody.sockfd = NoFd
  BY DEF Nobody, Object, Zero, Nowhere, Endpoints, Addresses, Octets

LEMMA InitInv == Init => IInv
  BY NobodyIsObject
  DEF Init, IInv, TypeOK, PlaceInv, InPlace, DescriptorsAccounted, Used,
      FirstReachingInterface, FindsFirst, EndpointInv, KnowsEndpoint,
      DestinationIsBound, IsBound, Endpoints, Nowhere, Zero, Addresses, Octets

LEMMA BecomeFacts ==
  ASSUME TypeOK, NEW r \in Receivers, NEW o \in Object, Become(r, o)
  PROVE  /\ receiver' \in [Receivers -> Object]
         /\ receiver'[r] = o
         /\ \A s \in Receivers : s # r => receiver'[s] = receiver[s]
  BY DEF TypeOK, Become

\* One receiver changes: what has to hold of the object it becomes.
LEMMA BecomeInv ==
  ASSUME IInv, NEW r \in Receivers, NEW o \in Object, Become(r, o),
         UNCHANGED interfaces,
         open' \subseteq Fds, bound' \in [Fds -> Endpoints], lost' \subseteq Fds,
         \A s \in Receivers :
           s # r /\ Used(s) => bound'[receiver[s].sockfd] = bound[receiver[s].sockfd],
         DescriptorsAccounted',
         InPlace(o), FindsFirst(o), KnowsEndpoint(o)', IsBound(o)'
  PROVE  IInv'
  <1> USE DEF IInv
  <1>1. /\ receiver' \in [Receivers -> Object]
        /\ receiver'[r] = o
        /\ \A s \in Receivers : s # r => receiver'[s] = receiver[s]
    BY BecomeFacts
  <1>2. TypeOK'
    BY <1>1 DEF TypeOK
  <1>3. PlaceInv'
    BY <1>1 DEF PlaceInv, InPlace
  <1>4. FirstReachingInterface'
    BY <1>1 DEF FirstReachingInterface, FindsFirst
  <1>5. ASSUME NEW s \in Receivers, s # r
        PROVE  KnowsEndpoint(receiver[s])' /\ IsBound(receiver[s])'
    <2>1. KnowsEndpoint(receiver[s]) /\ IsBound(receiver[s]) /\ InPlace(receiver[s])
      BY DEF EndpointInv, DestinationIsBound, PlaceInv
    <2>2. receiver'[s] = receiver[s]
      BY <1>1, <1>5
    <2>3. Used(s) => bound'[receiver[s].sockfd] = bound[receiver[s].sockfd]
      BY <1>5
    <2>4. CASE Used(s)
      BY <2>1, <2>2, <2>3, <2>4 DEF KnowsEndpoint, IsBound, Endpoint
    <2>5. CASE ~Used(s)
      BY <2>1, <2>2, <2>5 DEF KnowsEndpoint, IsBound, InPlace, Used
    <2>6. QED
      BY <2>4, <2>5
  <1>6. EndpointInv'
    BY <1>1, <1>5 DEF EndpointInv, KnowsEndpoint, Endpoint
  <1>7. DestinationIsBound'
    BY <1>1, <1>5 DEF DestinationIsBound, IsBound, Endpoint
  <1>8. QED
    BY <1>2, <1>3, <1>4, <1>6, <1>7

\* The descriptor a receiver holds stays the same.
LEMMA SameHolder ==
  ASSUME IInv, NEW r \in Receivers, NEW o \in Object, Become(r, o),
         o.sockfd = receiver[r].sockfd, UNCHANGED <<open, lost>>
  PROVE  DescriptorsAccounted'
  <1>1. \A s \in Receivers : receiver'[s].sockfd = receiver[s].sockfd
    BY BecomeFacts DEF IInv
  <1>2. QED
    BY <1>1 DEF IInv, DescriptorsAccounted, Used

\* The receiver is gone, its descriptor closed.
LEMMA CloseInv ==
  ASSUME IInv, NEW r \in Receivers, Used(r), Close(r)
  PROVE  IInv'
  <1> USE DEF IInv
  <1> DEFINE f == receiver[r].sockfd
  <1>1. f \in Fds /\ f \notin lost
    BY DEF TypeOK, Object, Used, DescriptorsAccounted
  <1>2. /\ receiver'[r] = Nobody
        /\ \A s \in Receivers : s # r => receiver'[s] = receiver[s]
    BY BecomeFacts, NobodyIsObject DEF Close, End
  <1>3. \A s \in Receivers : s # r => receiver[s].sockfd # f
    BY DEF DescriptorsAccounted, Used
  <1>4. DescriptorsAccounted'
    <2>1. open' = open \ {f} /\ lost' = lost
      BY DEF Close
    <2>2. \A s \in Receivers : receiver'[s].sockfd =
                                 IF s = r THEN NoFd ELSE receiver[s].sockfd
      BY <1>2, NobodyIsObject
    <2>3. receiver[r].sockfd = f
      OBVIOUS
    <2> HIDE DEF f
    <2>4. \A g \in Fds :
            g \in open' <=> g \in lost' \/ \E s \in Receivers : receiver'[s].sockfd = g
      BY <1>1, <1>3, <2>1, <2>2, <2>3 DEF DescriptorsAccounted
    <2>5. NoFd \notin lost
      BY DEF TypeOK
    <2>6. QED
      BY <2>1, <2>2, <2>4, <2>5 DEF DescriptorsAccounted, Used
  <1>5. bound' = [bound EXCEPT ![f] = Nowhere]
    BY DEF Close
  <1>6. Nowhere \in Endpoints
    BY DEF Nowhere, Zero, Endpoints, Addresses, Octets
  <1>7. bound' \in [Fds -> Endpoints] /\ open' \subseteq Fds /\ lost' \subseteq Fds
    BY <1>5, <1>6 DEF TypeOK, Close
  <1>8. \A s \in Receivers :
          s # r /\ Used(s) => bound'[receiver[s].sockfd] = bound[receiver[s].sockfd]
    BY <1>3, <1>5 DEF TypeOK, Object, Used
  <1>9. InPlace(Nobody) /\ FindsFirst(Nobody)
          /\ KnowsEndpoint(Nobody)' /\ IsBound(Nobody)'
    BY NobodyIsObject DEF InPlace, FindsFirst, KnowsEndpoint, IsBound
  <1>10. QED
    BY <1>4, <1>7, <1>8, <1>9, BecomeInv, NobodyIsObject DEF Close, End

\* The receiver is gone and had no descriptor.
LEMMA EndInv ==
  ASSUME IInv, NEW r \in Receivers, ~Used(r), End(r),
         UNCHANGED <<interfaces, kernel, lost>>
  PROVE  IInv'
  <1>1. DescriptorsAccounted'
    BY SameHolder, NobodyIsObject DEF End, Used, kernel
  <1>2. InPlace(Nobody) /\ FindsFirst(Nobody)
          /\ KnowsEndpoint(Nobody)' /\ IsBound(Nobody)'
    BY NobodyIsObject DEF InPlace, FindsFirst, KnowsEndpoint, IsBound
  <1>3. QED
    BY <1>1, <1>2, BecomeInv, NobodyIsObject DEF End, kernel, IInv, TypeOK

\* A step inside one object: kernel and list of interfaces stay as they are.
LEMMA LocalInv ==
  ASSUME IInv, NEW r \in Receivers, NEW o \in Object, Become(r, o),
         o.sockfd = receiver[r].sockfd,
         UNCHANGED <<interfaces, kernel, lost>>,
         InPlace(o), FindsFirst(o), KnowsEndpoint(o), IsBound(o)
  PROVE  IInv'
  <1>1. DescriptorsAccounted'
    BY SameHolder DEF kernel
  <1>2. KnowsEndpoint(o)' /\ IsBound(o)'
    BY DEF KnowsEndpoint, IsBound, kernel
  <1>3. QED
    BY <1>1, <1>2, BecomeInv DEF kernel, IInv, TypeOK

LEMMA CreateReceiverForStreamInv ==
  ASSUME IInv, NEW r \in Receivers, NEW name \in Names \cup {AnyName},
         NEW p \in AskedPorts, CreateReceiverForStream(r, name, p)
  PROVE  IInv'
  <1> DEFINE o == [Nobody EXCEPT !.pc = "scan", !.tracked = TRUE,
                                 !.name = name, !.port = p]
  <1>1. /\ o \in Object /\ o.pc = "scan" /\ o.tracked /\ o.ifa = 1
        /\ o.sockfd = NoFd
    BY NobodyIsObject DEF Object, Nobody
  <1>2. receiver[r].sockfd = NoFd
    BY DEF CreateReceiverForStream, IInv, PlaceInv, InPlace
  <1>3. Become(r, o) /\ UNCHANGED <<interfaces, kernel, lost>>
    BY DEF CreateReceiverForStream
  <1>4. Len(interfaces) \in Nat
    BY DEF IInv, TypeOK
  <1> HIDE DEF o
  <1>5. InPlace(o) /\ FindsFirst(o) /\ KnowsEndpoint(o) /\ IsBound(o)
    BY <1>1, <1>4 DEF InPlace, FindsFirst, KnowsEndpoint, IsBound
  <1>6. QED
    BY <1>1, <1>2, <1>3, <1>5, LocalInv

LEMMA CreateInv ==
  ASSUME IInv, NEW r \in Receivers, NEW ip \in Addresses,
         NEW p \in AskedPorts, Create(r, ip, p)
  PROVE  IInv'
  <1> DEFINE o == [Nobody EXCEPT !.pc = "socket", !.address_buffer = ip,
                                 !.port = p]
  <1>1. o \in Object /\ o.pc = "socket" /\ ~o.tracked /\ o.sockfd = NoFd
    BY NobodyIsObject DEF Object, Nobody
  <1>2. receiver[r].sockfd = NoFd
    BY DEF Create, IInv, PlaceInv, InPlace
  <1>3. Become(r, o) /\ UNCHANGED <<interfaces, kernel, lost>>
    BY DEF Create
  <1> HIDE DEF o
  <1>4. InPlace(o) /\ FindsFirst(o) /\ KnowsEndpoint(o) /\ IsBound(o)
    BY <1>1 DEF InPlace, FindsFirst, KnowsEndpoint, IsBound
  <1>5. QED
    BY <1>1, <1>2, <1>3, <1>4, LocalInv

\* The test of the loop is the one meant.
LEMMA SuitableReaches ==
  ASSUME NEW i \in Interfaces, NEW name
  PROVE  Suitable(i, name) <=> Reaches(i, name)
  <1>1. i.addr \in Addresses /\ i.netmask \in Addresses
    BY DEF Interfaces
  <1>2. QED
    BY <1>1, RangeIsNetwork DEF Suitable, Reaches

LEMMA ScanInterfaceInv ==
  ASSUME IInv, NEW r \in Receivers, ScanInterface(r)
  PROVE  IInv'
  <1> DEFINE x == receiver[r]
             i == interfaces[x.ifa]
             found == Suitable(i, x.name)
             address == IF i.family = "AF_INET" THEN i.addr ELSE x.address_buffer
             place == IF found THEN "socket" ELSE "scan"
             next == IF found THEN x.ifa ELSE x.ifa + 1
             o == [x EXCEPT !.address_buffer = address, !.pc = place, !.ifa = next]
  <1>1. Become(r, o) /\ UNCHANGED <<interfaces, kernel, lost>>
    BY DEF ScanInterface
  <1>2. /\ x \in Object /\ x.pc = "scan" /\ x.tracked /\ x.sockfd = NoFd
        /\ FindsFirst(x)
    BY DEF IInv, TypeOK, PlaceInv, InPlace, FirstReachingInterface, ScanInterface
  <1>3. x.ifa \in Nat \ {0} /\ x.ifa <= Len(interfaces) /\ Len(interfaces) \in Nat
    BY <1>2 DEF Object, IInv, TypeOK, ScanInterface
  <1>4. i \in Interfaces
    BY <1>3 DEF IInv, TypeOK
  <1>5. address \in Addresses /\ next \in Nat \ {0} /\ place \in {"socket", "scan"}
    BY <1>2, <1>3, <1>4 DEF Object, Interfaces
  <1>6. found <=> Reaches(i, x.name)
    BY <1>4, SuitableReaches
  <1>7. found => address = i.addr
    BY DEF Suitable
  <1>8. \A j \in 1..(x.ifa - 1) : ~Reaches(interfaces[j], x.name)
    BY <1>2 DEF FindsFirst
  <1> HIDE DEF address, place, next, x
  <1>9. /\ o \in Object /\ o.pc = place /\ o.ifa = next
        /\ o.address_buffer = address /\ o.sockfd = NoFd
        /\ o.tracked /\ o.name = x.name
    BY <1>2, <1>5 DEF Object
  <1> HIDE DEF o
  <1>10. FindsFirst(o)
    <2>1. CASE found
      <3>1. next = x.ifa /\ place = "socket"
        BY <2>1 DEF next, place
      <3>2. QED
        BY <1>3, <1>6, <1>7, <1>8, <1>9, <2>1, <3>1 DEF FindsFirst
    <2>2. CASE ~found
      <3>1. next = x.ifa + 1 /\ place = "scan"
        BY <2>2 DEF next, place
      <3>2. \A j \in 1..(next - 1) : j = x.ifa \/ j \in 1..(x.ifa - 1)
        BY <1>3, <3>1
      <3>3. QED
        BY <1>3, <1>6, <1>8, <1>9, <2>2, <3>1, <3>2 DEF FindsFirst
    <2>3. QED
      BY <2>1, <2>2
  <1>11. InPlace(o) /\ KnowsEndpoint(o) /\ IsBound(o)
    BY <1>5, <1>9 DEF InPlace, KnowsEndpoint, IsBound
  <1>12. receiver[r].sockfd = NoFd
    BY <1>2 DEF x
  <1>13. QED
    BY <1>1, <1>9, <1>10, <1>11, <1>12, LocalInv

LEMMA OpenSocketInv ==
  ASSUME IInv, NEW r \in Receivers, OpenSocket(r)
  PROVE  IInv'
  <1> USE DEF IInv
  <1> DEFINE x == receiver[r]
  <1>1. PICK f \in Fds \ open :
          /\ open' = open \cup {f}
          /\ Become(r, [receiver[r] EXCEPT !.pc = "bind", !.sockfd = f])
    BY DEF OpenSocket
  <1> DEFINE o == [x EXCEPT !.pc = "bind", !.sockfd = f]
  <1>2. Become(r, o) /\ UNCHANGED <<interfaces, bound, lost>>
    BY <1>1 DEF OpenSocket
  <1>3. x \in Object /\ x.pc = "socket" /\ x.sockfd = NoFd /\ FindsFirst(x)
    BY DEF TypeOK, PlaceInv, InPlace, FirstReachingInterface, OpenSocket
  <1> HIDE DEF x
  <1>4. /\ o \in Object /\ o.pc = "bind" /\ o.sockfd = f
        /\ o.tracked = x.tracked /\ o.name = x.name /\ o.ifa = x.ifa
        /\ o.address_buffer = x.address_buffer
    BY <1>3 DEF Object
  <1> HIDE DEF o
  <1>5. \A s \in Receivers : receiver'[s].sockfd =
                               IF s = r THEN f ELSE receiver[s].sockfd
    BY <1>2, <1>4, BecomeFacts
  <1>6. \A s \in Receivers : receiver[s].sockfd # f /\ f \notin lost
    BY DEF DescriptorsAccounted
  <1>7. receiver[r].sockfd = NoFd
    BY <1>3 DEF x
  <1>8. DescriptorsAccounted'
    <2>1. \A g \in Fds :
            g \in open' <=> g \in lost' \/ \E s \in Receivers : receiver'[s].sockfd = g
      BY <1>1, <1>2, <1>5, <1>6, <1>7 DEF DescriptorsAccounted
    <2>2. QED
      BY <2>1, <1>2, <1>5, <1>6 DEF DescriptorsAccounted, Used
  <1>9. PICK y \in Object : y = o
    BY <1>4
  <1>10. InPlace(y) /\ FindsFirst(y) /\ KnowsEndpoint(y)' /\ IsBound(y)'
    BY <1>3, <1>4, <1>9 DEF InPlace, FindsFirst, KnowsEndpoint, IsBound
  <1>11. QED
    BY <1>1, <1>2, <1>8, <1>9, <1>10, BecomeInv DEF TypeOK

\* A port that fits 16 bits survives the cast.
LEMMA SmallPort ==
  ASSUME NEW port \in Nat
  PROVE  /\ port % PortLimit \in Nat
         /\ 0 % PortLimit = 0
         /\ port < PortLimit => port % PortLimit = port
  OBVIOUS

LEMMA BindInv ==
  ASSUME IInv, NEW r \in Receivers, Bind(r)
  PROVE  IInv'
  <1> USE DEF IInv
  <1> DEFINE x == receiver[r]
             place == IF x.port = 0 THEN "getsockname" ELSE Constructed(r)
             o == [x EXCEPT !.port_ = x.port, !.pc = place]
  <1>1. Become(r, o) /\ UNCHANGED <<interfaces, open, lost>>
    BY DEF Bind
  <1>2. /\ x \in Object /\ x.pc = "bind" /\ x.sockfd \in Fds /\ FindsFirst(x)
    BY DEF TypeOK, PlaceInv, InPlace, FirstReachingInterface, Bind, Object
  <1>3. PICK p \in BindPorts(x.port) :
          bound' = [bound EXCEPT ![x.sockfd] =
                     [ip |-> x.address_buffer, port |-> p]]
    BY DEF Bind
  <1>4. place \in {"getsockname", "add", "up"}
    BY DEF Constructed
  <1>5. (place = "getsockname" => x.port = 0) /\ (x.port = 0 => place = "getsockname")
    BY DEF Constructed
  <1>6. x.tracked => place # "up"
    BY DEF Constructed
  <1>7. x.port \in Nat /\ p \in Nat /\ (x.port = 0 => p \in HostPorts)
          /\ (x.port # 0 /\ x.port < PortLimit => p = x.port)
    <2>1. x.port \in Nat
      BY <1>2 DEF Object
    <2>2. \A h \in HostPorts : h \in Nat
      OBVIOUS
    <2>3. p \in HostPorts \/ p = x.port % PortLimit
      BY <1>3 DEF BindPorts
    <2>4. x.port = 0 => p \in HostPorts
      BY <1>3, SmallPort DEF BindPorts
    <2>5. x.port # 0 /\ x.port < PortLimit => p = x.port
      BY <1>3, <2>1, SmallPort DEF BindPorts
    <2> HIDE DEF x
    <2>6. QED
      BY <2>1, <2>2, <2>3, <2>4, <2>5, SmallPort
  <1> HIDE DEF x, place
  <1>8. /\ o \in Object /\ o.pc = place /\ o.port = x.port /\ o.port_ = x.port
        /\ o.tracked = x.tracked /\ o.name = x.name /\ o.ifa = x.ifa
        /\ o.address_buffer = x.address_buffer /\ o.sockfd = x.sockfd
    BY <1>2, <1>4, <1>7 DEF Object
  <1> HIDE DEF o
  <1>9. DescriptorsAccounted'
    BY <1>1, <1>8, SameHolder DEF x
  <1>10. bound' \in [Fds -> Endpoints]
    <2>1. [ip |-> x.address_buffer, port |-> p] \in Endpoints
      BY <1>2, <1>7 DEF Object, Endpoints
    <2>2. QED
      BY <1>3, <2>1 DEF TypeOK
  <1>11. ASSUME NEW s \in Receivers, s # r, Used(s)
         PROVE  bound'[receiver[s].sockfd] = bound[receiver[s].sockfd]
    <2>1. receiver[s].sockfd # x.sockfd
      BY <1>11 DEF x, DescriptorsAccounted
    <2>2. QED
      BY <1>3, <1>11, <2>1 DEF TypeOK, Object, Used
  <1>12. PICK y \in Object : y = o
    BY <1>8
  <1>13. bound'[y.sockfd] = [ip |-> y.address_buffer, port |-> p]
    BY <1>2, <1>3, <1>8, <1>12 DEF TypeOK
  <1>14. InPlace(y) /\ FindsFirst(y)
    BY <1>2, <1>4, <1>8, <1>12 DEF InPlace, FindsFirst
  <1>15. KnowsEndpoint(y)'
    BY <1>4, <1>5, <1>7, <1>8, <1>12, <1>13 DEF KnowsEndpoint, Endpoint
  <1>16. IsBound(y)'
    BY <1>4, <1>5, <1>6, <1>7, <1>8, <1>12, <1>13 DEF IsBound, Endpoint
  <1>17. QED
    BY <1>1, <1>9, <1>10, <1>11, <1>12, <1>14, <1>15, <1>16, BecomeInv DEF TypeOK

\* The constructor throws: its descriptor is lost.
LEMMA BindFailsInv ==
  ASSUME IInv, NEW r \in Receivers, BindFails(r)
  PROVE  IInv'
  <1> USE DEF IInv
  <1> DEFINE f == receiver[r].sockfd
  <1>1. f \in Fds /\ f \in open
    BY DEF TypeOK, PlaceInv, InPlace, BindFails, Object, DescriptorsAccounted
  <1>2. Become(r, Nobody) /\ lost' = lost \cup {f} /\ UNCHANGED <<interfaces, open, bound>>
    BY DEF BindFails, End, kernel
  <1>3. \A s \in Receivers : receiver'[s].sockfd =
                               IF s = r THEN NoFd ELSE receiver[s].sockfd
    BY <1>2, BecomeFacts, NobodyIsObject
  <1>4. \A s \in Receivers : s # r => receiver[s].sockfd # f
    BY <1>1 DEF DescriptorsAccounted, Used
  <1>5. DescriptorsAccounted'
    <2>1. receiver[r].sockfd = f
      OBVIOUS
    <2> HIDE DEF f
    <2>2. \A g \in Fds :
            g \in open' <=> g \in lost' \/ \E s \in Receivers : receiver'[s].sockfd = g
      BY <1>1, <1>2, <1>3, <1>4, <2>1 DEF DescriptorsAccounted
    <2>3. NoFd \notin lost /\ NoFd # f
      BY <1>1 DEF TypeOK
    <2>4. QED
      BY <1>2, <1>3, <1>4, <2>2, <2>3 DEF DescriptorsAccounted, Used
  <1>6. InPlace(Nobody) /\ FindsFirst(Nobody)
          /\ KnowsEndpoint(Nobody)' /\ IsBound(Nobody)'
    BY NobodyIsObject DEF InPlace, FindsFirst, KnowsEndpoint, IsBound
  <1>7. QED
    BY <1>1, <1>2, <1>5, <1>6, BecomeInv, NobodyIsObject DEF TypeOK

LEMMA GetSockNameInv ==
  ASSUME IInv, NEW r \in Receivers, GetSockName(r)
  PROVE  IInv'
  <1> USE DEF IInv
  <1> DEFINE x == receiver[r]
             b == bound[x.sockfd]
             place == Constructed(r)
             o == [x EXCEPT !.port_ = b.port, !.port = b.port, !.pc = place]
  <1>1. Become(r, o) /\ UNCHANGED <<interfaces, kernel, lost>>
    BY DEF GetSockName
  <1>2. /\ x \in Object /\ x.pc = "getsockname" /\ x.sockfd \in Fds
        /\ FindsFirst(x) /\ KnowsEndpoint(x)
    BY DEF TypeOK, PlaceInv, InPlace, FirstReachingInterface, EndpointInv,
           GetSockName, Object
  <1>3. place \in {"add", "up"} /\ (x.tracked => place = "add")
    BY DEF Constructed
  <1>4. b.ip = x.address_buffer /\ b.port \in Nat /\ b \in Endpoints
    BY <1>2 DEF KnowsEndpoint, TypeOK, Endpoints
  <1>5. b = [ip |-> b.ip, port |-> b.port]
    BY <1>4 DEF Endpoints
  <1>6. o.sockfd = x.sockfd /\ b = bound[x.sockfd] /\ x = receiver[r]
    BY <1>2 DEF Object
  <1> HIDE DEF x, b, place
  <1>7. /\ o \in Object /\ o.pc = place /\ o.port = b.port /\ o.port_ = b.port
        /\ o.tracked = x.tracked /\ o.name = x.name /\ o.ifa = x.ifa
        /\ o.address_buffer = x.address_buffer
    BY <1>2, <1>3, <1>4 DEF Object
  <1> HIDE DEF o
  <1>8. InPlace(o) /\ FindsFirst(o)
    BY <1>2, <1>3, <1>6, <1>7 DEF InPlace, FindsFirst
  <1>9. KnowsEndpoint(o) /\ IsBound(o)
    BY <1>3, <1>4, <1>5, <1>6, <1>7 DEF KnowsEndpoint, IsBound, Endpoint
  <1>10. QED
    BY <1>1, <1>6, <1>7, <1>8, <1>9, LocalInv

LEMMA AddDestinationInv ==
  ASSUME IInv, NEW r \in Receivers, AddDestination(r)
  PROVE  IInv'
  <1> USE DEF IInv
  <1> DEFINE x == receiver[r]
             e == Endpoint(x)
             o == [x EXCEPT !.pc = "up", !.dest_ = e, !.added = e]
  <1>1. Become(r, o) /\ UNCHANGED <<interfaces, kernel, lost>>
    BY DEF AddDestination
  <1>2. /\ x \in Object /\ x.pc = "add" /\ x.sockfd \in Fds
        /\ FindsFirst(x) /\ KnowsEndpoint(x)
    BY DEF TypeOK, PlaceInv, InPlace, FirstReachingInterface, EndpointInv,
           AddDestination, Object
  <1>3. e \in Endpoints
    BY <1>2 DEF Object, Endpoint, Endpoints
  <1>4. e = [ip |-> x.address_buffer, port |-> x.port] /\ x = receiver[r]
    BY DEF Endpoint
  <1> HIDE DEF x, e
  <1>5. /\ o \in Object /\ o.pc = "up" /\ o.dest_ = e /\ o.added = e
        /\ o.port = x.port /\ o.port_ = x.port_ /\ o.sockfd = x.sockfd
        /\ o.tracked = x.tracked /\ o.name = x.name /\ o.ifa = x.ifa
        /\ o.address_buffer = x.address_buffer
    BY <1>2, <1>3 DEF Object
  <1> HIDE DEF o
  <1>6. InPlace(o) /\ FindsFirst(o)
    BY <1>2, <1>5 DEF InPlace, FindsFirst
  <1>7. KnowsEndpoint(o) /\ IsBound(o)
    BY <1>2, <1>4, <1>5 DEF KnowsEndpoint, IsBound, Endpoint
  <1>8. QED
    BY <1>1, <1>4, <1>5, <1>6, <1>7, LocalInv

-----------------------------------------------------------------------------
(* Theorems *)

LEMMA StepInv == IInv /\ [Next]_vars => IInv'
  <1> SUFFICES ASSUME IInv, [Next]_vars
               PROVE  IInv'
    OBVIOUS
  <1>1. CASE UNCHANGED vars
    BY <1>1 DEF vars, kernel, IInv, TypeOK, PlaceInv, InPlace,
       DescriptorsAccounted, Used, FirstReachingInterface, FindsFirst,
       EndpointInv, KnowsEndpoint, DestinationIsBound, IsBound
  <1>2. ASSUME NEW r \in Receivers, Step(r)
        PROVE  IInv'
    <2>1. HostAddresses \cup {Visard} \subseteq Addresses
      <3>1. interfaces \in Seq(Interfaces)
        BY DEF IInv, TypeOK
      <3>2. \A i \in 1..Len(interfaces) : interfaces[i].addr \in Addresses
        <4>1. \A i \in 1..Len(interfaces) : interfaces[i] \in Interfaces
          BY <3>1
        <4>2. \A i \in Interfaces : i.addr \in Addresses
          BY DEF Interfaces
        <4>3. QED
          BY <4>1, <4>2
      <3>3. QED
        BY <3>2 DEF HostAddresses
    <2>2. ASSUME NEW name \in Names \cup {AnyName}, NEW p \in AskedPorts,
                 CreateReceiverForStream(r, name, p)
          PROVE  IInv'
      BY <2>2, CreateReceiverForStreamInv
    <2>3. ASSUME NEW ip \in HostAddresses \cup {Visard}, NEW p \in AskedPorts,
                 Create(r, ip, p)
          PROVE  IInv'
      BY <2>1, <2>3, CreateInv
    <2>4. CASE ScanInterface(r)
      BY <2>4, ScanInterfaceInv
    <2>5. CASE NoAddress(r) \/ NoSocket(r)
      <3>1. ~Used(r)
        BY <2>5 DEF NoAddress, NoSocket, IInv, PlaceInv, InPlace, Used
      <3>2. QED
        BY <2>5, <3>1, EndInv DEF NoAddress, NoSocket
    <2>6. CASE OpenSocket(r)
      BY <2>6, OpenSocketInv
    <2>7. CASE Bind(r)
      BY <2>7, BindInv
    <2>8. CASE BindFails(r)
      BY <2>8, BindFailsInv
    <2>9. CASE GetSockName(r)
      BY <2>9, GetSockNameInv
    <2>10. CASE GetSockNameFails(r) \/ Destroy(r)
      <3>1. Used(r)
        BY <2>10 DEF GetSockNameFails, Destroy, IInv, PlaceInv, InPlace, Used
      <3>2. QED
        BY <2>10, <3>1, CloseInv DEF GetSockNameFails, Destroy
    <2>11. CASE AddDestination(r)
      BY <2>11, AddDestinationInv
    <2>12. QED
      BY <1>2, <2>2, <2>3, <2>4, <2>5, <2>6, <2>7, <2>8, <2>9, <2>10, <2>11
      DEF Step
  <1>3. QED
    BY <1>1, <1>2 DEF Next

\* The inductive invariant holds in every reachable state.
THEOREM Invariance == Spec => []IInv
  BY InitInv, StepInv, PTL DEF Spec

\* The only descriptors that leak are those of a bind() that failed
\* (data_receiver.h:247), whatever threads create and destroy receivers.
THEOREM OnlyBindLeaks == Spec => []DescriptorsAccounted
  <1>1. IInv => DescriptorsAccounted
    BY DEF IInv
  <1>2. QED
    BY <1>1, Invariance, PTL

\* getThisHostsIP() (net_utils.cc:229-275) returns the address of the first
\* interface that reaches the sensor, on every host.
THEOREM AddressReachesSensor == Spec => []FirstReachingInterface
  <1>1. IInv => FirstReachingInterface
    BY DEF IInv
  <1>2. QED
    BY <1>1, Invariance, PTL

\* The destination added, the one to be deleted and getPort() agree with the
\* socket, asked for a port or not (data_receiver.h:220-290).
THEOREM DestinationsBound == Spec => []DestinationIsBound
  <1>1. IInv => DestinationIsBound
    BY DEF IInv
  <1>2. QED
    BY <1>1, Invariance, PTL
-----------------------------------------------------------------------------
(* DataReceiver implements Reservation: bind() takes an endpoint, close()    *)
(* releases it, and all other system calls and exceptions leave it alone.    *)

HeldBy(o) == IF o.sockfd # NoFd THEN bound[o.sockfd] ELSE Nowhere
ToldBy(o) == IF o.port < PortLimit THEN o.added ELSE Nowhere

\* A step of a thread is one of Reservation, or none.
Simulates == [Promise!Next]_(Promise!vars)

LEMMA Mapping ==
  /\ Held = [r \in Receivers |-> HeldBy(receiver[r])]
  /\ Told = [r \in Receivers |-> ToldBy(receiver[r])]
  BY DEF Held, Told, HeldBy, ToldBy, Used

\* One receiver changes, and no other one's socket.
LEMMA OneChanges ==
  ASSUME IInv, NEW r \in Receivers, NEW o, Become(r, o),
         \A s \in Receivers :
           s # r /\ Used(s) => bound'[receiver[s].sockfd] = bound[receiver[s].sockfd]
  PROVE  /\ receiver'[r] = o
         /\ \A s \in Receivers : s # r => receiver'[s] = receiver[s]
         /\ Held' = [Held EXCEPT ![r] = HeldBy(o)']
         /\ Told' = [Told EXCEPT ![r] = ToldBy(o)]
  <1>1. /\ receiver'[r] = o
        /\ \A s \in Receivers : s # r => receiver'[s] = receiver[s]
    BY DEF Become, IInv, TypeOK
  <1>2. \A s \in Receivers : HeldBy(receiver[s])' =
                               IF s = r THEN HeldBy(o)' ELSE HeldBy(receiver[s])
    BY <1>1 DEF HeldBy, Used
  <1>3. \A s \in Receivers : ToldBy(receiver[s])' =
                               IF s = r THEN ToldBy(o) ELSE ToldBy(receiver[s])
    BY <1>1 DEF ToldBy
  <1>4. Held' = [s \in Receivers |-> HeldBy(receiver[s])']
    BY DEF Held, HeldBy, Used
  <1>5. Told' = [s \in Receivers |-> ToldBy(receiver[s])']
    BY DEF Told, ToldBy
  <1>6. Held' = [Held EXCEPT ![r] = HeldBy(o)']
    BY <1>2, <1>4, Mapping
  <1>7. Told' = [Told EXCEPT ![r] = ToldBy(o)]
    BY <1>3, <1>5, Mapping
  <1>8. QED
    BY <1>1, <1>6, <1>7

\* The same for the invariant.
LEMMA ReservedOnes ==
  ASSUME IInv, ReservedInv, NEW r \in Receivers, NEW o, Become(r, o),
         \A s \in Receivers :
           s # r /\ Used(s) => bound'[receiver[s].sockfd] = bound[receiver[s].sockfd],
         \A f \in Fds : bound'[f] # Nowhere =>
           f = o.sockfd \/ (bound[f] # Nowhere /\ f # receiver[r].sockfd),
         Reserved(o)'
  PROVE  ReservedInv'
  <1>1. /\ receiver'[r] = o
        /\ \A s \in Receivers : s # r => receiver'[s] = receiver[s]
    BY OneChanges
  <1>2. ASSUME NEW f \in Fds, bound'[f] # Nowhere
        PROVE  \E s \in Receivers : receiver'[s].sockfd = f
    <2>1. CASE f = o.sockfd
      BY <1>1, <2>1
    <2>2. CASE bound[f] # Nowhere /\ f # receiver[r].sockfd
      <3>1. PICK s \in Receivers : receiver[s].sockfd = f
        BY <2>2 DEF ReservedInv
      <3>2. QED
        BY <1>1, <2>2, <3>1
    <2>3. QED
      BY <1>2, <2>1, <2>2
  <1>3. ASSUME NEW s \in Receivers, s # r
        PROVE  Reserved(receiver[s])'
    <2>1. Reserved(receiver[s]) /\ InPlace(receiver[s]) /\ receiver'[s] = receiver[s]
      BY <1>1, <1>3 DEF ReservedInv, IInv, PlaceInv
    <2>2. Used(s) => bound'[receiver[s].sockfd] = bound[receiver[s].sockfd]
      BY <1>3
    <2>3. QED
      BY <2>1, <2>2 DEF Reserved, InPlace, Used
  <1>4. Reserved(receiver[r])'
    BY <1>1 DEF Reserved
  <1>5. QED
    BY <1>2, <1>3, <1>4 DEF ReservedInv

\* Steps that bind nothing, close nothing and tell the sensor nothing.
LEMMA NothingReserved ==
  ASSUME IInv, ReservedInv, NEW r \in Receivers, NEW o, Become(r, o),
         bound' = bound, Reserved(o), receiver[r].pc # "up", o.pc # "up",
         HeldBy(o) = HeldBy(receiver[r]),
         o.sockfd = receiver[r].sockfd \/ HeldBy(receiver[r]) = Nowhere
  PROVE  ReservedInv' /\ Simulates
  <1>1. ReservedInv'
    <2>1. \A f \in Fds : bound'[f] # Nowhere =>
            f = o.sockfd \/ (bound[f] # Nowhere /\ f # receiver[r].sockfd)
      BY DEF HeldBy
    <2>2. Reserved(o)'
      BY DEF Reserved
    <2>3. QED
      BY <2>1, <2>2, ReservedOnes
  <1>2. ToldBy(o) = Nowhere /\ ToldBy(receiver[r]) = Nowhere
    BY DEF ReservedInv, Reserved, ToldBy
  <1>3. HeldBy(o)' = HeldBy(o)
    BY DEF HeldBy
  <1>4. Held' = Held
    BY <1>3, OneChanges, Mapping
  <1>5. Told' = Told
    BY <1>2, OneChanges, Mapping
  <1>6. QED
    BY <1>1, <1>4, <1>5 DEF Simulates, Promise!vars

\* A descriptor that is not open is bound to nothing.
LEMMA ClosedIsNowhere ==
  ASSUME IInv, ReservedInv, NEW f \in Fds \ open
  PROVE  bound[f] = Nowhere
  BY DEF ReservedInv, IInv, DescriptorsAccounted

LEMMA EndsUnreserved ==
  ASSUME IInv, ReservedInv, NEW r \in Receivers,
         receiver[r].pc \notin {"getsockname", "add", "up"},
         End(r), bound' = bound
  PROVE  ReservedInv' /\ Simulates
  <1>1. /\ Nobody.pc = "none" /\ Nobody.sockfd = NoFd /\ Nobody.added = Nowhere
    BY DEF Nobody
  <1>2. Reserved(Nobody) /\ HeldBy(Nobody) = Nowhere
    BY <1>1 DEF Reserved, HeldBy
  <1>3. HeldBy(receiver[r]) = Nowhere
    BY DEF ReservedInv, Reserved, HeldBy, IInv, PlaceInv, InPlace, TypeOK, Object
  <1>4. QED
    BY <1>1, <1>2, <1>3, NothingReserved DEF End

\* A call of the program, or an iteration of the loop over the interfaces.
LEMMA SearchUnreserved ==
  ASSUME IInv, ReservedInv, NEW r \in Receivers, NEW o, Become(r, o),
         bound' = bound,
         receiver[r].pc \in {"none", "scan"}, o.pc \in {"scan", "socket"},
         o.sockfd = receiver[r].sockfd, o.added = receiver[r].added
  PROVE  ReservedInv' /\ Simulates
  <1>1. o.added = Nowhere
    BY DEF ReservedInv, Reserved
  <1>2. Reserved(o)
    BY <1>1 DEF Reserved
  <1>3. HeldBy(o) = HeldBy(receiver[r])
    BY DEF HeldBy
  <1>4. QED
    BY <1>2, <1>3, NothingReserved

LEMMA OpenSocketReserves ==
  ASSUME IInv, ReservedInv, NEW r \in Receivers, OpenSocket(r)
  PROVE  ReservedInv' /\ Simulates
  <1>1. PICK f \in Fds \ open :
          Become(r, [receiver[r] EXCEPT !.pc = "bind", !.sockfd = f])
    BY DEF OpenSocket
  <1> DEFINE o == [receiver[r] EXCEPT !.pc = "bind", !.sockfd = f]
  <1>2. receiver[r].pc = "socket" /\ receiver[r].sockfd = NoFd /\ bound' = bound
    BY DEF OpenSocket, IInv, PlaceInv, InPlace
  <1>3. o.pc = "bind" /\ o.sockfd = f /\ o.added = receiver[r].added
    BY DEF IInv, TypeOK, Object
  <1>4. Become(r, o)
    BY <1>1
  <1> HIDE DEF o
  <1>5. bound[f] = Nowhere /\ receiver[r].added = Nowhere
    BY <1>2, ClosedIsNowhere DEF ReservedInv, Reserved
  <1>6. Reserved(o)
    BY <1>3, <1>5 DEF Reserved
  <1>7. HeldBy(o) = Nowhere /\ HeldBy(receiver[r]) = Nowhere
    BY <1>2, <1>3, <1>5 DEF HeldBy
  <1>8. QED
    BY <1>2, <1>3, <1>4, <1>6, <1>7, NothingReserved

\* bind() to port 0 never ends at port 0.
LEMMA BoundPort ==
  ASSUME NEW port \in Nat, NEW p \in BindPorts(port)
  PROVE  p \in 1..(PortLimit - 1)
  <1>1. PortLimit \in Nat \ {0}
    BY DataReceiverAssumption
  <1>2. port % PortLimit \in 0..(PortLimit - 1)
    BY <1>1
  <1>3. QED
    BY <1>1, <1>2, DataReceiverAssumption DEF BindPorts

LEMMA BindReserves ==
  ASSUME IInv, ReservedInv, NEW r \in Receivers, Bind(r)
  PROVE  ReservedInv' /\ Simulates
  <1> DEFINE x == receiver[r]
             place == IF x.port = 0 THEN "getsockname" ELSE Constructed(r)
             o == [x EXCEPT !.port_ = x.port, !.pc = place]
  <1>1. Become(r, o) /\ open' = open
    BY DEF Bind
  <1>2. PICK p \in BindPorts(x.port) :
          /\ Bindable([ip |-> x.address_buffer, port |-> p])
          /\ bound' = [bound EXCEPT ![x.sockfd] =
                        [ip |-> x.address_buffer, port |-> p]]
    BY DEF Bind
  <1> DEFINE e == [ip |-> x.address_buffer, port |-> p]
  <1>3. /\ x \in Object /\ x.pc = "bind" /\ x.sockfd \in Fds /\ x.added = Nowhere
        /\ bound[x.sockfd] = Nowhere
    BY DEF Bind, IInv, TypeOK, Object, PlaceInv, InPlace, ReservedInv, Reserved
  <1>4. place \in {"getsockname", "add", "up"} /\ (place = "up" => ~x.tracked)
    BY DEF Constructed
  <1>5. PICK y : y = o /\ y.pc = place /\ y.sockfd = x.sockfd /\ y.added = x.added
                 /\ y.port = x.port
    <2>1. o.pc = place /\ o.sockfd = x.sockfd /\ o.added = x.added
            /\ o.port = x.port
      BY <1>3 DEF Object
    <2> HIDE DEF o
    <2>2. QED
      BY <2>1
  <1>6. p \in 1..(PortLimit - 1) /\ x.address_buffer \in Addresses
    BY <1>3, BoundPort DEF Object
  <1>7. e \in [ip : Addresses, port : 1..(PortLimit - 1)]
    BY <1>6
  <1>8. e # Nowhere
    <2>1. e.port = p /\ Nowhere.port = 0
      BY DEF Nowhere
    <2>2. QED
      BY <1>6, <2>1
  <1>9. /\ x = receiver[r] /\ Bindable(e)
        /\ bound' = [bound EXCEPT ![x.sockfd] = e]
        /\ Become(r, y) /\ open' = open
    BY <1>1, <1>2, <1>5
  <1> HIDE DEF x, place, e, o
  <1>10. \A s \in Receivers :
           s # r /\ Used(s) => bound'[receiver[s].sockfd] = bound[receiver[s].sockfd]
    <2>1. \A s \in Receivers : s # r /\ Used(s) => receiver[s].sockfd # x.sockfd
      BY <1>3, <1>9 DEF IInv, DescriptorsAccounted, Used
    <2>2. QED
      BY <1>9, <2>1 DEF IInv, TypeOK
  <1>11. bound'[x.sockfd] = e
    BY <1>3, <1>9 DEF IInv, TypeOK
  <1>12. ReservedInv'
    <2>1. Reserved(y)'
      BY <1>3, <1>4, <1>5, <1>8, <1>11 DEF Reserved
    <2>2. \A f \in Fds : bound'[f] # Nowhere =>
            f = y.sockfd \/ (bound[f] # Nowhere /\ f # receiver[r].sockfd)
      BY <1>5, <1>9 DEF IInv, TypeOK
    <2>3. QED
      BY <1>9, <1>10, <2>1, <2>2, ReservedOnes
  <1>13. HeldBy(y)' = e
    BY <1>3, <1>5, <1>11 DEF HeldBy
  <1>14. Held' = [Held EXCEPT ![r] = e] /\ Told' = [Told EXCEPT ![r] = ToldBy(y)]
    BY <1>9, <1>10, <1>13, OneChanges
  <1>15. ToldBy(y) = Nowhere /\ Told[r] = Nowhere /\ Held[r] = Nowhere
    BY <1>3, <1>5, <1>9, Mapping DEF ToldBy, HeldBy
  <1>16. Told' = Told
    BY <1>14, <1>15, Mapping
  <1>17. \A s \in Receivers : Held[s] # e
    <2>1. ASSUME NEW s \in Receivers, Used(s) PROVE bound[receiver[s].sockfd] # e
      <3>1. receiver[s].sockfd \in open
        BY <2>1 DEF IInv, TypeOK, Object, DescriptorsAccounted, Used
      <3>2. QED
        BY <1>9, <3>1 DEF Bindable
    <2>2. QED
      BY <1>8, <2>1, Mapping DEF HeldBy, Used
  <1>18. Held'[r] = e
    BY <1>14, Mapping
  <1>19. Promise!Take(r)
    BY <1>7, <1>14, <1>15, <1>16, <1>17, <1>18 DEF Promise!Take
  <1>20. QED
    BY <1>12, <1>19 DEF Simulates, Promise!Next

LEMMA GetSockNameReserves ==
  ASSUME IInv, ReservedInv, NEW r \in Receivers, GetSockName(r)
  PROVE  ReservedInv' /\ Simulates
  <1> DEFINE x == receiver[r]
             n == bound[x.sockfd].port
             place == Constructed(r)
             o == [x EXCEPT !.port_ = n, !.port = n, !.pc = place]
  <1>1. Become(r, o) /\ bound' = bound
    BY DEF GetSockName, kernel
  <1>2. /\ x \in Object /\ x.pc = "getsockname" /\ x.sockfd # NoFd
        /\ x.added = Nowhere /\ bound[x.sockfd] # Nowhere
    BY DEF GetSockName, IInv, TypeOK, PlaceInv, InPlace, ReservedInv, Reserved
  <1>3. place \in {"add", "up"}
    BY DEF Constructed
  <1>4. PICK y : y = o /\ y.pc = place /\ y.sockfd = x.sockfd /\ y.added = x.added
    <2>1. o.pc = place /\ o.sockfd = x.sockfd /\ o.added = x.added
      BY <1>2 DEF Object
    <2> HIDE DEF o
    <2>2. QED
      BY <2>1
  <1>5. x = receiver[r] /\ Become(r, y)
    BY <1>1, <1>4
  <1> HIDE DEF x, place, n, o
  <1>6. Reserved(y)'
    BY <1>1, <1>2, <1>3, <1>4 DEF Reserved
  <1>7. ReservedInv'
    BY <1>1, <1>4, <1>5, <1>6, ReservedOnes
  <1>8. HeldBy(y)' = HeldBy(x) /\ ToldBy(y) = Nowhere /\ ToldBy(x) = Nowhere
    BY <1>1, <1>2, <1>4 DEF HeldBy, ToldBy
  <1>9. Held' = Held /\ Told' = Told
    <2>1. Held' = [Held EXCEPT ![r] = HeldBy(y)'] /\ Told' = [Told EXCEPT ![r] = ToldBy(y)]
      BY <1>1, <1>5, OneChanges
    <2>2. Held[r] = HeldBy(x) /\ Told[r] = ToldBy(x)
      BY <1>5, Mapping
    <2>3. QED
      BY <1>8, <2>1, <2>2, Mapping
  <1>10. QED
    BY <1>7, <1>9 DEF Simulates, Promise!vars

LEMMA CloseReleases ==
  ASSUME IInv, ReservedInv, NEW r \in Receivers,
         receiver[r].pc \in {"getsockname", "add", "up"}, Close(r)
  PROVE  ReservedInv' /\ Simulates
  <1> DEFINE f == receiver[r].sockfd
  <1>1. f \in Fds /\ f # NoFd /\ bound[f] # Nowhere
    BY DEF IInv, TypeOK, Object, PlaceInv, InPlace, ReservedInv, Reserved
  <1>2. Become(r, Nobody) /\ bound' = [bound EXCEPT ![f] = Nowhere]
    BY DEF Close, End
  <1>3. /\ Nobody.pc = "none" /\ Nobody.sockfd = NoFd /\ Nobody.added = Nowhere
    BY DEF Nobody
  <1>4. \A s \in Receivers : s # r /\ Used(s) => receiver[s].sockfd # f
    BY <1>1 DEF IInv, DescriptorsAccounted, Used
  <1>5. f = receiver[r].sockfd
    OBVIOUS
  <1> HIDE DEF f
  <1>6. \A s \in Receivers :
          s # r /\ Used(s) => bound'[receiver[s].sockfd] = bound[receiver[s].sockfd]
    BY <1>2, <1>4 DEF IInv, TypeOK
  <1>7. ReservedInv'
    <2>1. \A g \in Fds : bound'[g] # Nowhere =>
            g = Nobody.sockfd \/ (bound[g] # Nowhere /\ g # receiver[r].sockfd)
      BY <1>1, <1>2, <1>5 DEF IInv, TypeOK
    <2>2. Reserved(Nobody)'
      BY <1>3 DEF Reserved
    <2>3. QED
      BY <1>2, <1>6, <2>1, <2>2, ReservedOnes
  <1>8. HeldBy(Nobody)' = Nowhere /\ ToldBy(Nobody) = Nowhere
    BY <1>3 DEF HeldBy, ToldBy
  <1>9. Held' = [Held EXCEPT ![r] = Nowhere] /\ Told' = [Told EXCEPT ![r] = Nowhere]
    BY <1>2, <1>6, <1>8, OneChanges
  <1>10. Held[r] # Nowhere
    BY <1>1, <1>5, Mapping DEF HeldBy
  <1>11. Promise!Release(r)
    BY <1>9, <1>10 DEF Promise!Release
  <1>12. QED
    BY <1>7, <1>11 DEF Simulates, Promise!Next

LEMMA AddDestinationTells ==
  ASSUME IInv, ReservedInv, NEW r \in Receivers, AddDestination(r)
  PROVE  ReservedInv' /\ Simulates
  <1> DEFINE x == receiver[r]
             e == Endpoint(x)
             o == [x EXCEPT !.pc = "up", !.dest_ = e, !.added = e]
  <1>1. Become(r, o) /\ bound' = bound
    BY DEF AddDestination, kernel
  <1>2. /\ x \in Object /\ x.pc = "add" /\ x.sockfd # NoFd
        /\ x.added = Nowhere /\ bound[x.sockfd] # Nowhere
        /\ (x.port < PortLimit => bound[x.sockfd] = e)
    BY DEF AddDestination, IInv, TypeOK, PlaceInv, InPlace, ReservedInv, Reserved,
           EndpointInv, KnowsEndpoint
  <1>3. PICK y : /\ y = o /\ y.pc = "up" /\ y.sockfd = x.sockfd /\ y.added = e
                 /\ y.port = x.port
    <2>1. /\ o.pc = "up" /\ o.sockfd = x.sockfd /\ o.added = e
          /\ o.port = x.port
      BY <1>2 DEF Object
    <2> HIDE DEF o
    <2>2. QED
      BY <2>1
  <1>4. x = receiver[r] /\ Become(r, y)
    BY <1>1, <1>3
  <1> HIDE DEF x, e, o
  <1>5. Reserved(y)'
    BY <1>1, <1>2, <1>3 DEF Reserved
  <1>6. ReservedInv'
    BY <1>1, <1>3, <1>4, <1>5, ReservedOnes
  <1>7. HeldBy(y)' = HeldBy(x) /\ ToldBy(x) = Nowhere /\ HeldBy(x) = bound[x.sockfd]
    BY <1>1, <1>2, <1>3 DEF HeldBy, ToldBy
  <1>8. Held' = Held /\ Told' = [Told EXCEPT ![r] = ToldBy(y)]
    <2>1. Held' = [Held EXCEPT ![r] = HeldBy(y)'] /\ Told' = [Told EXCEPT ![r] = ToldBy(y)]
      BY <1>1, <1>4, OneChanges
    <2>2. Held[r] = HeldBy(x)
      BY <1>4, Mapping
    <2>3. QED
      BY <1>7, <2>1, <2>2, Mapping
  <1>9. Held[r] = bound[x.sockfd] /\ Told[r] = Nowhere
    BY <1>4, <1>7, Mapping
  <1>10. CASE x.port < PortLimit
    <2>1. ToldBy(y) = Held[r]
      BY <1>2, <1>3, <1>9, <1>10 DEF ToldBy
    <2>2. Promise!Tell(r)
      BY <1>2, <1>8, <1>9, <2>1 DEF Promise!Tell
    <2>3. QED
      BY <1>6, <2>2 DEF Simulates, Promise!Next
  <1>11. CASE ~(x.port < PortLimit)
    <2>1. ToldBy(y) = Nowhere
      BY <1>3, <1>11 DEF ToldBy
    <2>2. Told' = Told
      BY <1>8, <1>9, <2>1, Mapping
    <2>3. QED
      BY <1>6, <1>8, <2>2 DEF Simulates, Promise!vars
  <1>12. QED
    BY <1>10, <1>11

LEMMA StepReserves ==
  ASSUME IInv, ReservedInv, [Next]_vars
  PROVE  ReservedInv' /\ Simulates
  <1>1. CASE UNCHANGED vars
    <2>1. ReservedInv'
      BY <1>1 DEF vars, kernel, ReservedInv, Reserved
    <2>2. Held' = Held /\ Told' = Told
      BY <1>1 DEF vars, kernel, Held, Told, Used
    <2>3. QED
      BY <2>1, <2>2 DEF Simulates, Promise!vars
  <1>2. ASSUME NEW r \in Receivers, Step(r)
        PROVE  ReservedInv' /\ Simulates
    <2> DEFINE Post == ReservedInv' /\ Simulates
    <2>1. Nobody.sockfd = NoFd /\ Nobody.added = Nowhere
      BY DEF Nobody
    <2>2. receiver[r].pc = "none" => receiver[r].sockfd = NoFd
                                       /\ receiver[r].added = Nowhere
      BY DEF IInv, PlaceInv, InPlace, ReservedInv, Reserved
    <2>3. ASSUME NEW name, NEW p, CreateReceiverForStream(r, name, p)
          PROVE  Post
      <3> DEFINE o == [Nobody EXCEPT !.pc = "scan", !.tracked = TRUE,
                                     !.name = name, !.port = p]
      <3>1. Become(r, o) /\ bound' = bound /\ receiver[r].pc = "none"
        BY <2>3 DEF CreateReceiverForStream, kernel
      <3>2. o.pc = "scan" /\ o.sockfd = NoFd /\ o.added = Nowhere
        BY DEF Nobody
      <3> HIDE DEF o
      <3>3. QED
        BY <2>2, <3>1, <3>2, SearchUnreserved
    <2>4. ASSUME NEW ip, NEW p, Create(r, ip, p)
          PROVE  Post
      <3> DEFINE o == [Nobody EXCEPT !.pc = "socket", !.address_buffer = ip,
                                     !.port = p]
      <3>1. Become(r, o) /\ bound' = bound /\ receiver[r].pc = "none"
        BY <2>4 DEF Create, kernel
      <3>2. o.pc = "socket" /\ o.sockfd = NoFd /\ o.added = Nowhere
        BY DEF Nobody
      <3> HIDE DEF o
      <3>3. QED
        BY <2>2, <3>1, <3>2, SearchUnreserved
    <2>5. CASE ScanInterface(r)
      <3> DEFINE x == receiver[r]
                 i == interfaces[x.ifa]
                 found == Suitable(i, x.name)
                 address == IF i.family = "AF_INET" THEN i.addr ELSE x.address_buffer
                 place == IF found THEN "socket" ELSE "scan"
                 next == IF found THEN x.ifa ELSE x.ifa + 1
                 o == [x EXCEPT !.address_buffer = address, !.pc = place,
                                !.ifa = next]
      <3>1. Become(r, o) /\ bound' = bound /\ x.pc = "scan"
        BY <2>5 DEF ScanInterface, kernel
      <3>2. x \in Object /\ place \in {"scan", "socket"} /\ x = receiver[r]
        BY DEF IInv, TypeOK
      <3> HIDE DEF x, address, place, next
      <3>3. o.pc = place /\ o.sockfd = x.sockfd /\ o.added = x.added
        BY <3>2 DEF Object
      <3> HIDE DEF o
      <3>4. QED
        BY <3>1, <3>2, <3>3, SearchUnreserved
    <2>6. CASE NoAddress(r) \/ NoSocket(r) \/ BindFails(r)
      BY <2>6, EndsUnreserved DEF NoAddress, NoSocket, BindFails, kernel
    <2>7. CASE GetSockNameFails(r) \/ Destroy(r)
      BY <2>7, CloseReleases DEF GetSockNameFails, Destroy
    <2>8. QED
      BY <1>2, <2>3, <2>4, <2>5, <2>6, <2>7, OpenSocketReserves, BindReserves,
         GetSockNameReserves, AddDestinationTells
      DEF Step
  <1>3. QED
    BY <1>1, <1>2 DEF Next

LEMMA NothingReservedYet == Init => ReservedInv /\ Promise!Init
  <1> SUFFICES ASSUME Init PROVE ReservedInv /\ Promise!Init
    OBVIOUS
  <1>1. /\ Nobody.pc = "none" /\ Nobody.sockfd = NoFd /\ Nobody.added = Nowhere
    BY DEF Nobody
  <1>2. ReservedInv
    BY <1>1 DEF Init, ReservedInv, Reserved
  <1>3. \A r \in Receivers :
          HeldBy(receiver[r]) = Nowhere /\ ToldBy(receiver[r]) = Nowhere
    BY <1>1 DEF Init, HeldBy, ToldBy
  <1>4. QED
    BY <1>2, <1>3, Mapping DEF Promise!Init

\* In Reservation nothing is told of a place that is not held, and no place is
\* held by two.
LEMMA ToldOnceStays == Promise!ToldOnce /\ Simulates => Promise!ToldOnce'
  <1> SUFFICES ASSUME Promise!ToldOnce, Simulates PROVE Promise!ToldOnce'
    OBVIOUS
  <1>1. CASE UNCHANGED <<Held, Told>>
    BY <1>1 DEF Promise!ToldOnce
  <1>2. ASSUME NEW r \in Receivers, Promise!Take(r)
        PROVE  Promise!ToldOnce'
    <2>1. /\ Held[r] = Nowhere /\ Told' = Told
          /\ Held' = [Held EXCEPT ![r] = Held'[r]]
          /\ \A s \in Receivers : Held[s] # Held'[r]
      BY <1>2 DEF Promise!Take
    <2>2. \A s \in Receivers : s # r => Held'[s] = Held[s]
      BY <2>1, Mapping
    <2>3. QED
      BY <2>1, <2>2 DEF Promise!ToldOnce
  <1>3. ASSUME NEW r \in Receivers, Promise!Tell(r)
        PROVE  Promise!ToldOnce'
    <2>1. Held' = Held /\ Told' = [Told EXCEPT ![r] = Held[r]]
      BY <1>3 DEF Promise!Tell
    <2>2. \A s \in Receivers : Told'[s] = IF s = r THEN Held[r] ELSE Told[s]
      BY <2>1, Mapping
    <2>3. QED
      BY <2>1, <2>2 DEF Promise!ToldOnce
  <1>4. ASSUME NEW r \in Receivers, Promise!Release(r)
        PROVE  Promise!ToldOnce'
    <2>1. \A s \in Receivers : /\ Held'[s] = IF s = r THEN Nowhere ELSE Held[s]
                               /\ Told'[s] = IF s = r THEN Nowhere ELSE Told[s]
      BY <1>4, Mapping DEF Promise!Release
    <2>2. QED
      BY <2>1 DEF Promise!ToldOnce
  <1>5. QED
    BY <1>1, <1>2, <1>3, <1>4 DEF Simulates, Promise!Next, Promise!vars

\* Between bind() and close() every socket has a holder, and before and after
\* that none is bound and nothing told (data_receiver.h:220-290).
THEOREM SocketsReserved == Spec => []ReservedInv
  <1>1. Init => ReservedInv
    BY NothingReservedYet
  <1>2. IInv /\ ReservedInv /\ [Next]_vars => ReservedInv'
    BY StepReserves
  <1>3. QED
    BY <1>1, <1>2, Invariance, PTL DEF Spec

\* However threads create and destroy receivers, and whatever fails on the way,
\* each has its endpoint for itself from bind() to close(), and the sensor is
\* told of that one only: what RemoteInterface takes for granted of a receiver.
THEOREM ReservesEndpoints == Spec => ImplementsReservation /\ []Promise!ToldOnce
  <1>1. Init => Promise!Init
    BY NothingReservedYet
  <1>2. Promise!Init => Promise!ToldOnce
    BY DEF Promise!Init, Promise!ToldOnce
  <1>3. IInv /\ ReservedInv /\ [Next]_vars => Simulates
    BY StepReserves
  <1>4. Promise!ToldOnce /\ Simulates => Promise!ToldOnce'
    BY ToldOnceStays
  <1>5. QED
    BY <1>1, <1>2, <1>3, <1>4, Invariance, SocketsReserved, PTL
    DEF Spec, ImplementsReservation, Promise!Spec, Simulates
=============================================================================
