------------------------ MODULE RemoteInterfaceProofs ------------------------
(***************************************************************************)
(* Safety of RemoteInterface for every set of streams and destinations,    *)
(* every firmware version and every combination of faults, and the         *)
(* implementation of Ledger.                                               *)
(***************************************************************************)
EXTENDS RemoteInterface, FiniteSetTheorems, TLAPS

\* The open exchange is the one that the place of the call waits for.
WireInv ==
  /\ wire.phase = "idle" => wire = Quiet
  /\ wire # Quiet =>
       \/ pc \in {"system", "systemInfo"} /\ wire.method = "GET system"
       \/ pc = "datastreams" /\ wire.method = "GET datastreams"
       \/ pc \in {"query", "state"} /\ wire.method = "GET"
       \/ /\ pc = "put" /\ wire.method = "PUT"
          /\ wire.stream = op.stream /\ wire.dests = Support(op.dests)
       \/ pc = "delete" /\ wire.method = "DELETE" /\ wire.stream = op.stream

\* Beyond the check the stream of the call is available.
CheckedInv ==
  pc \in {"body", "query", "put", "recv", "state", "delete"} =>
    initialized_ /\ op.stream \in avail_streams_

\* A destination of the call whose DELETE is done is gone, or was put back by
\* a late PUT, or is named by the request on the wire.
DeleteInv ==
  pc = "delete" =>
    \A d \in destinations[op.stream] :
      op.dests[d] > 0 /\ todo[d] = 0 =>
        \/ d \in orphans[op.stream]
        \/ d \in wire.dests /\ ~(wire.phase = "answered" /\ wire.code = 200)

\* The destructor works on the list itself, which is not empty.
DestructionInv ==
  op.name = "~RemoteInterface" =>
    /\ pc \in {"cleanup", "check", "body", "delete", "exited", "crashed"}
    /\ pc \in {"check", "body", "delete"} =>
         /\ op.stream \in Streams
         /\ op.dests = req_streams_[op.stream]
         /\ Tracked(op.stream) # {}

\* The inductive invariant.
IInv ==
  /\ TypeOK
  /\ WireInv
  /\ CheckedInv
  /\ DeleteInv
  /\ DestructionInv
  /\ TrackedImpliesInitialised
  /\ LeakAccounting

-----------------------------------------------------------------------------
(* Shapes of exchanges, lists and operations. *)

LEMMA ListingType ==
  ASSUME NEW ds
  PROVE  /\ Listing(ds) \in DestList
         /\ ds \subseteq Dests => Support(Listing(ds)) = ds
BY DEF Listing, DestList, Support

LEMMA ShortListType == ShortList \subseteq DestList
BY RemoteInterfaceAssumption DEF ShortList, DestList

LEMMA ExchangeType ==
  /\ Quiet \in Exchange
  /\ \A m \in Methods, s \in Streams \cup {None}, ds \in SUBSET Dests :
       /\ Request(m, s, ds) \in Exchange
       /\ Request(m, s, ds).phase = "sent"
       /\ Request(m, s, ds).method = m
       /\ Request(m, s, ds).stream = s
       /\ Request(m, s, ds).dests = ds
  /\ \A rq \in Exchange, c \in {0, 200, 403, 404, 429, 502}, b \in BOOLEAN :
       /\ Answer(rq, c, b) \in Exchange
       /\ Answer(rq, c, b).phase = "answered"
       /\ Answer(rq, c, b).method = rq.method
       /\ Answer(rq, c, b).stream = rq.stream
       /\ Answer(rq, c, b).dests = rq.dests
       /\ Answer(rq, c, b).code = c
<1>1. Quiet \in Exchange
  BY DEF Quiet, Exchange, Methods
<1>2. ASSUME NEW m \in Methods, NEW s \in Streams \cup {None},
             NEW ds \in SUBSET Dests
      PROVE  /\ Request(m, s, ds) \in Exchange
             /\ Request(m, s, ds).phase = "sent"
             /\ Request(m, s, ds).method = m
             /\ Request(m, s, ds).stream = s
             /\ Request(m, s, ds).dests = ds
  BY DEF Request, Exchange
<1>3. ASSUME NEW rq \in Exchange, NEW c \in {0, 200, 403, 404, 429, 502},
             NEW b \in BOOLEAN
      PROVE  /\ Answer(rq, c, b) \in Exchange
             /\ Answer(rq, c, b).phase = "answered"
             /\ Answer(rq, c, b).method = rq.method
             /\ Answer(rq, c, b).stream = rq.stream
             /\ Answer(rq, c, b).dests = rq.dests
             /\ Answer(rq, c, b).code = c
  BY DEF Answer, Exchange
<1> QED
  BY <1>1, <1>2, <1>3

\* The requests of checkSystemReady() and getDynamicsState().
LEMMA CheckRequest ==
  \A m \in {"GET system", "GET datastreams", "GET"} :
    /\ Request(m, None, {}) \in Exchange
    /\ Request(m, None, {}).phase = "sent"
    /\ Request(m, None, {}).method = m
BY DEF Request, Exchange, Methods

LEMMA NoOpType == NoOp \in Operation /\ NoOp.name = "none"
BY ListingType DEF NoOp, Operation, OpNames

\* However a call ends, what it leaves behind satisfies the parts of the
\* invariant that are about the call.
LEMMA EndOfCall ==
  ASSUME TypeOK, Return \/ Throw \/ NotReady
  PROVE  /\ receivers' \subseteq receivers
         /\ op' \in Operation
         /\ todo' \in DestList
         /\ pc' \in {"idle", "check", "exited"}
         /\ CheckedInv' /\ DeleteInv' /\ DestructionInv'
<1> DEFINE Post ==
      /\ receivers' \subseteq receivers
      /\ op' \in Operation
      /\ todo' \in DestList
      /\ \/ pc' = "idle" /\ op'.name = "none"
         \/ pc' = "check" /\ op'.name = "~TrackedDataReceiver"
         \/ pc' = "exited"
<1>1. Return => Post
  BY NoOpType, ListingType DEF Return
<1>2. Throw => Post
  <2>1. CASE op' = [op EXCEPT !.name = "~TrackedDataReceiver"] /\ pc' = "check"
             /\ UNCHANGED <<receivers, todo>>
    BY <2>1 DEF TypeOK, Operation, OpNames
  <2>2. CASE pc' = "exited" /\ UNCHANGED <<receivers, op, todo>>
    BY <2>2 DEF TypeOK
  <2> QED
    BY <1>1, <2>1, <2>2 DEF Throw
<1>3. Post
  BY <1>1, <1>2 DEF NotReady
<1> QED
  BY <1>3 DEF CheckedInv, DeleteInv, DestructionInv

LEMMA QuietFields ==
  Quiet.phase = "idle" /\ Quiet.method = "GET" /\ Quiet.code = 0
BY DEF Quiet

\* The exchange is over wherever no answer is awaited.
LEMMA QuietPlaces ==
  ASSUME WireInv,
         pc \notin {"system", "systemInfo", "datastreams", "query", "state",
                    "put", "delete"}
  PROVE  wire = Quiet
BY DEF WireInv

LEMMA InitInv == Init => IInv
<1> SUFFICES ASSUME Init PROVE IInv
  OBVIOUS
<1>1. TypeOK
  <2>1. RcVisardTypeOK
    BY ExchangeType DEF Init, RcVisardInit, RcVisardTypeOK
  <2>2. op \in Operation /\ todo \in DestList
        /\ req_streams_ \in [Streams -> DestList]
    BY NoOpType, ListingType DEF Init
  <2> QED
    BY <2>1, <2>2 DEF Init, TypeOK, Places
<1>2. WireInv /\ CheckedInv /\ DeleteInv /\ DestructionInv
  BY NoOpType DEF Init, RcVisardInit, WireInv, CheckedInv, DeleteInv,
                  DestructionInv
<1>3. \A s \in Streams : Tracked(s) = {}
  BY DEF Init, Listing, Tracked, Support
<1>4. TrackedImpliesInitialised /\ LeakAccounting
  BY <1>3 DEF Init, RcVisardInit, TrackedImpliesInitialised, LeakAccounting
<1> QED
  BY <1>1, <1>2, <1>4 DEF IInv

-----------------------------------------------------------------------------
(* Steps that leave the lists, the destinations and the orphans alone. *)

LEMMA LedgerUnchanged ==
  ASSUME IInv, UNCHANGED <<destinations, req_streams_, orphans>>,
         wire' = wire \/ (\A s \in Streams : Acknowledged(s) = {}),
         UNCHANGED <<initialized_, avail_streams_>>
  PROVE  TrackedImpliesInitialised' /\ LeakAccounting'
<1>1. \A s \in Streams : Tracked(s)' = Tracked(s)
  BY DEF Tracked
<1>2. TrackedImpliesInitialised'
  BY <1>1 DEF IInv, TrackedImpliesInitialised
<1>3. \A s \in Streams : Acknowledged(s) \subseteq Acknowledged(s)'
  BY DEF Acknowledged
<1>4. LeakAccounting'
  BY <1>1, <1>3 DEF IInv, LeakAccounting
<1> QED
  BY <1>2, <1>4

\* Outside addDestinationToStream() no PUT is acknowledged.
LEMMA NoneAcknowledged ==
  ASSUME IInv, pc # "put" \/ wire.code # 200 \/ wire.phase # "answered"
  PROVE  \A s \in Streams : Acknowledged(s) = {}
BY QuietFields DEF IInv, WireInv, Acknowledged

LEMMA CallStep ==
  ASSUME IInv, NEW name \in OpNames \ {"~RemoteInterface"},
         NEW s \in Streams \cup {None}, NEW list \in DestList,
         Call(name, s, list)
  PROVE  IInv'
<1>1. op' \in Operation /\ op'.name = name
  BY DEF Call, Operation
<1>2. TypeOK'
  BY <1>1 DEF Call, IInv, TypeOK, RcVisardTypeOK, deviceVars, systemVars, Places
<1>3. wire = Quiet /\ wire' = Quiet
  BY QuietPlaces DEF Call, IInv
<1>4. WireInv' /\ CheckedInv' /\ DeleteInv' /\ DestructionInv'
  BY <1>1, <1>3 DEF Call, WireInv, CheckedInv, DeleteInv, DestructionInv
<1>5. TrackedImpliesInitialised' /\ LeakAccounting'
  BY LedgerUnchanged, <1>3 DEF Call, deviceVars, systemVars
<1> QED
  BY <1>2, <1>4, <1>5 DEF IInv

LEMMA BeginCheckStep ==
  ASSUME IInv, pc \in {"idle", "check"}, NEW o \in Operation,
         o.name # "~RemoteInterface", BeginCheck(o)
  PROVE  IInv'
<1>1. /\ wire' \in Exchange
      /\ wire'.phase = "sent" /\ wire'.method = "GET system"
  BY CheckRequest DEF BeginCheck
<1>2. TypeOK'
  BY <1>1, ListingType DEF BeginCheck, IInv, TypeOK, RcVisardTypeOK, deviceVars,
                           Places
<1>3. WireInv' /\ CheckedInv' /\ DeleteInv' /\ DestructionInv'
  BY <1>1, QuietFields DEF BeginCheck, WireInv, CheckedInv, DeleteInv,
                           DestructionInv
<1>4. \A s \in Streams : Tracked(s)' = {}
  <2>1. req_streams_' = [s \in Streams |-> Listing({})]
    BY DEF BeginCheck
  <2> QED
    BY <2>1, ListingType DEF Tracked
<1>5. TrackedImpliesInitialised'
  BY <1>4 DEF TrackedImpliesInitialised
<1>6. \A s \in Streams : Acknowledged(s) = {}
  BY NoneAcknowledged
<1>7. LeakAccounting'
  BY <1>4, <1>6 DEF BeginCheck, deviceVars, IInv, LeakAccounting
<1> QED
  BY <1>2, <1>3, <1>5, <1>7 DEF IInv

\* A call that ends without having changed a list or what the check has read.
LEMMA EndStep ==
  ASSUME IInv, Return \/ Throw \/ NotReady, wire' = Quiet,
         \A s \in Streams : Acknowledged(s) = {},
         UNCHANGED <<late, deviceVars, systemVars, req_streams_, orphans>>
  PROVE  IInv'
<1>1. /\ receivers' \subseteq receivers
      /\ op' \in Operation /\ todo' \in DestList
      /\ pc' \in {"idle", "check", "exited"}
      /\ CheckedInv' /\ DeleteInv' /\ DestructionInv'
  BY EndOfCall DEF IInv
<1>2. TypeOK'
  <2>1. RcVisardTypeOK'
    BY ExchangeType DEF IInv, TypeOK, RcVisardTypeOK, deviceVars
  <2>2. pc' \in Places
    BY <1>1 DEF Places
  <2> QED
    BY <1>1, <2>1, <2>2 DEF IInv, TypeOK, systemVars
<1>3. WireInv'
  BY DEF WireInv
<1>4. TrackedImpliesInitialised' /\ LeakAccounting'
  BY LedgerUnchanged DEF deviceVars, systemVars
<1> QED
  BY <1>1, <1>2, <1>3, <1>4 DEF IInv

\* A step inside a call that only moves on and sends a request, or nothing.
LEMMA MoveOn ==
  ASSUME IInv, op.name # "~RemoteInterface", wire' \in Exchange,
         WireInv', CheckedInv', pc' \in Places \ {"delete"},
         \A s \in Streams : Acknowledged(s) = {},
         UNCHANGED <<late, deviceVars, systemVars, req_streams_, receivers, op,
                     todo, orphans>>
  PROVE  IInv'
<1>1. TypeOK'
  BY DEF IInv, TypeOK, RcVisardTypeOK, deviceVars, systemVars
<1>2. DeleteInv' /\ DestructionInv'
  BY DEF DeleteInv, DestructionInv
<1>3. TrackedImpliesInitialised' /\ LeakAccounting'
  BY LedgerUnchanged DEF deviceVars, systemVars
<1> QED
  BY <1>1, <1>2, <1>3 DEF IInv

LEMMA HandleSystemStep ==
  ASSUME IInv, HandleSystem
  PROVE  IInv'
<1>1. \A s \in Streams : Acknowledged(s) = {}
  BY NoneAcknowledged DEF HandleSystem, Answered
<1>2. CASE wire' = Quiet /\ (NotReady \/ Throw)
  BY <1>1, <1>2, EndStep DEF HandleSystem
<1>3. CASE wire' = Request("GET system", None, {}) /\ pc' = "systemInfo"
           /\ UNCHANGED <<receivers, op, todo>>
  <2>1. op.name # "~RemoteInterface"
    BY DEF HandleSystem, Answered, IInv, DestructionInv
  <2>2. wire' \in Exchange /\ WireInv' /\ CheckedInv'
    BY <1>3, CheckRequest DEF WireInv, CheckedInv
  <2> QED
    BY <1>1, <1>3, <2>1, <2>2, MoveOn DEF HandleSystem, Places
<1> QED
  BY <1>2, <1>3 DEF HandleSystem

LEMMA HandleSystemInfoStep ==
  ASSUME IInv, HandleSystemInfo
  PROVE  IInv'
<1>1. \A s \in Streams : Acknowledged(s) = {}
  BY NoneAcknowledged DEF HandleSystemInfo, Answered
<1>2. CASE wire' = Quiet /\ (NotReady \/ Throw) /\ UNCHANGED visard_version_
  BY <1>1, <1>2, EndStep DEF HandleSystemInfo, systemVars
<1>3. CASE wire' = Request("GET datastreams", None, {}) /\ pc' = "datastreams"
           /\ visard_version_' = ReadVersion
           /\ UNCHANGED <<receivers, op, todo>>
  <2>1. op.name # "~RemoteInterface"
    BY DEF HandleSystemInfo, Answered, IInv, DestructionInv
  <2>2. wire' \in Exchange /\ WireInv' /\ CheckedInv'
    BY <1>3, CheckRequest DEF WireInv, CheckedInv
  <2>3. TypeOK'
    BY <1>3, <2>2 DEF HandleSystemInfo, IInv, TypeOK, RcVisardTypeOK,
                      deviceVars, Places
  <2>4. DeleteInv' /\ DestructionInv'
    BY <1>3, <2>1 DEF DeleteInv, DestructionInv
  <2>5. TrackedImpliesInitialised' /\ LeakAccounting'
    BY <1>1, LedgerUnchanged DEF HandleSystemInfo, deviceVars
  <2> QED
    BY <2>2, <2>3, <2>4, <2>5 DEF IInv
<1> QED
  BY <1>2, <1>3 DEF HandleSystemInfo

LEMMA HandleDatastreamsStep ==
  ASSUME IInv, HandleDatastreams
  PROVE  IInv'
<1>1. \A s \in Streams : Acknowledged(s) = {}
  BY NoneAcknowledged DEF HandleDatastreams, Answered
<1>2. CASE Throw /\ UNCHANGED <<initialized_, avail_streams_>>
  BY <1>1, <1>2, EndStep DEF HandleDatastreams, systemVars
<1>3. CASE /\ avail_streams_' = Offered /\ initialized_' = TRUE
           /\ \/ Return
              \/ pc' = "check" /\ UNCHANGED <<receivers, op, todo>>
  <2>1. op.name # "~RemoteInterface"
    BY DEF HandleDatastreams, Answered, IInv, DestructionInv
  <2>2. /\ receivers' \subseteq receivers
        /\ op' \in Operation /\ todo' \in DestList
        /\ pc' \in {"idle", "check", "exited"}
        /\ CheckedInv' /\ DeleteInv' /\ DestructionInv'
    <3>1. CASE Return
      BY <3>1, EndOfCall DEF IInv
    <3>2. CASE pc' = "check" /\ UNCHANGED <<receivers, op, todo>>
      BY <3>2, <2>1 DEF IInv, TypeOK, CheckedInv, DeleteInv, DestructionInv
    <3> QED
      BY <1>3, <3>1, <3>2
  <2>3. TypeOK' /\ WireInv'
    <3>1. RcVisardTypeOK' /\ WireInv'
      BY ExchangeType DEF HandleDatastreams, IInv, TypeOK, RcVisardTypeOK,
                          WireInv, deviceVars
    <3>2. pc' \in Places
      BY <2>2 DEF Places
    <3> QED
      BY <1>3, <2>2, <3>1, <3>2 DEF HandleDatastreams, IInv, TypeOK
  <2>4. \A s \in Streams : Tracked(s)' = Tracked(s)
    BY DEF HandleDatastreams, Tracked
  <2>5. TrackedImpliesInitialised'
    BY <1>3, <2>4 DEF IInv, TypeOK, TrackedImpliesInitialised
  <2>6. LeakAccounting'
    BY <1>1, <2>4 DEF HandleDatastreams, deviceVars, IInv, LeakAccounting
  <2> QED
    BY <2>2, <2>3, <2>5, <2>6 DEF IInv
<1> QED
  BY <1>2, <1>3 DEF HandleDatastreams

LEMMA CheckStreamTypeAvailableStep ==
  ASSUME IInv, CheckStreamTypeAvailable
  PROVE  IInv'
<1>1. wire = Quiet /\ (\A s \in Streams : Acknowledged(s) = {})
  BY QuietPlaces, NoneAcknowledged DEF CheckStreamTypeAvailable, IInv
<1>2. op.name = "~RemoteInterface" => initialized_
  BY DEF CheckStreamTypeAvailable, IInv, DestructionInv,
         TrackedImpliesInitialised
<1>3. CASE ~initialized_ /\ BeginCheck(op)
  BY <1>2, <1>3, BeginCheckStep DEF CheckStreamTypeAvailable, IInv, TypeOK
<1>4. CASE /\ Return \/ Throw
           /\ UNCHANGED <<wire, late, deviceVars, systemVars, req_streams_,
                          orphans>>
  BY <1>1, <1>4, EndStep
<1>5. CASE /\ initialized_ /\ op.stream \in avail_streams_ /\ pc' = "body"
           /\ UNCHANGED <<receivers, op, todo, wire, late, deviceVars,
                          systemVars, req_streams_, orphans>>
  <2>1. TypeOK' /\ WireInv' /\ CheckedInv' /\ DeleteInv'
    BY <1>1, <1>5 DEF IInv, TypeOK, RcVisardTypeOK, deviceVars, systemVars,
                      Places, WireInv, CheckedInv, DeleteInv
  <2>2. DestructionInv'
    BY <1>5 DEF CheckStreamTypeAvailable, IInv, DestructionInv, Tracked
  <2>3. TrackedImpliesInitialised' /\ LeakAccounting'
    BY <1>5, LedgerUnchanged DEF deviceVars, systemVars
  <2> QED
    BY <2>1, <2>2, <2>3 DEF IInv
<1> QED
  BY <1>3, <1>4, <1>5 DEF CheckStreamTypeAvailable

\* Beyond the check the call has one of the streams of the interface.
LEMMA StreamOfCall ==
  ASSUME IInv,
         pc \in {"body", "query", "put", "recv", "state", "delete"}
  PROVE  op.stream \in Streams
BY RcVisardAssumption DEF IInv, TypeOK, CheckedInv

\* The exchange of a call in its body, or waiting for a datagram, is over.
LEMMA QuietBody ==
  ASSUME IInv, pc \in {"body", "recv"}
  PROVE  wire = Quiet /\ (\A s \in Streams : Acknowledged(s) = {})
BY QuietPlaces, NoneAcknowledged DEF IInv

LEMMA LookUpTypeStep ==
  ASSUME IInv, LookUpType
  PROVE  IInv'
BY QuietBody, EndStep DEF LookUpType

LEMMA SendQueryStep ==
  ASSUME IInv, SendQuery
  PROVE  IInv'
<1>1. op.stream \in Streams
  BY StreamOfCall DEF SendQuery
<1>2. wire' \in Exchange /\ wire'.method = "GET" /\ wire'.phase = "sent"
  BY <1>1 DEF SendQuery, Request, Exchange, Methods
<1>3. WireInv' /\ CheckedInv'
  BY <1>2 DEF SendQuery, WireInv, IInv, CheckedInv, systemVars
<1> QED
  BY <1>2, <1>3, QuietBody, MoveOn DEF SendQuery, Places

LEMMA HandleQueryStep ==
  ASSUME IInv, HandleQuery
  PROVE  IInv'
<1>1. \A s \in Streams : Acknowledged(s) = {}
  BY NoneAcknowledged DEF HandleQuery, Answered
<1> QED
  BY <1>1, EndStep DEF HandleQuery

LEMMA SendPutWire ==
  ASSUME IInv, pc = "body", NEW ds \in SUBSET Dests, SendPut(ds)
  PROVE  /\ wire' \in Exchange /\ wire'.phase = "sent"
         /\ wire'.method = "PUT" /\ wire'.stream = op.stream
         /\ wire'.dests = ds
BY StreamOfCall DEF SendPut, Request, Exchange, Methods

LEMMA AddDestinationToStreamStep ==
  ASSUME IInv, AddDestinationToStream
  PROVE  IInv'
<1>1. Support(op.dests) \in SUBSET Dests
  BY DEF Support
<1>2. /\ wire' \in Exchange /\ wire'.phase = "sent"
      /\ wire'.method = "PUT" /\ wire'.stream = op.stream
      /\ wire'.dests = Support(op.dests)
  BY <1>1, SendPutWire DEF AddDestinationToStream
<1>3. op' = op /\ pc' = "put" /\ UNCHANGED systemVars
  BY DEF AddDestinationToStream, SendPut
<1>4. WireInv' /\ CheckedInv'
  BY <1>2, <1>3 DEF AddDestinationToStream, WireInv, IInv, CheckedInv,
                    systemVars, Support
<1> QED
  BY <1>2, <1>4, QuietBody, MoveOn DEF AddDestinationToStream, SendPut, Places

LEMMA BindReceiverStep ==
  ASSUME IInv, NEW d \in Ports, BindReceiver(d)
  PROVE  IInv'
<1>1. d \in Dests /\ {d} \in SUBSET Dests
  BY RemoteInterfaceAssumption
<1>2. /\ wire' \in Exchange /\ wire'.phase = "sent"
      /\ wire'.method = "PUT" /\ wire'.stream = op.stream
      /\ wire'.dests = {d}
  BY <1>1, SendPutWire DEF BindReceiver
<1>3. /\ op' \in Operation /\ op'.stream = op.stream /\ op'.name = op.name
      /\ op'.dests = Listing({d})
  BY ListingType DEF BindReceiver, IInv, TypeOK, Operation
<1>4. pc' = "put"
      /\ UNCHANGED <<late, deviceVars, systemVars, req_streams_, todo, orphans>>
  BY DEF BindReceiver, SendPut
<1>5. receivers' \subseteq Receiver
  BY StreamOfCall DEF BindReceiver, Receiver, IInv, TypeOK
<1>6. TypeOK'
  BY <1>2, <1>3, <1>4, <1>5
  DEF IInv, TypeOK, RcVisardTypeOK, deviceVars, systemVars, Places
<1>7. Support(op'.dests) = {d}
  BY <1>1, <1>3, ListingType
<1>8. WireInv' /\ CheckedInv' /\ DeleteInv' /\ DestructionInv'
  BY <1>2, <1>3, <1>4, <1>7
  DEF BindReceiver, IInv, WireInv, CheckedInv, DeleteInv, DestructionInv,
      systemVars, Support
<1>9. TrackedImpliesInitialised' /\ LeakAccounting'
  BY <1>4, QuietBody, LedgerUnchanged DEF BindReceiver, deviceVars, systemVars
<1> QED
  BY <1>6, <1>8, <1>9 DEF IInv

LEMMA HandlePutStep ==
  ASSUME IInv, HandlePut
  PROVE  IInv'
<1>1. CASE wire.code # 200
  BY <1>1, NoneAcknowledged, EndStep DEF HandlePut
<1>2. CASE wire.code = 200
  <2>1. op.stream \in Streams
    BY StreamOfCall DEF HandlePut, Answered
  <2>2. wire.method = "PUT" /\ wire.stream = op.stream
        /\ wire.dests = Support(op.dests)
    BY QuietFields DEF HandlePut, Answered, IInv, WireInv
  <2>3. /\ req_streams_' = [req_streams_ EXCEPT ![op.stream] =
                              [d \in Dests |-> @[d] + op.dests[d]]]
        /\ orphans' = [orphans EXCEPT ![op.stream] = @ \ Support(op.dests)]
        /\ wire' = Quiet
        /\ UNCHANGED <<late, deviceVars, systemVars>>
    BY <1>2, ZenonT(30) DEF HandlePut
  <2>4. Return \/ (pc' = "recv" /\ UNCHANGED <<receivers, op, todo>>)
    BY <1>2 DEF HandlePut
  <2>5. /\ receivers' \subseteq receivers
        /\ op' \in Operation /\ todo' \in DestList /\ pc' \in Places
        /\ CheckedInv' /\ DeleteInv' /\ DestructionInv'
    <3>1. CASE Return
      BY <3>1, EndOfCall DEF IInv, Places
    <3>2. CASE pc' = "recv" /\ UNCHANGED <<receivers, op, todo>>
      BY <2>3, <3>2 DEF HandlePut, Answered, IInv, TypeOK, Places, systemVars,
                        CheckedInv, DeleteInv, DestructionInv
    <3> QED
      BY <2>4, <3>1, <3>2
  <2>6. req_streams_' \in [Streams -> DestList]
        /\ orphans' \in [Streams -> SUBSET Dests]
    BY <2>1, <2>3 DEF IInv, TypeOK, Operation, DestList
  <2>7. TypeOK' /\ WireInv'
    <3>1. RcVisardTypeOK' /\ WireInv'
      BY <2>3, ExchangeType DEF IInv, TypeOK, RcVisardTypeOK, WireInv, deviceVars
    <3> QED
      BY <2>3, <2>5, <2>6, <3>1 DEF IInv, TypeOK, systemVars
  <2>8. \A s \in Streams :
          Tracked(s)' = IF s = op.stream
                        THEN Tracked(s) \cup Support(op.dests) ELSE Tracked(s)
    BY <2>1, <2>3 DEF IInv, TypeOK, Operation, DestList, Tracked, Support
  <2>9. TrackedImpliesInitialised'
    BY <2>3, <2>8 DEF HandlePut, Answered, IInv, TrackedImpliesInitialised,
                      CheckedInv, systemVars
  <2>10. LeakAccounting'
    BY <2>1, <2>2, <2>3, <2>8
    DEF IInv, TypeOK, LeakAccounting, Acknowledged, deviceVars
  <2> QED
    BY <2>5, <2>7, <2>9, <2>10 DEF IInv
<1> QED
  BY <1>1, <1>2

LEMMA BeginDeleteStep ==
  ASSUME IInv, BeginDelete
  PROVE  IInv'
<1>1. todo' = op.dests /\ pc' = "delete" /\ wire = Quiet /\ wire' = wire
      /\ UNCHANGED <<late, deviceVars, systemVars, req_streams_, receivers, op,
                     orphans>>
  BY QuietBody DEF BeginDelete
<1>2. TypeOK' /\ WireInv'
  BY <1>1 DEF IInv, TypeOK, RcVisardTypeOK, Operation, deviceVars, systemVars,
              Places, WireInv
<1>3. CheckedInv' /\ DestructionInv'
  BY <1>1 DEF BeginDelete, IInv, CheckedInv, DestructionInv, systemVars, Tracked
<1>4. DeleteInv'
  BY <1>1, RcVisardAssumption, StreamOfCall
  DEF BeginDelete, IInv, TypeOK, RcVisardTypeOK, DeleteInv, deviceVars
<1>5. TrackedImpliesInitialised' /\ LeakAccounting'
  BY <1>1, LedgerUnchanged DEF deviceVars, systemVars
<1> QED
  BY <1>2, <1>3, <1>4, <1>5 DEF IInv

LEMMA SendDeleteStep ==
  ASSUME IInv, SendDelete
  PROVE  IInv'
<1>1. /\ pc = "delete" /\ pc' = pc /\ wire = Quiet
      /\ UNCHANGED <<late, deviceVars, systemVars, req_streams_, receivers, op,
                     orphans>>
  BY DEF SendDelete
<1>2. op.stream \in Streams
  BY <1>1, StreamOfCall
<1>3. PICK ds \in SUBSET Dests :
        /\ wire' = Request("DELETE", op.stream, ds)
        /\ todo' \in DestList
        /\ \A d \in Dests : todo'[d] = 0 => todo[d] = 0 \/ d \in ds
  <2>1. CASE wire' = Request("DELETE", op.stream, Support(todo))
             /\ todo' = Listing({})
    <3>1. Support(todo) \in SUBSET Dests
          /\ (\A d \in Dests : todo[d] = 0 \/ d \in Support(todo))
      BY DEF IInv, TypeOK, DestList, Support
    <3> QED
      BY <2>1, <3>1, ListingType
  <2>2. ASSUME NEW d \in Support(todo),
               wire' = Request("DELETE", op.stream, {d}),
               todo' = [todo EXCEPT ![d] = @ - 1]
        PROVE  /\ {d} \in SUBSET Dests
               /\ todo' \in DestList
               /\ \A e \in Dests : todo'[e] = 0 => todo[e] = 0 \/ e \in {d}
    BY <2>2 DEF IInv, TypeOK, DestList, Support
  <2> QED
    BY <2>1, <2>2 DEF SendDelete
<1>4. /\ wire' \in Exchange /\ wire'.phase = "sent" /\ wire'.method = "DELETE"
      /\ wire'.stream = op.stream /\ wire'.dests = ds
  BY <1>2, <1>3 DEF Request, Exchange, Methods
<1>5. TypeOK' /\ WireInv'
  BY <1>1, <1>3, <1>4 DEF IInv, TypeOK, RcVisardTypeOK, deviceVars, systemVars,
                          WireInv
<1>6. CheckedInv' /\ DestructionInv'
  BY <1>1 DEF IInv, CheckedInv, DestructionInv, systemVars, Tracked
<1>7. DeleteInv'
  BY <1>1, <1>2, <1>3, <1>4
  DEF IInv, TypeOK, RcVisardTypeOK, DeleteInv, deviceVars, Quiet
<1>8. TrackedImpliesInitialised' /\ LeakAccounting'
  BY <1>1, NoneAcknowledged, LedgerUnchanged DEF deviceVars, systemVars
<1> QED
  BY <1>5, <1>6, <1>7, <1>8 DEF IInv

LEMMA NothingToDeleteStep ==
  ASSUME IInv, NothingToDelete
  PROVE  IInv'
<1>1. wire' = Quiet /\ (\A s \in Streams : Acknowledged(s) = {})
  BY NoneAcknowledged DEF NothingToDelete
<1> QED
  BY <1>1, EndStep DEF NothingToDelete

\* When the last DELETE of a call is acknowledged, what the sensor still serves
\* of the destinations of the call is an orphan.
LEMMA AllDeleted ==
  ASSUME IInv, pc = "delete", wire.phase = "answered", wire.code = 200,
         todo = Listing({})
  PROVE  Support(op.dests) \cap destinations[op.stream]
           \subseteq orphans[op.stream]
<1>1. \A d \in Dests : todo[d] = 0
  BY DEF Listing
<1> QED
  BY <1>1 DEF IInv, DeleteInv, Support

\* Erasing acknowledged entries from the list of the call's stream.
LEMMA EraseStep ==
  ASSUME IInv, pc = "delete", wire' = Quiet,
         NEW gone \in SUBSET Dests,
         gone \cap destinations[op.stream] \subseteq orphans[op.stream],
         \A s \in Streams : Tracked(s) \ Tracked(s)' \subseteq
                              (IF s = op.stream THEN gone ELSE {}),
         \A s \in Streams : Tracked(s)' \subseteq Tracked(s),
         UNCHANGED <<deviceVars, systemVars, orphans>>
  PROVE  TrackedImpliesInitialised' /\ LeakAccounting'
<1>1. \A s \in Streams : Acknowledged(s) = {}
  BY NoneAcknowledged
<1>2. TrackedImpliesInitialised'
  BY DEF IInv, TrackedImpliesInitialised, systemVars
<1>3. LeakAccounting'
  BY <1>1 DEF IInv, LeakAccounting, deviceVars
<1> QED
  BY <1>2, <1>3

\* Erasing some of the entries of one stream's list touches no other entry.
LEMMA ErasureShrinks ==
  ASSUME IInv, op.stream \in Streams, NEW gone \in DestList,
         \A d \in Dests : gone[d] <= req_streams_[op.stream][d],
         req_streams_' = [req_streams_ EXCEPT ![op.stream] = EraseEach(@, gone)]
  PROVE  /\ req_streams_' \in [Streams -> DestList]
         /\ \A s \in Streams :
              /\ Tracked(s)' \subseteq Tracked(s)
              /\ Tracked(s) \ Tracked(s)' \subseteq
                   (IF s = op.stream THEN Support(req_streams_[op.stream])
                    ELSE {})
BY DEF IInv, TypeOK, DestList, EraseEach, Tracked, Support

LEMMA HandleDeleteStep ==
  ASSUME IInv, HandleDelete
  PROVE  IInv'
<1>1. /\ pc = "delete" /\ wire.phase = "answered" /\ wire' = Quiet
      /\ UNCHANGED <<late, deviceVars, systemVars, orphans>>
  BY DEF HandleDelete, Answered
<1>2. op.stream \in Streams /\ (\A s \in Streams : Acknowledged(s) = {})
  BY <1>1, StreamOfCall, NoneAcknowledged
<1>3. CASE wire.code = 200 /\ UNCHANGED <<req_streams_, receivers, op, todo, pc>>
  <2>1. TypeOK' /\ WireInv'
    BY <1>1, <1>3, ExchangeType DEF IInv, TypeOK, RcVisardTypeOK, deviceVars,
                                    systemVars, WireInv
  <2>2. CheckedInv' /\ DestructionInv'
    BY <1>1, <1>3 DEF IInv, CheckedInv, DestructionInv, systemVars, Tracked
  <2>3. DeleteInv'
    BY <1>1, <1>3 DEF IInv, DeleteInv, deviceVars
  <2>4. TrackedImpliesInitialised' /\ LeakAccounting'
    BY <1>1, <1>2, <1>3, LedgerUnchanged DEF deviceVars, systemVars
  <2> QED
    BY <2>1, <2>2, <2>3, <2>4 DEF IInv
<1>4. CASE /\ wire.code = 200 /\ todo = Listing({}) /\ Return
           /\ req_streams_' = [req_streams_ EXCEPT ![op.stream] =
                                 EraseEach(@, op.dests)]
  <2>1. /\ receivers' \subseteq receivers
        /\ op' \in Operation /\ todo' \in DestList
        /\ pc' \in {"idle", "check", "exited"}
        /\ CheckedInv' /\ DeleteInv' /\ DestructionInv'
    BY <1>4, EndOfCall DEF IInv
  <2>2. req_streams_' \in [Streams -> DestList]
    BY <1>2, <1>4 DEF IInv, TypeOK, Operation, DestList, EraseEach
  <2>3. TypeOK' /\ WireInv'
    <3>1. RcVisardTypeOK' /\ WireInv'
      BY <1>1, ExchangeType DEF IInv, TypeOK, RcVisardTypeOK, WireInv, deviceVars
    <3>2. pc' \in Places
      BY <2>1 DEF Places
    <3> QED
      BY <1>1, <2>1, <2>2, <3>1, <3>2 DEF IInv, TypeOK, systemVars
  <2>4. \A s \in Streams :
          /\ Tracked(s)' \subseteq Tracked(s)
          /\ Tracked(s) \ Tracked(s)' \subseteq
               (IF s = op.stream THEN Support(op.dests) ELSE {})
    BY <1>2, <1>4 DEF IInv, TypeOK, Operation, DestList, EraseEach, Tracked,
                      Support
  <2>5. Support(op.dests) \in SUBSET Dests
    BY DEF Support
  <2>6. TrackedImpliesInitialised' /\ LeakAccounting'
    BY <1>1, <1>4, <2>4, <2>5, AllDeleted, EraseStep
  <2> QED
    BY <2>1, <2>3, <2>6 DEF IInv
<1>5. CASE Throw /\ UNCHANGED req_streams_
  BY <1>1, <1>2, <1>5, EndStep
<1> QED
  BY <1>3, <1>4, <1>5 DEF HandleDelete

LEMMA EraseWhileIteratingStep ==
  ASSUME IInv, EraseWhileIterating
  PROVE  IInv'
<1>1. /\ pc = "delete" /\ wire.phase = "answered" /\ wire' = Quiet
      /\ wire.code = 200 /\ todo = Listing({}) /\ op.name = "~RemoteInterface"
      /\ UNCHANGED <<late, deviceVars, systemVars, receivers, op, todo, orphans>>
  BY DEF EraseWhileIterating, Answered
<1>2. op.stream \in Streams /\ op.dests = req_streams_[op.stream]
  BY <1>1 DEF IInv, DestructionInv
<1> DEFINE Post ==
      /\ pc' \in {"cleanup", "crashed"}
      /\ req_streams_' \in [Streams -> DestList]
      /\ \A s \in Streams :
           /\ Tracked(s)' \subseteq Tracked(s)
           /\ Tracked(s) \ Tracked(s)' \subseteq
                (IF s = op.stream THEN Support(op.dests) ELSE {})
<1>3. Post
  <2>1. CASE pc' = "crashed" /\ UNCHANGED req_streams_
    BY <2>1 DEF IInv, TypeOK, Tracked
  <2>2. ASSUME pc' = "cleanup", NEW gone \in ShortList,
               \A d \in Dests : gone[d] <= req_streams_[op.stream][d],
               req_streams_' = [req_streams_ EXCEPT ![op.stream] =
                                  EraseEach(@, gone)]
        PROVE  Post
    <3>1. gone \in DestList
      BY <2>2, ShortListType
    <3> QED
      BY <1>2, <2>2, <3>1, ErasureShrinks
  <2> QED
    BY <2>1, <2>2 DEF EraseWhileIterating
<1>4. TypeOK' /\ WireInv'
  <2>1. RcVisardTypeOK' /\ WireInv'
    BY <1>1, ExchangeType DEF IInv, TypeOK, RcVisardTypeOK, WireInv, deviceVars
  <2> QED
    BY <1>1, <1>3, <2>1 DEF IInv, TypeOK, systemVars, Places
<1>5. CheckedInv' /\ DeleteInv' /\ DestructionInv'
  BY <1>1, <1>3 DEF CheckedInv, DeleteInv, DestructionInv
<1>6. Support(op.dests) \in SUBSET Dests
  BY DEF Support
<1>7. TrackedImpliesInitialised' /\ LeakAccounting'
  BY <1>1, <1>3, <1>6, AllDeleted, EraseStep
<1> QED
  BY <1>4, <1>5, <1>7 DEF IInv

LEMMA ReceiveStep ==
  ASSUME IInv,
         \/ NoReceiver \/ ReceiveFirstMessage \/ ReceiveFails
         \/ ReceiveTimesOut \/ HandleState
  PROVE  IInv'
<1>1. CASE NoReceiver \/ ReceiveFirstMessage \/ ReceiveFails
  BY <1>1, QuietBody, EndStep DEF NoReceiver, ReceiveFirstMessage, ReceiveFails
<1>2. CASE HandleState
  BY <1>2, NoneAcknowledged, EndStep DEF HandleState, Answered
<1>3. CASE ReceiveTimesOut
  <2>1. wire' \in Exchange /\ wire'.phase = "sent" /\ wire'.method = "GET"
    BY <1>3, CheckRequest DEF ReceiveTimesOut
  <2>2. WireInv' /\ CheckedInv'
    BY <1>3, <2>1 DEF ReceiveTimesOut, WireInv, IInv, CheckedInv, systemVars
  <2>3. op.name # "~RemoteInterface"
    BY <1>3 DEF ReceiveTimesOut, IInv, DestructionInv
  <2> QED
    BY <1>3, <2>1, <2>2, <2>3, QuietBody, MoveOn DEF ReceiveTimesOut, Places
<1> QED
  BY <1>1, <1>2, <1>3

LEMMA DestructionStep ==
  ASSUME IInv,
         \/ BeginDestruction \/ ExitWithReceivers \/ CleanUpDone
         \/ \E s \in Streams : CleanUpStream(s)
  PROVE  IInv'
<1>1. /\ wire' = wire /\ pc' \in {"cleanup", "exited", "check"}
      /\ UNCHANGED <<late, deviceVars, systemVars, req_streams_, receivers,
                     todo, orphans>>
  BY DEF BeginDestruction, ExitWithReceivers, CleanUpDone, CleanUpStream
<1>2. wire = Quiet
  BY QuietPlaces
  DEF BeginDestruction, ExitWithReceivers, CleanUpDone, CleanUpStream, IInv
<1>3. op' \in Operation /\ DestructionInv'
  <2>1. CASE BeginDestruction
    BY <2>1, ListingType
    DEF BeginDestruction, NoOp, Operation, OpNames, DestructionInv
  <2>2. CASE ExitWithReceivers \/ CleanUpDone
    BY <2>2 DEF ExitWithReceivers, CleanUpDone, IInv, TypeOK, DestructionInv
  <2>3. ASSUME NEW s \in Streams, CleanUpStream(s)
        PROVE  op' \in Operation /\ DestructionInv'
    <3>1. op' = [op EXCEPT !.stream = s, !.dests = req_streams_[s],
                           !.left = @ \ {s}]
          /\ pc' = "check" /\ Tracked(s) # {} /\ req_streams_' = req_streams_
      BY <2>3 DEF CleanUpStream
    <3>2. /\ op' \in Operation /\ op'.stream = s /\ op'.dests = req_streams_[s]
      BY <3>1 DEF IInv, TypeOK, Operation
    <3> QED
      BY <3>1, <3>2 DEF DestructionInv, Tracked
  <2> QED
    BY <2>1, <2>2, <2>3
<1>4. TypeOK'
  BY <1>1, <1>3 DEF IInv, TypeOK, RcVisardTypeOK, deviceVars, systemVars, Places
<1>5. WireInv' /\ CheckedInv' /\ DeleteInv'
  BY <1>1, <1>2 DEF WireInv, CheckedInv, DeleteInv
<1>6. TrackedImpliesInitialised' /\ LeakAccounting'
  BY <1>1, LedgerUnchanged DEF deviceVars, systemVars
<1> QED
  BY <1>3, <1>4, <1>5, <1>6 DEF IInv

LEMMA CallApiStep ==
  ASSUME IInv, CallApi
  PROVE  IInv'
<1>1. CASE CallCheckSystemReady
  <2>1. [NoOp EXCEPT !.name = "checkSystemReady"] \in Operation
        /\ [NoOp EXCEPT !.name = "checkSystemReady"].name = "checkSystemReady"
    BY ListingType DEF NoOp, Operation, OpNames
  <2> QED
    BY <1>1, <2>1, BeginCheckStep DEF CallCheckSystemReady
<1>2. CASE CallGetAvailableStreams
  BY <1>2, CallStep, ListingType DEF CallGetAvailableStreams, OpNames
<1>3. ASSUME NEW s \in Streams,
             CallGetPbMsgTypeOfStream(s) \/ CallGetDestinationsOfStream(s)
               \/ CallCreateReceiverForStream(s)
      PROVE  IInv'
  BY <1>3, CallStep, ListingType
  DEF CallGetPbMsgTypeOfStream, CallGetDestinationsOfStream,
      CallCreateReceiverForStream, OpNames
<1>4. ASSUME NEW s \in Streams, NEW d \in UserDests,
             CallAddDestinationToStream(s, d)
               \/ CallDeleteDestinationFromStream(s, d)
      PROVE  IInv'
  BY <1>4, CallStep, ListingType
  DEF CallAddDestinationToStream, CallDeleteDestinationFromStream, OpNames
<1>5. ASSUME NEW s \in Streams, NEW list \in ShortList,
             CallDeleteDestinationsFromStream(s, list)
      PROVE  IInv'
  <2>1. list \in DestList
    BY ShortListType
  <2> QED
    BY <1>5, <2>1, CallStep DEF CallDeleteDestinationsFromStream, OpNames
<1>6. ASSUME NEW r \in receivers, DropReceiver(r)
      PROVE  IInv'
  <2>1. r.stream \in Streams
    BY DEF IInv, TypeOK, Receiver
  <2> QED
    BY <1>6, <2>1, CallStep, ListingType DEF DropReceiver, OpNames
<1>7. CASE BeginDestruction \/ ExitWithReceivers
  BY <1>7, DestructionStep
<1> QED
  BY <1>1, <1>2, <1>3, <1>4, <1>5, <1>6, <1>7 DEF CallApi

-----------------------------------------------------------------------------
(* Steps of the sensor and of the network. *)

\* Neither touches the state of the program.
LEMMA ProgramUnchanged ==
  ASSUME IInv, UNCHANGED <<systemVars, req_streams_, receivers, callVars>>,
         wire' \in Exchange, late' \subseteq Exchange,
         wire'.method = wire.method, wire'.stream = wire.stream,
         wire'.dests = wire.dests,
         (wire' = wire) \/ (wire'.phase = "answered" /\ wire # Quiet),
         power' \in {"down", "booting", "ready"}, foreign' \in Nat,
         destinations' \in [Streams -> SUBSET Dests],
         orphans' \in [Streams -> SUBSET Dests]
  PROVE  /\ TypeOK' /\ WireInv' /\ CheckedInv' /\ DestructionInv'
         /\ TrackedImpliesInitialised'
<1>1. TypeOK'
  BY DEF IInv, TypeOK, RcVisardTypeOK, systemVars, callVars
<1>2. WireInv'
  BY DEF IInv, WireInv, callVars, Support
<1>3. CheckedInv' /\ DestructionInv' /\ TrackedImpliesInitialised'
  BY DEF IInv, CheckedInv, DestructionInv, TrackedImpliesInitialised, Tracked,
         systemVars, callVars, Support
<1> QED
  BY <1>1, <1>2, <1>3

\* Orphans are dropped as the sensor stops to serve them.
LEMMA OrphansType ==
  ASSUME IInv
  PROVE  OrphansServed \in [Streams -> SUBSET Dests]
BY DEF OrphansServed, IInv, TypeOK

\* What an answer of the sensor is, and what the sensor does for it.
LEMMA AnswerEffect ==
  ASSUME wire \in Exchange, AnswerRequest
  PROVE  /\ wire.phase = "sent" /\ power' = power /\ foreign' = foreign
         /\ wire' \in Exchange /\ wire'.phase = "answered"
         /\ wire'.method = wire.method /\ wire'.stream = wire.stream
         /\ wire'.dests = wire.dests
         /\ \/ /\ destinations' = destinations
               /\ wire.method \in {"PUT", "DELETE"} => wire'.code # 200
            \/ /\ wire.method = "PUT" /\ wire'.code = 200
               /\ destinations' =
                    [destinations EXCEPT ![wire.stream] = @ \cup wire.dests]
            \/ /\ wire.method = "DELETE"
               /\ destinations' =
                    [destinations EXCEPT ![wire.stream] = @ \ wire.dests]
<1>1. CASE AnswerSystem
  <2>1. wire.phase = "sent" /\ wire.method = "GET system"
        /\ UNCHANGED <<power, destinations, foreign>>
    BY <1>1 DEF AnswerSystem, deviceVars
  <2>2. CASE wire' = Answer(wire, 502, FALSE)
    BY <2>1, <2>2 DEF Answer, Exchange
  <2>3. CASE wire' = Answer(wire, 200, power = "ready")
    BY <2>1, <2>3 DEF Answer, Exchange
  <2> QED
    BY <1>1, <2>2, <2>3 DEF AnswerSystem
<1>2. CASE AnswerGet
  <2>1. wire.phase = "sent" /\ wire.method \notin {"PUT", "DELETE"}
        /\ UNCHANGED <<power, destinations, foreign>>
    BY <1>2 DEF AnswerGet, deviceVars
  <2>2. CASE wire' = Answer(wire, 502, FALSE)
    BY <2>1, <2>2 DEF Answer, Exchange
  <2>3. CASE wire' = Answer(wire, 200, FALSE)
    BY <2>1, <2>3 DEF Answer, Exchange
  <2> QED
    BY <1>2, <2>2, <2>3 DEF AnswerGet
<1>3. CASE AnswerPut
  <2>1. wire.phase = "sent" /\ wire.method = "PUT" /\ UNCHANGED <<power, foreign>>
    BY <1>3 DEF AnswerPut
  <2>2. CASE wire' = Answer(wire, 200, FALSE) /\ destinations' =
               [destinations EXCEPT ![wire.stream] = @ \cup wire.dests]
    BY <2>1, <2>2 DEF Answer, Exchange
  <2>3. CASE wire' = Answer(wire, 403, FALSE) /\ UNCHANGED destinations
    BY <2>1, <2>3 DEF Answer, Exchange
  <2> QED
    BY <1>3, <2>2, <2>3 DEF AnswerPut
<1>4. CASE AnswerDelete
  <2>1. wire.phase = "sent" /\ wire.method = "DELETE"
        /\ UNCHANGED <<power, foreign>>
    BY <1>4 DEF AnswerDelete
  <2>2. CASE wire' = Answer(wire, 200, FALSE) /\ destinations' =
               [destinations EXCEPT ![wire.stream] = @ \ wire.dests]
    BY <2>1, <2>2 DEF Answer, Exchange
  <2>3. CASE wire' = Answer(wire, 404, FALSE) /\ UNCHANGED destinations
    BY <2>1, <2>3 DEF Answer, Exchange
  <2> QED
    BY <1>4, <2>2, <2>3 DEF AnswerDelete
<1>5. CASE AnswerUnavailable
  BY <1>5 DEF AnswerUnavailable, deviceVars, Answer, Exchange
<1>6. CASE RefuseRequest
  BY <1>6 DEF RefuseRequest, deviceVars, Answer, Exchange
<1> QED
  BY <1>1, <1>2, <1>3, <1>4, <1>5, <1>6 DEF AnswerRequest

LEMMA SensorAnswersStep ==
  ASSUME IInv, SensorAnswers
  PROVE  IInv'
<1>1. AnswerRequest /\ wire \in Exchange
  BY DEF SensorAnswers, IInv, TypeOK, RcVisardTypeOK
<1>2. wire.phase = "sent" /\ power' = power /\ foreign' = foreign
  BY <1>1, AnswerEffect
<1>3. /\ wire' \in Exchange /\ wire'.phase = "answered"
      /\ wire'.method = wire.method /\ wire'.stream = wire.stream
      /\ wire'.dests = wire.dests
  BY <1>1, AnswerEffect
<1>4. \/ /\ destinations' = destinations
         /\ wire.method = "DELETE" => wire'.code # 200
      \/ /\ wire.method = "PUT" /\ wire'.code = 200
         /\ destinations' =
              [destinations EXCEPT ![wire.stream] = @ \cup wire.dests]
      \/ /\ wire.method = "DELETE"
         /\ destinations' =
              [destinations EXCEPT ![wire.stream] = @ \ wire.dests]
  BY <1>1, AnswerEffect
<1>5. destinations' \in [Streams -> SUBSET Dests]
  BY <1>4 DEF IInv, TypeOK, RcVisardTypeOK, Exchange
<1>6. orphans' = OrphansServed /\ late' = late
      /\ UNCHANGED <<systemVars, req_streams_, receivers, callVars>>
  BY DEF SensorAnswers
<1>7. \A s \in Streams : orphans'[s] = orphans[s] \cap destinations'[s]
  BY <1>6 DEF OrphansServed
<1>8. wire # Quiet
  BY <1>2, QuietFields
<1>9. /\ TypeOK' /\ WireInv' /\ CheckedInv' /\ DestructionInv'
      /\ TrackedImpliesInitialised'
  BY <1>2, <1>3, <1>5, <1>6, <1>8, OrphansType, ProgramUnchanged
  DEF IInv, TypeOK, RcVisardTypeOK
<1>10. DeleteInv'
  <2>1. SUFFICES ASSUME pc = "delete", NEW d \in destinations'[op.stream],
                        op.dests[d] > 0, todo[d] = 0
                 PROVE  \/ d \in orphans'[op.stream]
                        \/ d \in wire.dests /\ wire'.code # 200
    BY <1>3, <1>6 DEF DeleteInv, callVars
  <2>2. op.stream \in Streams /\ wire.method = "DELETE"
        /\ wire.stream = op.stream
    BY <1>8, <2>1, StreamOfCall DEF IInv, WireInv
  <2>3. d \in destinations[op.stream]
        /\ (wire'.code = 200 => d \notin wire.dests)
    BY <1>4, <2>1, <2>2 DEF IInv, TypeOK, RcVisardTypeOK
  <2> QED
    BY <1>7, <2>1, <2>2, <2>3 DEF IInv, DeleteInv
<1>11. LeakAccounting'
  <2>1. \A s \in Streams : Acknowledged(s) = {} /\ Tracked(s)' = Tracked(s)
    BY <1>2, <1>6, NoneAcknowledged DEF Tracked
  <2>2. \A s \in Streams :
          destinations'[s] \subseteq destinations[s] \cup Acknowledged(s)'
    BY <1>3, <1>4 DEF IInv, TypeOK, RcVisardTypeOK, Acknowledged
  <2> QED
    BY <1>7, <2>1, <2>2 DEF IInv, LeakAccounting
<1> QED
  BY <1>9, <1>10, <1>11 DEF IInv

LEMMA TimeoutStep ==
  ASSUME IInv, Timeout
  PROVE  IInv'
<1>1. /\ wire' = Answer(wire, 0, FALSE)
      /\ wire.phase = "sent" \/ wire.phase = "answered"
      /\ late' = late \/ late' = late \cup {wire}
      /\ UNCHANGED deviceVars
      /\ UNCHANGED <<systemVars, req_streams_, receivers, callVars>>
  BY DEF Timeout, RequestTimesOut
<1>2. /\ wire' \in Exchange /\ wire'.phase = "answered" /\ wire'.code = 0
      /\ wire'.method = wire.method /\ wire'.stream = wire.stream
      /\ wire'.dests = wire.dests
  BY <1>1 DEF IInv, TypeOK, RcVisardTypeOK, Answer, Exchange
<1>3. \A s \in Streams :
        /\ orphans'[s] \subseteq Dests
        /\ orphans[s] \subseteq orphans'[s]
        /\ Acknowledged(s) \cap destinations[s] \subseteq orphans'[s]
  BY DEF Timeout, IInv, TypeOK, RcVisardTypeOK, Acknowledged
<1>4. orphans' \in [Streams -> SUBSET Dests]
  <2>1. \/ orphans' = orphans
        \/ orphans' = [orphans EXCEPT ![wire.stream] =
                         @ \cup (wire.dests \cap destinations[wire.stream])]
    BY DEF Timeout
  <2>2. wire.dests \subseteq Dests /\ orphans \in [Streams -> SUBSET Dests]
    BY DEF IInv, TypeOK, RcVisardTypeOK, Exchange
  <2> QED
    BY <2>1, <2>2
<1>5. wire # Quiet /\ late' \subseteq Exchange
  BY <1>1, QuietFields DEF IInv, TypeOK, RcVisardTypeOK
<1>6. /\ TypeOK' /\ WireInv' /\ CheckedInv' /\ DestructionInv'
      /\ TrackedImpliesInitialised'
  BY <1>1, <1>2, <1>4, <1>5, ProgramUnchanged
  DEF IInv, TypeOK, RcVisardTypeOK, deviceVars
<1>7. DeleteInv'
  <2>1. SUFFICES ASSUME pc = "delete", NEW d \in destinations[op.stream],
                        op.dests[d] > 0, todo[d] = 0
                 PROVE  d \in orphans'[op.stream] \/ d \in wire.dests
    <3>1. op' = op /\ todo' = todo /\ pc' = pc /\ destinations' = destinations
      BY <1>1 DEF callVars, deviceVars
    <3> QED
      BY <1>2, <3>1 DEF DeleteInv
  <2>2. d \in orphans[op.stream] \/ d \in wire.dests
    BY <2>1 DEF IInv, DeleteInv
  <2> QED
    BY <1>3, <2>1, <2>2, StreamOfCall
<1>8. LeakAccounting'
  <2>1. \A s \in Streams : Tracked(s)' = Tracked(s)
    BY <1>1 DEF Tracked
  <2> QED
    BY <1>1, <1>3, <2>1 DEF IInv, LeakAccounting, deviceVars
<1> QED
  BY <1>6, <1>7, <1>8 DEF IInv

LEMMA LateRequestStep ==
  ASSUME IInv, NEW rq \in late, LateRequest(rq)
  PROVE  IInv'
<1>1. /\ wire' = wire /\ late' = late \ {rq}
      /\ power' = power /\ foreign' = foreign
      /\ UNCHANGED <<systemVars, req_streams_, receivers, callVars>>
  BY DEF LateRequest, ServeLateRequest
<1>2. \/ /\ destinations' = [destinations EXCEPT ![rq.stream] = @ \cup rq.dests]
         /\ orphans' = [orphans EXCEPT ![rq.stream] = @ \cup rq.dests]
      \/ /\ destinations' = [destinations EXCEPT ![rq.stream] = @ \ rq.dests]
         /\ orphans' = OrphansServed
  BY DEF LateRequest, ServeLateRequest
<1>3. rq.dests \subseteq Dests
  BY DEF IInv, TypeOK, RcVisardTypeOK, Exchange
<1>4. destinations' \in [Streams -> SUBSET Dests]
      /\ orphans' \in [Streams -> SUBSET Dests]
  BY <1>2, <1>3, OrphansType DEF IInv, TypeOK, RcVisardTypeOK
<1>5. \A s \in Streams :
        /\ orphans[s] \cap destinations'[s] \subseteq orphans'[s]
        /\ destinations'[s] \subseteq destinations[s] \cup orphans'[s]
  BY <1>2 DEF IInv, TypeOK, RcVisardTypeOK, OrphansServed
<1>6. /\ TypeOK' /\ WireInv' /\ CheckedInv' /\ DestructionInv'
      /\ TrackedImpliesInitialised'
  BY <1>1, <1>4, ProgramUnchanged DEF IInv, TypeOK, RcVisardTypeOK
<1>7. DeleteInv'
  <2>1. SUFFICES ASSUME pc = "delete", NEW d \in destinations'[op.stream],
                        op.dests[d] > 0, todo[d] = 0
                 PROVE  \/ d \in orphans'[op.stream]
                        \/ /\ d \in wire.dests
                           /\ ~(wire.phase = "answered" /\ wire.code = 200)
    BY <1>1 DEF DeleteInv, callVars
  <2>2. op.stream \in Streams
    BY <2>1, StreamOfCall
  <2>3. CASE d \in destinations[op.stream]
    BY <1>5, <2>1, <2>2, <2>3 DEF IInv, DeleteInv
  <2>4. CASE d \notin destinations[op.stream]
    BY <1>5, <2>1, <2>2, <2>4
  <2> QED
    BY <2>3, <2>4
<1>8. LeakAccounting'
  <2>1. \A s \in Streams :
          Tracked(s)' = Tracked(s) /\ Acknowledged(s)' = Acknowledged(s)
    BY <1>1 DEF Tracked, Acknowledged
  <2> QED
    BY <1>5, <2>1 DEF IInv, LeakAccounting
<1> QED
  BY <1>6, <1>7, <1>8 DEF IInv

LEMMA EnvironmentStep ==
  ASSUME IInv, Environment
  PROVE  IInv'
<1>1. /\ wire' = wire /\ late' = late
      /\ orphans' = OrphansServed
      /\ UNCHANGED <<systemVars, req_streams_, receivers, callVars>>
  BY DEF Environment, Boot, Reboot, ForeignHostActs
<1>2. destinations' \in {destinations, [s \in Streams |-> {}]}
  BY DEF Environment, Boot, Reboot, ForeignHostActs
<1>3. power' \in {"down", "booting", "ready"} /\ foreign' \in Nat
  BY DEF Environment, Boot, Reboot, ForeignHostActs, IInv, TypeOK,
         RcVisardTypeOK
<1>4. destinations' \in [Streams -> SUBSET Dests]
  BY <1>2 DEF IInv, TypeOK, RcVisardTypeOK
<1>5. \A s \in Streams :
        /\ orphans'[s] = orphans[s] \cap destinations'[s]
        /\ destinations'[s] \subseteq destinations[s]
  BY <1>1, <1>2 DEF OrphansServed
<1>6. /\ TypeOK' /\ WireInv' /\ CheckedInv' /\ DestructionInv'
      /\ TrackedImpliesInitialised'
  BY <1>1, <1>3, <1>4, OrphansType, ProgramUnchanged
  DEF IInv, TypeOK, RcVisardTypeOK
<1>7. DeleteInv'
  BY <1>1, <1>5, StreamOfCall DEF IInv, DeleteInv, callVars
<1>8. LeakAccounting'
  <2>1. \A s \in Streams :
          Tracked(s)' = Tracked(s) /\ Acknowledged(s)' = Acknowledged(s)
    BY <1>1 DEF Tracked, Acknowledged
  <2> QED
    BY <1>5, <2>1 DEF IInv, LeakAccounting
<1> QED
  BY <1>6, <1>7, <1>8 DEF IInv

-----------------------------------------------------------------------------
LEMMA StutterStep ==
  ASSUME IInv, UNCHANGED vars
  PROVE  IInv'
<1>1. UNCHANGED <<wire, late, power, destinations, foreign, initialized_,
                  visard_version_, avail_streams_, req_streams_, receivers, op,
                  todo, pc, orphans>>
  BY DEF vars, deviceVars, systemVars, callVars
<1>2. TypeOK' /\ WireInv' /\ CheckedInv'
  BY <1>1 DEF IInv, TypeOK, RcVisardTypeOK, WireInv, CheckedInv
<1>3. DeleteInv' /\ DestructionInv'
  BY <1>1 DEF IInv, DeleteInv, DestructionInv, Tracked
<1>4. TrackedImpliesInitialised' /\ LeakAccounting'
  BY <1>1, LedgerUnchanged
<1> QED
  BY <1>2, <1>3, <1>4 DEF IInv

LEMMA ContinueStep ==
  ASSUME IInv, Continue
  PROVE  IInv'
<1>1. CASE HandleSystem \/ HandleSystemInfo \/ HandleDatastreams
             \/ CheckStreamTypeAvailable
  BY <1>1, HandleSystemStep, HandleSystemInfoStep, HandleDatastreamsStep,
     CheckStreamTypeAvailableStep
<1>2. CASE LookUpType \/ SendQuery \/ HandleQuery
             \/ AddDestinationToStream \/ HandlePut
  BY <1>2, LookUpTypeStep, SendQueryStep, HandleQueryStep, AddDestinationToStreamStep,
     HandlePutStep
<1>3. CASE BeginDelete \/ SendDelete \/ HandleDelete \/ NothingToDelete
             \/ EraseWhileIterating
  BY <1>3, BeginDeleteStep, SendDeleteStep, HandleDeleteStep,
     NothingToDeleteStep, EraseWhileIteratingStep
<1>4. CASE NoReceiver \/ ReceiveFirstMessage \/ ReceiveTimesOut \/ ReceiveFails
             \/ HandleState
  BY <1>4, ReceiveStep
<1>5. CASE \E d \in Ports : BindReceiver(d)
  BY <1>5, BindReceiverStep
<1>6. CASE CleanUpDone \/ (\E s \in Streams : CleanUpStream(s))
  BY <1>6, DestructionStep
<1> QED
  BY <1>1, <1>2, <1>3, <1>4, <1>5, <1>6 DEF Continue

LEMMA NextInv == IInv /\ [Next]_vars => IInv'
<1> SUFFICES ASSUME IInv, [Next]_vars PROVE IInv'
  OBVIOUS
<1>1. CASE CallApi
  BY <1>1, CallApiStep
<1>2. CASE Continue
  BY <1>2, ContinueStep
<1>3. CASE SensorAnswers
  BY <1>3, SensorAnswersStep
<1>4. CASE Timeout
  BY <1>4, TimeoutStep
<1>5. CASE \E rq \in late : LateRequest(rq)
  BY <1>5, LateRequestStep
<1>6. CASE Environment
  BY <1>6, EnvironmentStep
<1>7. CASE Terminated \/ UNCHANGED vars
  BY <1>7, StutterStep DEF Terminated
<1> QED
  BY <1>1, <1>2, <1>3, <1>4, <1>5, <1>6, <1>7 DEF Next

\* IInv holds in every reachable state.
THEOREM Invariance == Spec => []IInv
<1>1. Init => IInv
  BY InitInv
<1>2. IInv /\ [Next]_vars => IInv'
  BY NextInv
<1> QED
  BY <1>1, <1>2, PTL DEF Spec

\* The variables keep the shapes the code gives them.
THEOREM TypeCorrect == Spec => []TypeOK
<1>1. IInv => TypeOK
  BY DEF IInv
<1> QED
  BY <1>1, Invariance, PTL

\* Whatever requests fail, time out or arrive late, the sensor streams to no
\* destination outside req_streams_ but the orphans of the three known causes.
THEOREM NoOtherLeak == Spec => []LeakAccounting
<1>1. IInv => LeakAccounting
  BY DEF IInv
<1> QED
  BY <1>1, Invariance, PTL

\* checkSystemReady() never runs under the loop of cleanUpRequestedStreams().
THEOREM CleanUpNeverRechecks == Spec => []TrackedImpliesInitialised
<1>1. IInv => TrackedImpliesInitialised
  BY DEF IInv
<1> QED
  BY <1>1, Invariance, PTL

\* The steps that take entries out of a list: the check, and an erasure after
\* the answer to a DELETE, which leaves the sensor and the orphans alone.
LEMMA WhoErases ==
  ASSUME IInv, Next, NEW s \in Streams, NEW d \in Tracked(s), d \notin Tracked(s)'
  PROVE  \/ pc' = "system"
         \/ UNCHANGED <<destinations, orphans>> /\ wire' = Quiet
<1>1. req_streams_' # req_streams_
  BY DEF Tracked
<1>2. CASE \E o : BeginCheck(o)
  BY <1>2 DEF BeginCheck
<1>3. CASE HandleDelete \/ EraseWhileIterating
  BY <1>3 DEF HandleDelete, EraseWhileIterating, deviceVars
<1>4. ~HandlePut
  <2>1. SUFFICES ASSUME HandlePut PROVE FALSE
    OBVIOUS
  <2>2. req_streams_' = [req_streams_ EXCEPT ![op.stream] =
                           [e \in Dests |-> @[e] + op.dests[e]]]
    BY <1>1, <2>1, ZenonT(30) DEF HandlePut
  <2>3. op.stream \in Streams
    BY <2>1, StreamOfCall DEF HandlePut, Answered
  <2> QED
    BY <2>2, <2>3 DEF IInv, TypeOK, Operation, DestList, Tracked, Support
<1>5. CASE CallApi
  BY <1>1, <1>2, <1>5
  DEF CallApi, Call, CallCheckSystemReady, CallGetAvailableStreams,
      CallGetPbMsgTypeOfStream, CallGetDestinationsOfStream,
      CallCreateReceiverForStream, CallAddDestinationToStream,
      CallDeleteDestinationFromStream, CallDeleteDestinationsFromStream,
      DropReceiver, BeginDestruction, ExitWithReceivers
<1>6. CASE Continue
  <2>1. CASE CheckStreamTypeAvailable
    BY <1>1, <1>2, <2>1 DEF CheckStreamTypeAvailable
  <2>2. CASE \E e \in Ports : BindReceiver(e)
    BY <1>1, <2>2 DEF BindReceiver, SendPut
  <2>3. CASE HandleSystem \/ HandleSystemInfo \/ HandleDatastreams
               \/ LookUpType \/ SendQuery \/ HandleQuery
               \/ AddDestinationToStream \/ BeginDelete \/ SendDelete
               \/ NothingToDelete
    BY <1>1, <2>3
    DEF HandleSystem, HandleSystemInfo, HandleDatastreams, LookUpType,
        SendQuery, HandleQuery, AddDestinationToStream, SendPut, BeginDelete,
        SendDelete, NothingToDelete
  <2>4. CASE NoReceiver \/ ReceiveFirstMessage \/ ReceiveTimesOut
               \/ ReceiveFails \/ HandleState \/ CleanUpDone
               \/ (\E t \in Streams : CleanUpStream(t))
    BY <1>1, <2>4
    DEF NoReceiver, ReceiveFirstMessage, ReceiveTimesOut, ReceiveFails,
        HandleState, CleanUpDone, CleanUpStream
  <2> QED
    BY <1>3, <1>4, <1>6, <2>1, <2>2, <2>3, <2>4 DEF Continue
<1>7. ~(SensorAnswers \/ Timeout \/ (\E rq \in late : LateRequest(rq))
          \/ Environment \/ Terminated)
  BY <1>1 DEF SensorAnswers, Timeout, LateRequest, Environment, Terminated, vars
<1> QED
  BY <1>5, <1>6, <1>7 DEF Next

\* The library forgets a destination only when it re-reads the sensor's state
\* or when the sensor has stopped serving it for an entry of the list.
THEOREM ErasedOnlyOnceGone == Spec => ErasedOnlyIfGone
<1> DEFINE Gone == \A s \in Streams : \A d \in Tracked(s) \ Tracked(s)' :
                     pc' = "system" \/ d \notin destinations[s] \/ d \in orphans[s]
<1>1. IInv /\ IInv' /\ [Next]_vars => [Gone]_vars
  <2>1. SUFFICES ASSUME IInv, IInv', Next, NEW s \in Streams,
                        NEW d \in Tracked(s), d \notin Tracked(s)',
                        pc' # "system", d \in destinations[s]
                 PROVE  d \in orphans[s]
    OBVIOUS
  <2>2. UNCHANGED <<destinations, orphans>> /\ wire' = Quiet
    BY <2>1, WhoErases
  <2>3. Acknowledged(s)' = {}
    BY <2>2, QuietFields DEF Acknowledged
  <2> QED
    BY <2>1, <2>2, <2>3 DEF IInv, LeakAccounting
<1> QED
  BY <1>1, Invariance, PTL DEF Spec, ErasedOnlyIfGone

-----------------------------------------------------------------------------
(* Which DELETEs are sent. *)

\* The three characters of any version up to 1.6 read as at most 1.6.
LEMMA ReadAsNewer == ReadVersion > 16 => UnderstandsSeveral
BY RemoteInterfaceAssumption DEF ReadVersion, UnderstandsSeveral

LEMMA NoDelete ==
  \A m \in {"GET system", "GET datastreams", "GET", "PUT"} :
    \A s, ds : Request(m, s, ds).method # "DELETE"
BY DEF Request

\* Only SendDelete puts a DELETE on the wire; the steps of the sensor and of the
\* network keep what a request names, and a request is late only if it was sent.
LEMMA WhoSends ==
  ASSUME IInv, Next, ~SendDelete
  PROVE  /\ late' \subseteq late \cup {wire}
         /\ \/ wire'.method # "DELETE"
            \/ wire'.method = wire.method /\ wire'.dests = wire.dests
<1> DEFINE Post == /\ late' \subseteq late \cup {wire}
                   /\ \/ wire'.method # "DELETE"
                      \/ wire'.method = wire.method /\ wire'.dests = wire.dests
<1>1. ASSUME late' = late, wire' = wire PROVE Post
  BY <1>1
<1>2. ASSUME late' = late, wire' = Quiet PROVE Post
  BY <1>2, QuietFields
<1>3. ASSUME late' = late, wire'.method # "DELETE"
      PROVE  Post
  BY <1>3
<1>4. CASE \E o : BeginCheck(o)
  <2>1. late' = late /\ wire' = Request("GET system", None, {})
    BY <1>4 DEF BeginCheck
  <2> QED
    BY <2>1, NoDelete
<1>5. CASE CallApi
  BY <1>1, <1>4, <1>5
  DEF CallApi, Call, CallCheckSystemReady, CallGetAvailableStreams,
      CallGetPbMsgTypeOfStream, CallGetDestinationsOfStream,
      CallCreateReceiverForStream, CallAddDestinationToStream,
      CallDeleteDestinationFromStream, CallDeleteDestinationsFromStream,
      DropReceiver, BeginDestruction, ExitWithReceivers
<1>6. CASE Continue
  <2>1. CASE HandleSystem \/ HandleSystemInfo
    <3>1. late' = late
      BY <2>1 DEF HandleSystem, HandleSystemInfo
    <3>2. CASE wire' = Quiet
      BY <1>2, <3>1, <3>2
    <3>3. CASE wire'.method # "DELETE"
      BY <1>3, <3>1, <3>3
    <3>4. \/ wire' = Quiet
          \/ wire' = Request("GET system", None, {})
          \/ wire' = Request("GET datastreams", None, {})
      BY <2>1 DEF HandleSystem, HandleSystemInfo
    <3> QED
      BY <3>2, <3>3, <3>4, NoDelete
  <2>2. CASE HandleDatastreams \/ HandleQuery \/ HandlePut \/ HandleDelete
               \/ HandleState \/ EraseWhileIterating
    <3>1. late' = late /\ wire' = Quiet
      BY <2>2 DEF HandleDatastreams, HandleQuery, HandlePut, HandleDelete,
                  HandleState, EraseWhileIterating
    <3> QED
      BY <1>2, <3>1
  <2>3. CASE CheckStreamTypeAvailable
    BY <1>1, <1>4, <2>3 DEF CheckStreamTypeAvailable
  <2>4. CASE \/ LookUpType \/ BeginDelete \/ NothingToDelete \/ NoReceiver
             \/ ReceiveFirstMessage \/ ReceiveFails \/ CleanUpDone
             \/ \E s \in Streams : CleanUpStream(s)
    BY <1>1, <2>4 DEF LookUpType, BeginDelete, NothingToDelete, NoReceiver,
                      ReceiveFirstMessage, ReceiveFails, CleanUpDone,
                      CleanUpStream
  <2>5. CASE \/ SendQuery \/ AddDestinationToStream \/ ReceiveTimesOut
             \/ \E d \in Ports : BindReceiver(d)
    <3>1. late' = late
      BY <2>5 DEF SendQuery, AddDestinationToStream, BindReceiver, SendPut,
                  ReceiveTimesOut
    <3>2. \E ds : \/ wire' = Request("GET", op.stream, {})
                 \/ wire' = Request("PUT", op.stream, ds)
                 \/ wire' = Request("GET", None, {})
      BY <2>5 DEF SendQuery, AddDestinationToStream, BindReceiver, SendPut,
                  ReceiveTimesOut
    <3>3. wire'.method # "DELETE"
      BY <3>2, NoDelete
    <3> QED
      BY <1>3, <3>1, <3>3
  <2> QED
    BY <1>6, <2>1, <2>2, <2>3, <2>4, <2>5 DEF Continue
<1>7. CASE SensorAnswers
  <2>1. AnswerRequest /\ wire \in Exchange /\ late' = late
    BY <1>7 DEF SensorAnswers, IInv, TypeOK, RcVisardTypeOK
  <2> QED
    BY <2>1, AnswerEffect
<1>8. CASE Timeout
  BY <1>8 DEF Timeout, RequestTimesOut, Answer
<1>9. CASE \E rq \in late : LateRequest(rq)
  BY <1>9 DEF LateRequest, ServeLateRequest
<1>10. CASE Environment \/ Terminated
  BY <1>1, <1>10 DEF Environment, Boot, Reboot, ForeignHostActs, Terminated, vars
<1> QED
  BY <1>5, <1>6, <1>7, <1>8, <1>9, <1>10 DEF Next

LEMMA SendsSeveralOnlyIfUnderstood ==
  ASSUME IInv, SendDelete, NamesSeveral(wire')
  PROVE  UnderstandsSeveral
<1>1. CASE DeletesTogether
  BY <1>1, ReadAsNewer DEF DeletesTogether, IInv, TypeOK
<1>2. CASE ~DeletesTogether
  <2>1. PICK d : wire' = Request("DELETE", op.stream, {d})
    BY <1>2 DEF SendDelete
  <2>2. Cardinality(wire'.dests) = 1
    BY <2>1, FS_Singleton DEF Request
  <2> QED
    BY <2>2 DEF NamesSeveral
<1> QED
  BY <1>1, <1>2

\* No sensor of any version up to 1.6 is sent a DELETE that names several
\* destinations, however deleteDestinationsFromStream() reads that version.
THEOREM SeveralUnderstood == Spec => []SeveralOnlyIfUnderstood
<1>1. Init => SeveralOnlyIfUnderstood
  BY DEF Init, RcVisardInit, Quiet, SeveralOnlyIfUnderstood, NamesSeveral
<1>2. IInv /\ SeveralOnlyIfUnderstood /\ [Next]_vars
        => SeveralOnlyIfUnderstood'
  <2> SUFFICES ASSUME IInv, SeveralOnlyIfUnderstood, [Next]_vars
               PROVE  SeveralOnlyIfUnderstood'
    OBVIOUS
  <2>1. CASE SendDelete
    BY <2>1, SendsSeveralOnlyIfUnderstood
    DEF SendDelete, SeveralOnlyIfUnderstood
  <2>2. CASE Next /\ ~SendDelete
    BY <2>2, WhoSends DEF SeveralOnlyIfUnderstood, NamesSeveral
  <2>3. CASE UNCHANGED vars
    BY <2>3 DEF vars, SeveralOnlyIfUnderstood
  <2> QED
    BY <2>1, <2>2, <2>3
<1> QED
  BY <1>1, <1>2, Invariance, PTL DEF Spec

-----------------------------------------------------------------------------
(* RemoteInterface implements Ledger, for every value of the constants: each *)
(* of its steps is one entry in the books, or none.                          *)

\* Whatever the books call lost is still served.
OrphanInv == Lost \subseteq Served

\* The entries of one stream.
Pairs(s, ds) == {p \in Streams \X Dests : p[1] = s /\ p[2] \in ds}

\* A step of the program is one of the books, or leaves them alone.
Booked == [Promise!Next]_(Promise!vars)

-----------------------------------------------------------------------------
LEMMA NoEntry ==
  ASSUME UNCHANGED <<destinations, req_streams_, orphans>>,
         \A s \in Streams : Acknowledged(s)' = Acknowledged(s)
  PROVE  Booked
<1>1. \A s \in Streams : Tracked(s)' = Tracked(s)
  BY DEF Tracked
<1>2. Served' = Served /\ Held' = Held /\ Lost' = Lost
  BY <1>1 DEF Served, Held, Lost
<1> QED
  BY <1>2 DEF Booked, Promise!vars

\* Steps of a call while no PUT is acknowledged, before and after.
LEMMA NothingHappens ==
  ASSUME IInv, pc # "put" \/ wire.code # 200,
         (wire' = Quiet) \/ wire' = wire \/ wire'.phase = "sent",
         UNCHANGED <<destinations, req_streams_, orphans>>
  PROVE  Booked
<1>1. \A s \in Streams : Acknowledged(s) = {}
  BY NoneAcknowledged
<1>2. \A s \in Streams : Acknowledged(s)' = {}
  BY <1>1, QuietFields DEF Acknowledged
<1> QED
  BY <1>1, <1>2, NoEntry

LEMMA CheckForgets ==
  ASSUME IInv, pc \in {"idle", "check"}, NEW o, BeginCheck(o)
  PROVE  Booked
<1>1. wire'.phase = "sent"
  BY CheckRequest DEF BeginCheck
<1>2. \A s \in Streams : Acknowledged(s) = {} /\ Acknowledged(s)' = {}
  BY <1>1, NoneAcknowledged DEF Acknowledged
<1>3. \A s \in Streams : Tracked(s)' = {}
  <2>1. req_streams_' = [s \in Streams |-> Listing({})]
    BY DEF BeginCheck
  <2> QED
    BY <2>1, ListingType DEF Tracked
<1>4. Held' = {} /\ Served' = Served
  BY <1>2, <1>3 DEF Held, Served, BeginCheck, deviceVars
<1>5. Lost' = Lost \cup (Held \cap Served)
  BY <1>2 DEF Lost, Held, Served, BeginCheck, Tracked, Support
<1> QED
  BY <1>4, <1>5 DEF Booked, Promise!Next, Promise!Forget

LEMMA PutRecovers ==
  ASSUME IInv, HandlePut
  PROVE  Booked
<1>1. pc = "put" /\ wire.phase = "answered" /\ wire' = Quiet
      /\ op.stream \in Streams
  BY StreamOfCall DEF HandlePut, Answered
<1>2. CASE wire.code # 200
  BY <1>1, <1>2, NothingHappens DEF HandlePut, deviceVars
<1>3. CASE wire.code = 200
  <2>1. wire.method = "PUT" /\ wire.stream = op.stream
        /\ wire.dests = Support(op.dests)
    BY <1>1, QuietFields DEF IInv, WireInv
  <2>2. /\ req_streams_' = [req_streams_ EXCEPT ![op.stream] =
                              [d \in Dests |-> @[d] + op.dests[d]]]
        /\ orphans' = [orphans EXCEPT ![op.stream] = @ \ Support(op.dests)]
        /\ UNCHANGED deviceVars
    BY <1>3, ZenonT(30) DEF HandlePut
  <2>3. \A s \in Streams :
          Tracked(s)' = IF s = op.stream
                        THEN Tracked(s) \cup Support(op.dests) ELSE Tracked(s)
    BY <1>1, <2>2 DEF IInv, TypeOK, Operation, DestList, Tracked, Support
  <2>4. \A s \in Streams :
          /\ Acknowledged(s)' = {}
          /\ Acknowledged(s) = IF s = op.stream THEN Support(op.dests) ELSE {}
    BY <1>1, <1>3, <2>1, QuietFields DEF Acknowledged
  <2>5. Held' = Held /\ Served' = Served
    BY <2>2, <2>3, <2>4 DEF Held, Served, deviceVars
  <2> DEFINE P == Pairs(op.stream, Support(op.dests))
  <2>6. P \subseteq Held /\ P \in SUBSET (Streams \X Dests)
    BY <2>4 DEF Held, Pairs
  <2>7. Lost' = Lost \ P
    BY <1>1, <2>2 DEF Lost, Pairs, IInv, TypeOK
  <2>8. Promise!Recover(P)
    BY <2>5, <2>6, <2>7 DEF Promise!Recover
  <2> QED
    BY <2>6, <2>8 DEF Booked, Promise!Next
<1> QED
  BY <1>2, <1>3

\* Entries leave a list once all of the call's DELETEs are acknowledged.
LEMMA ErasureIsBooked ==
  ASSUME IInv, HandleDelete \/ EraseWhileIterating, req_streams_' # req_streams_
  PROVE  Booked
<1>1. /\ pc = "delete" /\ wire.phase = "answered" /\ wire' = Quiet
      /\ wire.code = 200 /\ todo = Listing({})
      /\ UNCHANGED <<deviceVars, orphans>>
  BY DEF HandleDelete, EraseWhileIterating, Answered
<1>2. op.stream \in Streams
  BY <1>1, StreamOfCall
<1>3. \A s \in Streams : Acknowledged(s) = {} /\ Acknowledged(s)' = {}
  BY <1>1, NoneAcknowledged, QuietFields DEF Acknowledged
<1>4. \A s \in Streams :
        /\ Tracked(s)' \subseteq Tracked(s)
        /\ Tracked(s) \ Tracked(s)' \subseteq
             (IF s = op.stream THEN Support(op.dests) ELSE {})
  <2>1. CASE req_streams_' = [req_streams_ EXCEPT ![op.stream] =
                                EraseEach(@, op.dests)]
    BY <1>2, <2>1 DEF IInv, TypeOK, Operation, DestList, EraseEach, Tracked,
                      Support
  <2>2. ASSUME EraseWhileIterating, NEW gone \in ShortList,
               \A d \in Dests : gone[d] <= req_streams_[op.stream][d],
               req_streams_' = [req_streams_ EXCEPT ![op.stream] =
                                  EraseEach(@, gone)]
        PROVE  \A s \in Streams :
                 /\ Tracked(s)' \subseteq Tracked(s)
                 /\ Tracked(s) \ Tracked(s)' \subseteq
                      (IF s = op.stream THEN Support(op.dests) ELSE {})
    <3>1. op.dests = req_streams_[op.stream]
      BY <1>1, <2>2 DEF EraseWhileIterating, IInv, DestructionInv
    <3>2. gone \in DestList
      BY <2>2, ShortListType
    <3> QED
      BY <1>2, <2>2, <3>1, <3>2, ErasureShrinks
  <2> QED
    BY <2>1, <2>2 DEF HandleDelete, EraseWhileIterating
<1>5. Support(op.dests) \cap destinations[op.stream] \subseteq orphans[op.stream]
  BY <1>1, AllDeleted
<1> DEFINE P == Held \ Held'
<1>6. Held' \subseteq Held /\ P \in SUBSET (Streams \X Dests)
  BY <1>3, <1>4 DEF Held
<1>7. P \cap Served \subseteq Lost
  BY <1>3, <1>4, <1>5 DEF Held, Served, Lost
<1>8. Served' = Served /\ Lost' = Lost
  BY <1>1 DEF Served, Lost, deviceVars
<1>9. Promise!Erase(P)
  BY <1>6, <1>7, <1>8 DEF Promise!Erase
<1> QED
  BY <1>6, <1>9 DEF Booked, Promise!Next
-----------------------------------------------------------------------------
(* The sensor and the network. *)

LEMMA AnswerIsBooked ==
  ASSUME IInv, OrphanInv, SensorAnswers
  PROVE  Booked
<1>1. AnswerRequest /\ wire \in Exchange
  BY DEF SensorAnswers, IInv, TypeOK, RcVisardTypeOK
<1>2. /\ wire.phase = "sent" /\ wire'.phase = "answered"
      /\ wire'.method = wire.method /\ wire'.stream = wire.stream
      /\ wire'.dests = wire.dests /\ wire.dests \subseteq Dests
  BY <1>1, AnswerEffect DEF Exchange
<1>3. \A s \in Streams : Acknowledged(s) = {} /\ Tracked(s)' = Tracked(s)
  BY <1>2, NoneAcknowledged DEF SensorAnswers, Tracked
<1>4. orphans' = OrphansServed
  BY DEF SensorAnswers
<1> DEFINE P == Pairs(wire.stream, wire.dests)
<1>5. P \in SUBSET (Streams \X Dests)
  BY DEF Pairs
<1>6. CASE destinations' = destinations
           /\ (wire.method \in {"PUT", "DELETE"} => wire'.code # 200)
  <2>1. \A s \in Streams : Acknowledged(s)' = {}
    BY <1>2, <1>6 DEF Acknowledged
  <2>2. Served' = Served /\ Held' = Held
    BY <1>3, <1>6, <2>1 DEF Served, Held
  <2>3. Lost' = Lost
    BY <1>4, <1>6 DEF OrphansServed, OrphanInv, Lost, Served
  <2> QED
    BY <2>2, <2>3 DEF Booked, Promise!vars
<1>7. CASE /\ wire.method = "PUT" /\ wire'.code = 200
           /\ destinations' =
                [destinations EXCEPT ![wire.stream] = @ \cup wire.dests]
  <2>1. \A s \in Streams :
          Acknowledged(s)' = IF s = wire.stream THEN wire.dests ELSE {}
    BY <1>2, <1>7 DEF Acknowledged
  <2>2. Served' = Served \cup P
    BY <1>2, <1>7 DEF Served, Pairs, IInv, TypeOK, RcVisardTypeOK
  <2>3. Held' = Held \cup P
    BY <1>3, <2>1 DEF Held, Pairs
  <2>4. Lost' = Lost
    BY <1>4, <1>7
    DEF OrphansServed, OrphanInv, Lost, Served, IInv, TypeOK, RcVisardTypeOK
  <2>5. Promise!Register(P)
    BY <2>2, <2>3, <2>4 DEF Promise!Register
  <2> QED
    BY <1>5, <2>5 DEF Booked, Promise!Next
<1>8. CASE /\ wire.method = "DELETE"
           /\ destinations' =
                [destinations EXCEPT ![wire.stream] = @ \ wire.dests]
  <2>1. \A s \in Streams : Acknowledged(s)' = {}
    BY <1>2, <1>8 DEF Acknowledged
  <2>2. Served' = Served \ P
    BY <1>8 DEF Served, Pairs, IInv, TypeOK, RcVisardTypeOK
  <2>3. Held' = Held
    BY <1>3, <2>1 DEF Held
  <2>4. Lost' = Lost \ P
    BY <1>4, <1>8
    DEF OrphansServed, OrphanInv, Lost, Served, Pairs, IInv, TypeOK,
        RcVisardTypeOK
  <2>5. Promise!Unserve(P)
    BY <2>2, <2>3, <2>4 DEF Promise!Unserve
  <2> QED
    BY <1>5, <2>5 DEF Booked, Promise!Next
<1> QED
  BY <1>1, <1>6, <1>7, <1>8, AnswerEffect

LEMMA TimeoutIsBooked ==
  ASSUME IInv, Timeout
  PROVE  Booked
<1>1. /\ wire' = Answer(wire, 0, FALSE) /\ wire \in Exchange
      /\ UNCHANGED <<deviceVars, req_streams_>>
  BY DEF Timeout, RequestTimesOut, IInv, TypeOK, RcVisardTypeOK
<1>2. \A s \in Streams : Acknowledged(s)' = {} /\ Tracked(s)' = Tracked(s)
  <2>1. wire'.code = 0
    BY <1>1 DEF Answer
  <2>2. \A s \in Streams : Acknowledged(s)' = {}
    BY <2>1 DEF Acknowledged
  <2>3. \A s \in Streams : Tracked(s)' = Tracked(s)
    BY <1>1 DEF Tracked
  <2> QED
    BY <2>2, <2>3
<1>3. CASE wire.phase = "answered" /\ wire.method = "PUT" /\ wire.code = 200
  <2>1. \A s \in Streams :
          Acknowledged(s) = IF s = wire.stream THEN wire.dests ELSE {}
    BY <1>3 DEF Acknowledged
  <2>2. orphans' = [orphans EXCEPT ![wire.stream] =
                      @ \cup (wire.dests \cap destinations[wire.stream])]
    BY <1>3 DEF Timeout
  <2> DEFINE P == Pairs(wire.stream, wire.dests)
             Q == {p \in P : p[2] \notin Tracked(p[1])}
  <2>3. P \in SUBSET (Streams \X Dests) /\ P \subseteq Held /\ Q \in SUBSET P
    BY <2>1 DEF Pairs, Held
  <2>4. Held' = Held \ Q
    BY <1>2, <2>1 DEF Held, Pairs
  <2>5. Served' = Served
    BY <1>1 DEF Served, deviceVars
  <2>6. Lost' = Lost \cup (P \cap Served)
    BY <2>2 DEF Lost, Pairs, Served, IInv, TypeOK
  <2>7. Promise!LoseAnswer(P, Q)
    BY <2>3, <2>4, <2>5, <2>6 DEF Promise!LoseAnswer
  <2> QED
    BY <2>3, <2>7 DEF Booked, Promise!Next
<1>4. CASE ~(wire.phase = "answered" /\ wire.method = "PUT" /\ wire.code = 200)
  <2>1. \A s \in Streams : Acknowledged(s) = {}
    BY <1>4 DEF Acknowledged
  <2>2. orphans' = orphans
    BY <1>4 DEF Timeout
  <2> QED
    BY <1>1, <1>2, <2>1, <2>2, NoEntry DEF deviceVars
<1> QED
  BY <1>3, <1>4

LEMMA LateRequestIsBooked ==
  ASSUME IInv, OrphanInv, NEW rq \in late, LateRequest(rq)
  PROVE  Booked
<1>1. wire' = wire /\ req_streams_' = req_streams_ /\ rq.dests \subseteq Dests
  BY DEF LateRequest, ServeLateRequest, IInv, TypeOK, RcVisardTypeOK, Exchange
<1>2. Held' = Held
  BY <1>1 DEF Held, Tracked, Acknowledged
<1> DEFINE P == Pairs(rq.stream, rq.dests)
<1>3. P \in SUBSET (Streams \X Dests)
  BY DEF Pairs
<1>4. CASE rq.method = "PUT"
  <2>1. /\ destinations' = [destinations EXCEPT ![rq.stream] = @ \cup rq.dests]
        /\ orphans' = [orphans EXCEPT ![rq.stream] = @ \cup rq.dests]
    BY <1>4 DEF LateRequest, ServeLateRequest
  <2>2. Served' = Served \cup P /\ Lost' = Lost \cup P
    BY <1>1, <2>1 DEF Served, Lost, Pairs, IInv, TypeOK, RcVisardTypeOK
  <2>3. Promise!ServeAbandoned(P)
    BY <1>2, <2>2 DEF Promise!ServeAbandoned
  <2> QED
    BY <1>3, <2>3 DEF Booked, Promise!Next
<1>5. CASE rq.method # "PUT"
  <2>1. /\ destinations' = [destinations EXCEPT ![rq.stream] = @ \ rq.dests]
        /\ orphans' = OrphansServed
    BY <1>5 DEF LateRequest, ServeLateRequest
  <2>2. Served' = Served \ P
    BY <2>1 DEF Served, Pairs, IInv, TypeOK, RcVisardTypeOK
  <2>3. Lost' = Lost \ P
    BY <2>1 DEF OrphansServed, OrphanInv, Lost, Served, Pairs, IInv, TypeOK,
                RcVisardTypeOK
  <2>4. Promise!Unserve(P)
    BY <1>2, <2>2, <2>3 DEF Promise!Unserve
  <2> QED
    BY <1>3, <2>4 DEF Booked, Promise!Next
<1> QED
  BY <1>4, <1>5

LEMMA EnvironmentIsBooked ==
  ASSUME IInv, OrphanInv, Environment
  PROVE  Booked
<1>1. /\ wire' = wire /\ req_streams_' = req_streams_
      /\ orphans' = OrphansServed
      /\ destinations' \in {destinations, [s \in Streams |-> {}]}
  BY DEF Environment, Boot, Reboot, ForeignHostActs
<1>2. Held' = Held
  BY <1>1 DEF Held, Tracked, Acknowledged
<1> DEFINE P == Served \ Served'
<1>3. P \in SUBSET (Streams \X Dests) /\ Served' \subseteq Served
  BY <1>1 DEF Served
<1>4. Lost' = Lost \ P
  BY <1>1, <1>3 DEF OrphansServed, OrphanInv, Lost, Served
<1>5. Promise!Unserve(P)
  BY <1>2, <1>3, <1>4 DEF Promise!Unserve
<1> QED
  BY <1>3, <1>5 DEF Booked, Promise!Next

-----------------------------------------------------------------------------
(* Every step of the specification. *)

LEMMA CallIsBooked ==
  ASSUME IInv, CallApi
  PROVE  Booked
<1>1. CASE CallCheckSystemReady
  BY <1>1, CheckForgets DEF CallCheckSystemReady
<1>2. ASSUME pc = "idle", UNCHANGED <<wire, deviceVars, req_streams_, orphans>>
      PROVE  Booked
  BY <1>2, NothingHappens DEF deviceVars
<1>3. CASE ~CallCheckSystemReady
  BY <1>2, <1>3
  DEF CallApi, Call, CallGetAvailableStreams,
      CallGetPbMsgTypeOfStream, CallGetDestinationsOfStream,
      CallCreateReceiverForStream, CallAddDestinationToStream,
      CallDeleteDestinationFromStream, CallDeleteDestinationsFromStream,
      DropReceiver, BeginDestruction, ExitWithReceivers
<1> QED
  BY <1>1, <1>3

LEMMA ContinueIsBooked ==
  ASSUME IInv, Continue
  PROVE  Booked
<1> DEFINE Silent == /\ pc # "put"
                     /\ (wire' = Quiet) \/ wire' = wire \/ wire'.phase = "sent"
                     /\ UNCHANGED <<destinations, req_streams_, orphans>>
<1>1. ASSUME Silent PROVE Booked
  BY <1>1, NothingHappens
<1> HIDE DEF Silent
<1>2. CASE HandleSystem \/ HandleSystemInfo \/ HandleDatastreams
  <2>1. Silent
    BY <1>2, CheckRequest
    DEF Silent, HandleSystem, HandleSystemInfo, HandleDatastreams, Answered,
        deviceVars
  <2> QED
    BY <1>1, <2>1
<1>3. CASE CheckStreamTypeAvailable
  <2>1. CASE BeginCheck(op)
    BY <1>3, <2>1, CheckForgets DEF CheckStreamTypeAvailable
  <2>2. CASE ~BeginCheck(op)
    <3>1. Silent
      BY <1>3, <2>2 DEF Silent, CheckStreamTypeAvailable, deviceVars
    <3> QED
      BY <1>1, <3>1
  <2> QED
    BY <2>1, <2>2
<1>4. CASE LookUpType \/ SendQuery \/ HandleQuery \/ BeginDelete \/ SendDelete
             \/ NothingToDelete
  <2>1. Silent
    BY <1>4
    DEF Silent, LookUpType, SendQuery, HandleQuery, BeginDelete, SendDelete,
        NothingToDelete, Answered, Request, deviceVars
  <2> QED
    BY <1>1, <2>1
<1>5. CASE AddDestinationToStream \/ \E d \in Ports : BindReceiver(d)
  <2>1. PICK ds : pc = "body" /\ SendPut(ds)
    BY <1>5 DEF AddDestinationToStream, BindReceiver
  <2>2. Silent
    BY <2>1 DEF Silent, SendPut, Request, deviceVars
  <2> QED
    BY <1>1, <2>2
<1>6. CASE HandlePut
  BY <1>6, PutRecovers
<1>7. CASE HandleDelete \/ EraseWhileIterating
  <2>1. CASE req_streams_' # req_streams_
    BY <1>7, <2>1, ErasureIsBooked
  <2>2. CASE req_streams_' = req_streams_
    <3>1. Silent
      BY <1>7, <2>2 DEF Silent, HandleDelete, EraseWhileIterating, Answered,
                        deviceVars
    <3> QED
      BY <1>1, <3>1
  <2> QED
    BY <2>1, <2>2
<1>8. CASE NoReceiver \/ ReceiveFirstMessage \/ ReceiveTimesOut \/ ReceiveFails
             \/ HandleState
  <2>1. Silent
    BY <1>8, CheckRequest
    DEF Silent, NoReceiver, ReceiveFirstMessage, ReceiveTimesOut, ReceiveFails,
        HandleState, Answered, deviceVars
  <2> QED
    BY <1>1, <2>1
<1>9. CASE CleanUpDone \/ \E s \in Streams : CleanUpStream(s)
  <2>1. Silent
    BY <1>9 DEF Silent, CleanUpDone, CleanUpStream, deviceVars
  <2> QED
    BY <1>1, <2>1
<1> QED
  BY <1>2, <1>3, <1>4, <1>5, <1>6, <1>7, <1>8, <1>9 DEF Continue

LEMMA EveryStepIsBooked == IInv /\ OrphanInv /\ [Next]_vars => Booked
<1> SUFFICES ASSUME IInv, OrphanInv, [Next]_vars PROVE Booked
  OBVIOUS
<1>1. CASE CallApi \/ Continue
  BY <1>1, CallIsBooked, ContinueIsBooked
<1>2. CASE SensorAnswers \/ Timeout
  BY <1>2, AnswerIsBooked, TimeoutIsBooked
<1>3. CASE (\E rq \in late : LateRequest(rq)) \/ Environment
  BY <1>3, LateRequestIsBooked, EnvironmentIsBooked
<1>4. CASE Terminated \/ UNCHANGED vars
  <2>1. UNCHANGED <<wire, destinations, req_streams_, orphans>>
    BY <1>4 DEF Terminated, vars, deviceVars
  <2> QED
    BY <2>1, NoEntry DEF Acknowledged
<1> QED
  BY <1>1, <1>2, <1>3, <1>4 DEF Next

LEMMA BooksOpen == Init => Promise!Init
<1> SUFFICES ASSUME Init PROVE Served = {} /\ Held = {} /\ Lost = {}
  BY DEF Promise!Init
<1>1. \A s \in Streams : Tracked(s) = {} /\ Acknowledged(s) = {}
  BY QuietFields DEF Init, RcVisardInit, Listing, Tracked, Support, Acknowledged
<1> QED
  BY <1>1 DEF Init, RcVisardInit, Served, Held, Lost

\* No order of entries leaves something served that is neither held nor known
\* to be lost, or lost without being served: Balanced is inductive.
LEMMA BalanceStays == Promise!Balanced /\ Booked => Promise!Balanced'
<1> SUFFICES ASSUME Promise!Balanced, Booked PROVE Promise!Balanced'
  OBVIOUS
<1>1. ASSUME NEW P \in SUBSET (Streams \X Dests),
             Promise!Register(P) \/ Promise!Recover(P) \/ Promise!Erase(P)
               \/ Promise!ServeAbandoned(P) \/ Promise!Unserve(P)
      PROVE  Promise!Balanced'
  BY <1>1 DEF Promise!Balanced, Promise!Register, Promise!Recover,
              Promise!Erase, Promise!ServeAbandoned, Promise!Unserve
<1>2. ASSUME NEW P, NEW Q \in SUBSET P, Promise!LoseAnswer(P, Q)
      PROVE  Promise!Balanced'
  BY <1>2 DEF Promise!Balanced, Promise!LoseAnswer
<1>3. CASE Promise!Forget \/ UNCHANGED Promise!vars
  BY <1>3 DEF Promise!Balanced, Promise!Forget, Promise!vars
<1> QED
  BY <1>1, <1>2, <1>3 DEF Booked, Promise!Next

\* The program keeps the books of Ledger: what the sensor serves on its behalf
\* is held or lost, and lost in no other way than the three that Ledger names.
THEOREM KeepsTheBooks == Spec => ImplementsLedger /\ []Promise!Balanced
<1>1. Init => Promise!Init
  BY BooksOpen
<1>2. Promise!Init => Promise!Balanced
  BY DEF Promise!Init, Promise!Balanced
<1>3. IInv /\ Promise!Balanced /\ [Next]_vars => Booked
  BY EveryStepIsBooked DEF Promise!Balanced, OrphanInv
<1>4. Promise!Balanced /\ Booked => Promise!Balanced'
  BY BalanceStays
<1>5. Spec => []IInv
  BY Invariance
<1> QED
  BY <1>1, <1>2, <1>3, <1>4, <1>5, PTL
  DEF Spec, ImplementsLedger, Promise!Spec, Booked
=============================================================================
