---------------------------- MODULE ReceiverProofs ---------------------------
(***************************************************************************)
(* What becomes of the receivers and of the program's end, for every set   *)
(* of streams, ports and destinations: a live receiver stays served, no    *)
(* stream goes to a port that is not bound for it, and an end without      *)
(* faults cleans up.                                                       *)
(***************************************************************************)
EXTENDS RemoteInterfaceProofs

UserCalls == {"addDestinationToStream", "deleteDestinationFromStream",
              "deleteDestinationsFromStream"}

DeleteCalls == {"deleteDestinationFromStream", "deleteDestinationsFromStream",
                "~TrackedDataReceiver", "~RemoteInterface"}

\* The call is about one receiver, which exists.
OwnReceiver ==
  \E r \in receivers : op.stream = r.stream /\ op.dests = Listing({r.dest})

\* Which calls come to which places.
PlaceInv ==
  /\ pc = "idle" => op.name = "none"
  /\ pc = "query" => op.name = "getDestinationsOfStream"
  /\ pc = "put" => op.name \in {"addDestinationToStream",
                                "createReceiverForStream"}
  /\ pc \in {"recv", "state"} => op.name = "createReceiverForStream"
  /\ pc = "delete" => op.name \in DeleteCalls
  /\ pc = "cleanup" => op.name = "~RemoteInterface"
  /\ pc = "exited" => op.name = "~RemoteInterface" \/ receivers # {}

\* Which destinations a call is about.
ArgumentInv ==
  /\ op.name \in UserCalls => Support(op.dests) \subseteq UserDests
  /\ op.name = "createReceiverForStream" =>
       IF pc \in {"put", "recv", "state"} THEN OwnReceiver
                                          ELSE op.dests = Listing({})
  /\ op.name = "~TrackedDataReceiver" => OwnReceiver
  /\ op.name = "~RemoteInterface" => receivers = {}
  /\ \A r \in receivers : r.stream \in Offered

\* A call sends DELETEs for its own destinations only.
RequestInv ==
  /\ pc = "delete" => /\ Support(todo) \subseteq Support(op.dests)
                      /\ wire.dests \subseteq Support(op.dests)
  /\ "late" \notin Faults => late = {}

\* Receivers are made on a sensor that is ready, and it remains so.
PowerInv ==
  /\ initialized_ => avail_streams_ = Offered
  /\ "reboot" \notin Faults =>
       \/ power = "ready"
       \/ /\ ~initialized_ /\ receivers = {}
          /\ ~(pc = "datastreams" /\ wire.phase = "answered" /\ wire.code = 200)

Calm == Faults \cap {"late", "reboot"} = {} /\ Ports \cap UserDests = {}

\* The sensor has served the PUT of the call.
PutServed ==
  \/ pc = "recv"
  \/ pc = "put" /\ wire.phase = "answered" /\ wire.code = 200

\* A receiver is served from the answer to its PUT on.
LiveInv ==
  Calm =>
    /\ \A r \in receivers \ OpReceiver : r.dest \in destinations[r.stream]
    /\ PutServed => Support(op.dests) \subseteq destinations[op.stream]

\* The destructor of a receiver succeeds, and the ports that the sensor sends
\* to are bound.
BoundParts ==
  /\ op.name = "~TrackedDataReceiver" /\ wire.phase = "answered" =>
       wire.code = 200 /\ (wire.method = "GET system" => wire.ready)
  /\ op.name = "~TrackedDataReceiver" /\ pc = "delete" =>
       \A d \in destinations[op.stream] :
         op.dests[d] > 0 /\ todo[d] = 0 =>
           d \in wire.dests /\ ~(wire.phase = "answered" /\ wire.code = 200)
  /\ \A s \in Streams, d \in Ports :
       d \in destinations[s] => [stream |-> s, dest |-> d] \in receivers

BoundInv == Faults = {} /\ Ports \cap UserDests = {} => BoundParts

\* Streams the destructor of the interface is done with.
Visited(s) ==
  \/ pc = "cleanup" /\ s \notin op.left
  \/ pc \in {"check", "body", "delete"} /\ s \notin op.left \cup {op.stream}
  \/ pc = "exited"

\* It leaves only orphans in them.
VisitedParts ==
  op.name = "~RemoteInterface" =>
    /\ wire.phase = "answered" => wire.code = 200
    /\ \A s \in Streams : Visited(s) => destinations[s] \subseteq orphans[s]

VisitedInv == Faults = {} => VisitedParts

ReceiverInv ==
  PlaceInv /\ ArgumentInv /\ RequestInv /\ PowerInv /\ LiveInv /\ BoundInv
    /\ VisitedInv
-----------------------------------------------------------------------------
(* How a call ends, and what its places and arguments are. *)

Back ==
  /\ pc' = "idle" /\ op' = NoOp
  /\ receivers' = receivers \ (IF op.name = "~TrackedDataReceiver"
                               THEN OpReceiver ELSE {})

Unwinds ==
  /\ pc' = "check" /\ op.name = "createReceiverForStream" /\ OpReceiver # {}
  /\ op'.name = "~TrackedDataReceiver"
  /\ op'.stream = op.stream /\ op'.dests = op.dests
  /\ receivers' = receivers

Over ==
  /\ pc' = "exited" /\ op.name = "~RemoteInterface"
  /\ UNCHANGED <<receivers, op>>

\* A call that fails goes back only if it has no receiver to destroy.
LEMMA Ending ==
  ASSUME TypeOK, Return \/ Throw \/ NotReady
  PROVE  /\ Back \/ Unwinds \/ Over
         /\ Return => Back
         /\ Throw \/ NotReady =>
              \/ Unwinds \/ Over
              \/ Back /\ (op.name = "createReceiverForStream" => OpReceiver = {})
<1>1. Return => Back
  BY DEF Return, Back
<1>2. Throw => \/ Unwinds \/ Over
               \/ Back /\ (op.name = "createReceiverForStream" => OpReceiver = {})
  <2>1. CASE OpReceiver # {} /\ op.name = "createReceiverForStream"
             /\ op' = [op EXCEPT !.name = "~TrackedDataReceiver"]
             /\ pc' = "check" /\ UNCHANGED <<receivers, todo>>
    BY <2>1 DEF TypeOK, Operation, Unwinds
  <2>2. CASE op.name = "~RemoteInterface" /\ pc' = "exited"
             /\ UNCHANGED <<receivers, op, todo>>
    BY <2>2 DEF Over
  <2>3. CASE (OpReceiver = {} \/ op.name # "createReceiverForStream") /\ Return
    BY <1>1, <2>3
  <2> QED
    BY <2>1, <2>2, <2>3 DEF Throw
<1> QED
  BY <1>1, <1>2 DEF NotReady

LEMMA EndArguments ==
  ASSUME TypeOK, PlaceInv, ArgumentInv, Back \/ Unwinds \/ Over
  PROVE  PlaceInv' /\ ArgumentInv'
<1>1. NoOp.name = "none"
  BY DEF NoOp
<1>2. CASE Back
  <2>1. op'.name = "none" /\ pc' = "idle" /\ receivers' \subseteq receivers
    BY <1>1, <1>2 DEF Back
  <2> QED
    BY <2>1 DEF ArgumentInv, PlaceInv, UserCalls
<1>3. CASE Unwinds
  <2>1. OwnReceiver
    <3>1. PICK r \in receivers : op.dests[r.dest] > 0
      BY <1>3 DEF Unwinds, OpReceiver
    <3>2. CASE op.dests = Listing({})
      BY <3>1, <3>2, RemoteInterfaceAssumption DEF TypeOK, Receiver, Listing
    <3> QED
      BY <1>3, <3>2 DEF Unwinds, ArgumentInv
  <2>2. OwnReceiver'
    BY <1>3, <2>1 DEF Unwinds, OwnReceiver
  <2> QED
    BY <1>3, <2>2 DEF Unwinds, PlaceInv, ArgumentInv, UserCalls
<1>4. CASE Over
  BY <1>4 DEF Over, PlaceInv, ArgumentInv, UserCalls
<1> QED
  BY <1>2, <1>3, <1>4

\* What a call of the program leaves alone.
Untouched ==
  UNCHANGED <<late, deviceVars, receivers>>

LEMMA CallShape ==
  ASSUME NEW name, NEW s, NEW list, Call(name, s, list)
  PROVE  /\ pc = "idle" /\ pc' = "check" /\ wire' = wire /\ Untouched
         /\ op'.name = name /\ op'.stream = s /\ op'.dests = list
BY DEF Call, Untouched

LEMMA CallApiPlaced ==
  ASSUME IInv, PlaceInv, ArgumentInv, CallApi
  PROVE  /\ PlaceInv' /\ ArgumentInv'
         /\ pc = "idle" /\ pc' \in {"check", "system", "cleanup", "exited"}
         /\ Untouched
         /\ wire' = wire \/ (wire'.phase = "sent" /\ op'.name = "checkSystemReady")
         /\ op'.name = "~RemoteInterface" =>
              /\ pc' = "cleanup" /\ op'.left = Streams
              /\ wire' = wire /\ orphans' = orphans
<1> DEFINE Post ==
      /\ PlaceInv' /\ ArgumentInv'
      /\ pc = "idle" /\ pc' \in {"check", "system", "cleanup", "exited"}
      /\ Untouched
      /\ wire' = wire \/ (wire'.phase = "sent" /\ op'.name = "checkSystemReady")
      /\ op'.name = "~RemoteInterface" =>
           /\ pc' = "cleanup" /\ op'.left = Streams
           /\ wire' = wire /\ orphans' = orphans
<1>1. ASSUME NEW name \in {"getAvailableStreams", "getPbMsgTypeOfStream",
                           "getDestinationsOfStream"}, NEW s,
             Call(name, s, Listing({}))
      PROVE  Post
  BY <1>1, CallShape DEF Untouched, PlaceInv, ArgumentInv, UserCalls
<1>2. ASSUME NEW s, Call("createReceiverForStream", s, Listing({}))
      PROVE  Post
  BY <1>2, CallShape DEF Untouched, PlaceInv, ArgumentInv, UserCalls
<1>3. ASSUME NEW name \in UserCalls, NEW s, NEW list,
             Support(list) \subseteq UserDests, Call(name, s, list)
      PROVE  Post
  <2>1. Support(op'.dests) \subseteq UserDests
    BY <1>3, CallShape
  <2>2. Support(op'.dests) = Support(op.dests)'
    BY DEF Support
  <2> QED
    BY <1>3, <2>1, <2>2, CallShape DEF Untouched, PlaceInv, ArgumentInv, UserCalls
<1>4. ASSUME NEW r \in receivers, DropReceiver(r)
      PROVE  Post
  <2>1. /\ pc = "idle" /\ pc' = "check" /\ wire' = wire /\ Untouched
        /\ op'.name = "~TrackedDataReceiver"
        /\ op'.stream = r.stream /\ op'.dests = Listing({r.dest})
    BY <1>4, CallShape DEF DropReceiver
  <2>2. OwnReceiver'
    BY <1>4, <2>1 DEF Untouched, OwnReceiver, Listing
  <2> QED
    BY <2>1, <2>2 DEF Untouched, PlaceInv, ArgumentInv, UserCalls
<1>5. CASE CallCheckSystemReady
  <2>1. pc = "idle" /\ pc' = "system" /\ Untouched
        /\ op' = [NoOp EXCEPT !.name = "checkSystemReady"]
        /\ wire' = Request("GET system", None, {})
    BY <1>5 DEF CallCheckSystemReady, BeginCheck, Untouched
  <2>2. op'.name = "checkSystemReady" /\ wire'.phase = "sent"
    BY <2>1, CheckRequest DEF NoOp
  <2> QED
    BY <2>1, <2>2 DEF Untouched, PlaceInv, ArgumentInv, UserCalls
<1>6. CASE BeginDestruction
  <2>1. /\ pc = "idle" /\ pc' = "cleanup" /\ wire' = wire /\ orphans' = orphans
        /\ receivers = {} /\ Untouched
        /\ op' = [NoOp EXCEPT !.name = "~RemoteInterface", !.left = Streams]
    BY <1>6 DEF BeginDestruction, Untouched
  <2>2. op'.name = "~RemoteInterface" /\ op'.left = Streams
    BY <2>1 DEF NoOp
  <2> QED
    BY <2>1, <2>2 DEF Untouched, PlaceInv, ArgumentInv, UserCalls
<1>7. CASE ExitWithReceivers
  BY <1>7 DEF ExitWithReceivers, Untouched, PlaceInv, ArgumentInv, UserCalls
<1>8. CASE \E s \in Streams, d \in UserDests :
             \/ CallAddDestinationToStream(s, d)
             \/ CallDeleteDestinationFromStream(s, d)
  <2>1. \A d \in UserDests : Support(Listing({d})) \subseteq UserDests
    BY ListingType, RemoteInterfaceAssumption
  <2> QED
    BY <1>3, <1>8, <2>1
    DEF CallAddDestinationToStream, CallDeleteDestinationFromStream, UserCalls
<1>9. CASE \E s \in Streams, list \in ShortList :
             /\ Support(list) \subseteq UserDests
             /\ CallDeleteDestinationsFromStream(s, list)
  BY <1>3, <1>9 DEF CallDeleteDestinationsFromStream, UserCalls
<1>10. CASE \/ CallGetAvailableStreams
            \/ \E s \in Streams : \/ CallGetPbMsgTypeOfStream(s)
                                  \/ CallGetDestinationsOfStream(s)
                                  \/ CallCreateReceiverForStream(s)
  BY <1>1, <1>2, <1>10
  DEF CallGetAvailableStreams, CallGetPbMsgTypeOfStream,
      CallGetDestinationsOfStream, CallCreateReceiverForStream
<1> QED
  BY <1>4, <1>5, <1>6, <1>7, <1>8, <1>9, <1>10 DEF CallApi

-----------------------------------------------------------------------------
(* The steps of the thread inside a call. *)

\* A call fails: for an answer, for what the check has found, or because
\* nothing could be bound or received.
Fails ==
  /\ wire' = Quiet /\ orphans' = orphans
  /\ \/ Unwinds \/ Over
     \/ Back /\ (op.name = "createReceiverForStream" => OpReceiver = {})
  /\ \/ op.name = "createReceiverForStream"
     \/ wire.phase = "answered" /\ wire.code # 200
     \/ pc = "systemInfo" /\ wire.phase = "answered" /\ ~wire.ready
     \/ pc = "check" /\ initialized_ /\ op.stream \notin avail_streams_

\* A call succeeds; one that deletes has had the last answer, or there was
\* nothing to delete.
Succeeds ==
  /\ wire' = Quiet /\ Back
  /\ op.name # "~RemoteInterface"
  /\ \/ op.name \notin DeleteCalls \cup {"createReceiverForStream"}
     \/ pc = "recv"
     \/ pc = "delete" /\ op.name = "deleteDestinationsFromStream"
     \/ /\ pc = "delete" /\ wire.phase = "answered" /\ wire.code = 200
        /\ todo = Listing({})

\* A call goes on with the same receivers and arguments.
MovesOn ==
  /\ UNCHANGED <<receivers, op>>
  /\ pc' \in {"system", "systemInfo", "datastreams", "check", "body", "query",
              "put", "state"}
  /\ wire'.phase # "answered"
  /\ pc' = "query" => op.name = "getDestinationsOfStream"
  /\ pc' = "put" => op.name = "addDestinationToStream"
  /\ pc' = "state" => op.name = "createReceiverForStream"
  /\ op.name = "~RemoteInterface" =>
       pc = "check" /\ pc' = "body" /\ orphans' = orphans
  /\ op.name = "createReceiverForStream" =>
       (pc \in {"put", "recv", "state"} <=> pc' \in {"put", "recv", "state"})

StartsReceiving ==
  /\ op.name = "createReceiverForStream"
  /\ pc = "put" /\ wire.phase = "answered" /\ wire.code = 200
  /\ pc' = "recv" /\ wire' = Quiet
  /\ UNCHANGED <<receivers, op>>

Deletes ==
  /\ UNCHANGED <<receivers, op, orphans>>
  /\ op.name \in DeleteCalls /\ pc' = "delete"
  /\ wire'.phase # "answered" /\ wire'.dests \subseteq Support(op.dests)
  /\ Support(todo') \subseteq Support(op.dests)
  /\ \/ pc = "body" /\ todo' = op.dests
     \/ /\ pc = "delete"
        /\ \A d \in Dests : op.dests[d] > 0 /\ todo'[d] = 0 =>
             \/ d \in wire'.dests
             \/ todo[d] = 0 /\ (d \in wire.dests =>
                                  wire.phase = "answered" /\ wire.code = 200)

LEMMA CheckShape ==
  ASSUME IInv, PlaceInv, ArgumentInv,
         \/ HandleSystem \/ HandleSystemInfo \/ HandleDatastreams
         \/ CheckStreamTypeAvailable
  PROVE  UNCHANGED <<late, deviceVars>> /\ (Fails \/ Succeeds \/ MovesOn)
<1>1. Return \/ Throw \/ NotReady =>
        /\ Return => Back
        /\ Throw \/ NotReady =>
             \/ Unwinds \/ Over
             \/ Back /\ (op.name = "createReceiverForStream" => OpReceiver = {})
  BY Ending DEF IInv
<1>2. wire.phase = "answered" => op.name # "~RemoteInterface" \/ pc = "delete"
  BY QuietFields DEF IInv, WireInv, DestructionInv
<1>3. \A m \in {"GET system", "GET datastreams"} :
        Request(m, None, {}).phase = "sent"
  BY CheckRequest
<1>4. CASE HandleSystem
  <2>1. /\ pc = "system" /\ wire.phase = "answered"
        /\ op.name # "~RemoteInterface"
        /\ UNCHANGED <<late, deviceVars, orphans>>
    BY <1>2, <1>4 DEF HandleSystem, Answered
  <2>2. CASE wire.code = 502 /\ wire' = Quiet /\ NotReady
    BY <1>1, <2>1, <2>2 DEF Fails
  <2>3. CASE wire.code \notin {200, 502} /\ wire' = Quiet /\ Throw
    BY <1>1, <2>1, <2>3 DEF Fails
  <2>4. CASE /\ wire' = Request("GET system", None, {})
             /\ pc' = "systemInfo" /\ UNCHANGED <<receivers, op, todo>>
    BY <1>3, <2>1, <2>4 DEF MovesOn
  <2> QED
    BY <1>4, <2>2, <2>3, <2>4 DEF HandleSystem
<1>5. CASE HandleSystemInfo
  <2>1. /\ pc = "systemInfo" /\ wire.phase = "answered"
        /\ op.name # "~RemoteInterface"
        /\ UNCHANGED <<late, deviceVars, orphans>>
    BY <1>2, <1>5 DEF HandleSystemInfo, Answered
  <2>2. CASE wire.code # 200 \/ ~wire.ready
    BY <1>1, <1>5, <2>1, <2>2 DEF HandleSystemInfo, Fails
  <2>3. CASE wire.code = 200 /\ wire.ready
    <3>1. /\ wire' = Request("GET datastreams", None, {})
          /\ pc' = "datastreams" /\ UNCHANGED <<receivers, op, todo>>
      BY <1>5, <2>3, ZenonT(30) DEF HandleSystemInfo
    <3> QED
      BY <1>3, <2>1, <3>1 DEF MovesOn
  <2> QED
    BY <2>2, <2>3
<1>6. CASE HandleDatastreams
  <2>1. /\ pc = "datastreams" /\ wire.phase = "answered" /\ wire' = Quiet
        /\ op.name # "~RemoteInterface"
        /\ UNCHANGED <<late, deviceVars, orphans>>
    BY <1>2, <1>6 DEF HandleDatastreams, Answered
  <2>2. CASE wire.code # 200 /\ Throw
    BY <1>1, <2>1, <2>2 DEF Fails
  <2>3. CASE op.name = "checkSystemReady" /\ Return
    BY <1>1, <2>1, <2>3 DEF Succeeds, DeleteCalls
  <2>4. CASE pc' = "check" /\ UNCHANGED <<receivers, op, todo>>
    BY <2>1, <2>4, QuietFields DEF MovesOn
  <2> QED
    BY <1>6, <2>1, <2>2, <2>3, <2>4 DEF HandleDatastreams
<1>7. CASE CheckStreamTypeAvailable
  <2>1. wire = Quiet
    BY <1>7, QuietPlaces DEF CheckStreamTypeAvailable, IInv
  <2>2. op.name = "~RemoteInterface" => initialized_
    BY <1>7 DEF CheckStreamTypeAvailable, IInv, DestructionInv,
                TrackedImpliesInitialised
  <2>3. CASE ~initialized_ /\ BeginCheck(op)
    BY <1>3, <1>7, <2>2, <2>3
    DEF CheckStreamTypeAvailable, BeginCheck, MovesOn
  <2>4. CASE initialized_
    BY <1>1, <1>7, <2>1, <2>4, QuietFields
    DEF CheckStreamTypeAvailable, Fails, Succeeds, MovesOn, DeleteCalls
  <2> QED
    BY <1>7, <2>3, <2>4 DEF CheckStreamTypeAvailable
<1> QED
  BY <1>4, <1>5, <1>6, <1>7

LEMMA BodyShape ==
  ASSUME IInv, PlaceInv, ArgumentInv,
         \/ LookUpType \/ SendQuery \/ HandleQuery
         \/ AddDestinationToStream \/ HandlePut \/ NoReceiver
         \/ ReceiveFirstMessage \/ ReceiveTimesOut \/ ReceiveFails
         \/ HandleState
  PROVE  /\ UNCHANGED <<late, deviceVars>>
         /\ Fails \/ Succeeds \/ MovesOn \/ StartsReceiving
<1>1. Return \/ Throw =>
        /\ Return => Back
        /\ Throw =>
             \/ Unwinds \/ Over
             \/ Back /\ (op.name = "createReceiverForStream" => OpReceiver = {})
  BY Ending DEF IInv
<1>2. pc \in {"body", "recv"} => wire = Quiet
  BY QuietBody
<1>3. \A m \in Methods, s \in Streams \cup {None}, ds \in SUBSET Dests :
        Request(m, s, ds).phase = "sent"
  BY ExchangeType
<1>4. CASE LookUpType
  BY <1>1, <1>2, <1>4 DEF LookUpType, Succeeds, DeleteCalls
<1>5. CASE SendQuery
  BY <1>5 DEF SendQuery, Request, MovesOn
<1>6. CASE HandleQuery
  BY <1>1, <1>6 DEF HandleQuery, Answered, Fails, Succeeds, PlaceInv, DeleteCalls
<1>7. CASE AddDestinationToStream
  BY <1>7 DEF AddDestinationToStream, SendPut, Request, MovesOn
<1>8. CASE HandlePut
  <2>1. pc = "put" /\ wire.phase = "answered" /\ wire' = Quiet
        /\ UNCHANGED <<late, deviceVars>>
    BY <1>8 DEF HandlePut, Answered
  <2>2. CASE wire.code # 200
    BY <1>1, <1>8, <2>1, <2>2 DEF HandlePut, Fails
  <2>3. CASE wire.code = 200
    <3>1. \/ op.name = "addDestinationToStream" /\ Return
          \/ /\ op.name = "createReceiverForStream" /\ pc' = "recv"
             /\ UNCHANGED <<receivers, op, todo>>
      BY <1>8, <2>3, ZenonT(30) DEF HandlePut
    <3> QED
      BY <1>1, <2>1, <2>3, <3>1 DEF Succeeds, StartsReceiving, DeleteCalls
  <2> QED
    BY <2>2, <2>3
<1>9. CASE NoReceiver \/ ReceiveFails
  BY <1>1, <1>2, <1>9 DEF NoReceiver, ReceiveFails, Fails, PlaceInv
<1>10. CASE ReceiveFirstMessage
  BY <1>1, <1>2, <1>10 DEF ReceiveFirstMessage, Succeeds, PlaceInv
<1>11. CASE ReceiveTimesOut
  BY <1>11 DEF ReceiveTimesOut, Request, MovesOn, PlaceInv
<1>12. CASE HandleState
  BY <1>1, <1>12 DEF HandleState, Answered, Fails, PlaceInv
<1> QED
  BY <1>4, <1>5, <1>6, <1>7, <1>8, <1>9, <1>10, <1>11, <1>12

LEMMA DeleteShape ==
  ASSUME IInv, PlaceInv, RequestInv,
         BeginDelete \/ SendDelete \/ HandleDelete \/ NothingToDelete
  PROVE  UNCHANGED <<late, deviceVars>> /\ (Fails \/ Succeeds \/ Deletes)
<1>1. CASE BeginDelete
  <2>1. wire = Quiet
    BY <1>1, QuietBody DEF BeginDelete
  <2> QED
    BY <1>1, <2>1, QuietFields
    DEF BeginDelete, Deletes, DeleteCalls, Quiet
<1>2. CASE SendDelete
  <2>1. /\ pc = "delete" /\ pc' = pc /\ wire = Quiet
        /\ UNCHANGED <<late, deviceVars, receivers, op, orphans>>
        /\ op.name \in DeleteCalls /\ Support(todo) \subseteq Support(op.dests)
    BY <1>2 DEF SendDelete, PlaceInv, RequestInv
  <2>2. CASE wire' = Request("DELETE", op.stream, Support(todo))
             /\ todo' = Listing({})
    <3>1. wire'.phase = "sent" /\ wire'.dests = Support(todo)
      BY <2>2 DEF Request
    <3>2. Support(todo') = {} /\ \A d \in Dests : d \notin Support(todo) => todo[d] = 0
      BY <2>2 DEF Support, Listing, IInv, TypeOK, DestList
    <3> QED
      BY <2>1, <3>1, <3>2, QuietFields DEF Deletes, Quiet
  <2>3. ASSUME NEW d \in Support(todo),
               wire' = Request("DELETE", op.stream, {d}),
               todo' = [todo EXCEPT ![d] = @ - 1]
        PROVE  Deletes
    <3>1. wire'.phase = "sent" /\ wire'.dests = {d}
      BY <2>3 DEF Request
    <3>2. Support(todo') \subseteq Support(todo)
          /\ \A e \in Dests \ {d} : todo'[e] = todo[e]
      BY <2>3 DEF Support, IInv, TypeOK, DestList
    <3> QED
      BY <2>1, <3>1, <3>2, QuietFields DEF Deletes, Quiet
  <2> QED
    BY <1>2, <2>1, <2>2, <2>3 DEF SendDelete
<1>3. CASE HandleDelete
  <2>1. /\ pc = "delete" /\ wire.phase = "answered" /\ wire' = Quiet
        /\ op.name \in DeleteCalls
        /\ UNCHANGED <<late, deviceVars, orphans>>
    BY <1>3 DEF HandleDelete, Answered, PlaceInv
  <2>2. CASE wire.code = 200 /\ UNCHANGED <<receivers, op, todo, pc>>
    BY <2>1, <2>2, QuietFields DEF Deletes, Quiet, RequestInv
  <2>3. CASE wire.code = 200 /\ todo = Listing({})
             /\ op.name # "~RemoteInterface" /\ Return
    BY <2>1, <2>3, Ending DEF Succeeds, IInv
  <2>4. CASE wire.code # 200 /\ Throw
    BY <2>1, <2>4, Ending DEF Fails, IInv
  <2> QED
    BY <1>3, <2>2, <2>3, <2>4 DEF HandleDelete
<1>4. CASE NothingToDelete
  BY <1>4, Ending DEF NothingToDelete, Succeeds, IInv
<1> QED
  BY <1>1, <1>2, <1>3, <1>4

\* A receiver is bound, and the sensor asked to send to it.
Binds(d) ==
  /\ op.name = "createReceiverForStream" /\ pc = "body" /\ pc' = "put"
  /\ d \notin {r.dest : r \in receivers}
  /\ receivers' = receivers \cup {[stream |-> op.stream, dest |-> d]}
  /\ op'.name = op.name /\ op'.stream = op.stream
  /\ op'.dests = Listing({d})
  /\ wire'.phase = "sent" /\ orphans' = orphans

LEMMA BindShape ==
  ASSUME IInv, NEW d \in Ports, BindReceiver(d)
  PROVE  UNCHANGED <<late, deviceVars>> /\ Binds(d)
<1>1. op'.name = op.name /\ op'.stream = op.stream
      /\ op'.dests = Listing({d})
  BY DEF BindReceiver, IInv, TypeOK, Operation
<1>2. wire'.phase = "sent"
  BY DEF BindReceiver, SendPut, Request
<1> QED
  BY <1>1, <1>2 DEF BindReceiver, SendPut, Binds

\* The destructor of the interface goes from stream to stream.
Visits(s) ==
  /\ pc = "cleanup" /\ s \in op.left /\ pc' = "check"
  /\ wire = Quiet /\ wire' = wire /\ receivers' = receivers
  /\ orphans' = orphans
  /\ op'.name = op.name /\ op'.left = op.left \ {s} /\ op'.stream = s

Ends ==
  /\ pc = "cleanup" /\ pc' = "exited"
  /\ UNCHANGED <<wire, receivers, op, req_streams_, orphans>>
  /\ wire = Quiet
  /\ \A s \in op.left : Tracked(s) = {}

Erases ==
  /\ pc = "delete" /\ wire.phase = "answered" /\ wire.code = 200
  /\ op.name = "~RemoteInterface" /\ todo = Listing({})
  /\ wire' = Quiet
  /\ pc' \in {"cleanup", "crashed"} /\ UNCHANGED <<receivers, op, orphans>>

LEMMA CleanUpShape ==
  ASSUME IInv,
         CleanUpDone \/ EraseWhileIterating \/ \E s \in Streams : CleanUpStream(s)
  PROVE  /\ UNCHANGED <<late, deviceVars>>
         /\ Ends \/ Erases \/ \E s \in Streams : Visits(s)
<1>1. CASE CleanUpDone
  BY <1>1, QuietPlaces DEF CleanUpDone, Ends, IInv
<1>2. CASE EraseWhileIterating
  BY <1>2 DEF EraseWhileIterating, Answered, Erases
<1>3. ASSUME NEW s \in Streams, CleanUpStream(s)
      PROVE  UNCHANGED <<late, deviceVars>> /\ Visits(s)
  <2>1. op'.name = op.name /\ op'.left = op.left \ {s} /\ op'.stream = s
    BY <1>3 DEF CleanUpStream, IInv, TypeOK, Operation
  <2> QED
    BY <1>3, <2>1, QuietPlaces DEF CleanUpStream, Visits, IInv
<1> QED
  BY <1>1, <1>2, <1>3

\* A step of the thread inside a call.
Inside ==
  /\ UNCHANGED <<late, deviceVars>>
  /\ \/ Fails \/ Succeeds \/ MovesOn \/ StartsReceiving \/ Deletes
     \/ \E d \in Ports : Binds(d)
     \/ Ends \/ Erases \/ \E s \in Streams : Visits(s)

\* A step of the sensor or of the network, or none.
Outside ==
  \/ SensorAnswers \/ Timeout \/ (\E rq \in late : LateRequest(rq))
  \/ Environment \/ UNCHANGED vars

LEMMA StepShape ==
  ASSUME IInv, PlaceInv, ArgumentInv, RequestInv, [Next]_vars
  PROVE  CallApi \/ Inside \/ Outside
<1>1. CASE Continue
  BY <1>1, CheckShape, BodyShape, DeleteShape, BindShape, CleanUpShape
  DEF Continue, Inside
<1> QED
  BY <1>1 DEF Next, Terminated, Outside

LEMMA OutsideFrame ==
  ASSUME IInv, Outside
  PROVE  /\ UNCHANGED <<systemVars, req_streams_, receivers, callVars>>
         /\ wire'.method = wire.method /\ wire'.stream = wire.stream
         /\ wire'.dests = wire.dests
         /\ OpReceiver' = OpReceiver
<1>1. CASE SensorAnswers
  <2>1. AnswerRequest /\ wire \in Exchange
    BY <1>1 DEF SensorAnswers, IInv, TypeOK, RcVisardTypeOK
  <2> QED
    BY <1>1, <2>1, AnswerEffect DEF SensorAnswers, OpReceiver, callVars
<1>2. CASE Timeout
  BY <1>2 DEF Timeout, RequestTimesOut, Answer, OpReceiver, callVars
<1>3. CASE (\E rq \in late : LateRequest(rq)) \/ Environment
  BY <1>3 DEF LateRequest, ServeLateRequest, Environment, Boot, Reboot,
              ForeignHostActs, OpReceiver, callVars
<1>4. CASE UNCHANGED vars
  BY <1>4 DEF vars, OpReceiver, callVars
<1> QED
  BY <1>1, <1>2, <1>3, <1>4 DEF Outside

LEMMA PlaceStep ==
  ASSUME IInv, PlaceInv, ArgumentInv, RequestInv, [Next]_vars
  PROVE  PlaceInv' /\ ArgumentInv'
<1>1. CASE CallApi
  BY <1>1, CallApiPlaced
<1>2. CASE Fails \/ Succeeds
  BY <1>2, EndArguments DEF Fails, Succeeds, IInv
<1>3. CASE MovesOn
  BY <1>3 DEF MovesOn, PlaceInv, ArgumentInv, OwnReceiver
<1>4. CASE StartsReceiving
  BY <1>4 DEF StartsReceiving, PlaceInv, ArgumentInv, OwnReceiver
<1>5. CASE Deletes
  BY <1>5 DEF Deletes, PlaceInv, ArgumentInv, OwnReceiver, DeleteCalls
<1>6. ASSUME NEW d \in Ports, Binds(d)
      PROVE  PlaceInv' /\ ArgumentInv'
  <2>1. op.stream \in Offered
    BY <1>6 DEF Binds, IInv, CheckedInv, TypeOK
  <2>2. OwnReceiver'
    <3>1. [stream |-> op.stream, dest |-> d] \in receivers'
      BY <1>6 DEF Binds
    <3>2. op'.stream = op.stream /\ op'.dests = Listing({d})
      BY <1>6 DEF Binds
    <3> QED
      BY <3>1, <3>2 DEF OwnReceiver, Listing
  <2> QED
    BY <1>6, <2>1, <2>2 DEF Binds, PlaceInv, ArgumentInv, UserCalls
<1>7. CASE Ends
  BY <1>7 DEF Ends, PlaceInv, ArgumentInv, UserCalls
<1>8. CASE Erases
  BY <1>8 DEF Erases, PlaceInv, ArgumentInv, UserCalls
<1>9. ASSUME NEW s \in Streams, Visits(s)
      PROVE  PlaceInv' /\ ArgumentInv'
  BY <1>9 DEF Visits, PlaceInv, ArgumentInv, UserCalls
<1>10. CASE Outside
  <2>1. UNCHANGED <<receivers, op, pc>>
    BY <1>10, OutsideFrame DEF callVars
  <2> QED
    BY <2>1 DEF PlaceInv, ArgumentInv, OwnReceiver, Support
<1> QED
  BY <1>1, <1>2, <1>3, <1>4, <1>5, <1>6, <1>7, <1>8, <1>9, <1>10, StepShape
  DEF Inside

LEMMA RequestStep ==
  ASSUME IInv, PlaceInv, ArgumentInv, RequestInv, [Next]_vars
  PROVE  RequestInv'
<1>1. CASE CallApi
  BY <1>1, CallApiPlaced DEF Untouched, RequestInv
<1>2. CASE Inside
  <2>1. Deletes \/ pc' # "delete"
    BY <1>2 DEF Inside, Fails, Succeeds, MovesOn, StartsReceiving, Binds, Ends,
                Erases, Visits, Back, Unwinds, Over
  <2>2. CASE Deletes
    <3>1. Support(op.dests)' = Support(op.dests)
      BY <2>2 DEF Deletes, Support
    <3>2. Support(todo)' = Support(todo')
      BY DEF Support
    <3> QED
      BY <1>2, <2>2, <3>1, <3>2 DEF Inside, Deletes, RequestInv
  <2> QED
    BY <1>2, <2>1, <2>2 DEF Inside, RequestInv
<1>3. CASE Outside
  <2>1. "late" \notin Faults => late' = {}
    BY <1>3 DEF Outside, RequestInv, SensorAnswers, Timeout, RequestTimesOut,
                LateRequest, Environment, Boot, Reboot, ForeignHostActs, vars
  <2> QED
    BY <1>3, <2>1, OutsideFrame DEF RequestInv, callVars, Support
<1> QED
  BY <1>1, <1>2, <1>3, StepShape

\* The check sets what it has read once the sensor has answered it.
LEMMA InitialisedStep ==
  ASSUME IInv, [Next]_vars
  PROVE  \/ UNCHANGED <<initialized_, avail_streams_>>
         \/ ~initialized_'
         \/ /\ pc = "datastreams" /\ wire.phase = "answered" /\ wire.code = 200
            /\ avail_streams_' = Offered
<1>1. CASE CallApi
  BY <1>1
  DEF CallApi, CallCheckSystemReady, BeginCheck, CallGetAvailableStreams,
      CallGetPbMsgTypeOfStream, CallGetDestinationsOfStream,
      CallCreateReceiverForStream, CallAddDestinationToStream,
      CallDeleteDestinationFromStream, CallDeleteDestinationsFromStream,
      DropReceiver, Call, BeginDestruction, ExitWithReceivers, systemVars
<1>2. CASE HandleDatastreams
  BY <1>2 DEF HandleDatastreams, Answered
<1>3. CASE CheckStreamTypeAvailable
  BY <1>3 DEF CheckStreamTypeAvailable, BeginCheck, systemVars
<1>4. CASE HandleSystem \/ HandleSystemInfo
  BY <1>4 DEF HandleSystem, HandleSystemInfo, systemVars
<1>5. CASE \/ LookUpType \/ SendQuery \/ HandleQuery
           \/ AddDestinationToStream \/ (\E d \in Ports : BindReceiver(d))
  BY <1>5 DEF LookUpType, SendQuery, HandleQuery, AddDestinationToStream,
              BindReceiver, SendPut, systemVars
<1>6. CASE HandlePut
  BY <1>6 DEF HandlePut, systemVars
<1>7. CASE BeginDelete \/ SendDelete \/ HandleDelete \/ NothingToDelete
  BY <1>7 DEF BeginDelete, SendDelete, HandleDelete, NothingToDelete, systemVars
<1>8. CASE \/ NoReceiver \/ ReceiveFirstMessage \/ ReceiveTimesOut
           \/ ReceiveFails \/ HandleState
  BY <1>8 DEF NoReceiver, ReceiveFirstMessage, ReceiveTimesOut, ReceiveFails,
              HandleState, systemVars
<1>9. CASE \/ (\E s \in Streams : CleanUpStream(s)) \/ CleanUpDone
           \/ EraseWhileIterating
  BY <1>9 DEF CleanUpStream, CleanUpDone, EraseWhileIterating, systemVars
<1>10. CASE Outside
  BY <1>10, OutsideFrame DEF systemVars
<1> QED
  BY <1>1, <1>2, <1>3, <1>4, <1>5, <1>6, <1>7, <1>8, <1>9, <1>10
  DEF Next, Continue, Terminated, Outside

LEMMA PowerStep ==
  ASSUME IInv, PlaceInv, ArgumentInv, RequestInv, PowerInv, [Next]_vars
  PROVE  PowerInv'
<1>1. initialized_' => avail_streams_' = Offered
  BY InitialisedStep DEF PowerInv
<1>2. SUFFICES ASSUME "reboot" \notin Faults
               PROVE  \/ power' = "ready"
                      \/ /\ ~initialized_' /\ receivers' = {}
                         /\ ~(/\ pc' = "datastreams" /\ wire'.phase = "answered"
                              /\ wire'.code = 200)
  BY <1>1 DEF PowerInv
<1>3. CASE power = "ready"
  <2>1. power' = "ready"
    <3>1. CASE CallApi \/ Inside
      BY <1>3, <3>1, CallApiPlaced DEF Inside, Untouched, deviceVars
    <3>2. CASE SensorAnswers
      BY <1>3, <3>2, AnswerEffect DEF SensorAnswers, IInv, TypeOK, RcVisardTypeOK
    <3>3. CASE Outside /\ ~SensorAnswers
      BY <1>2, <1>3, <3>3 DEF Outside, Timeout, RequestTimesOut, LateRequest,
         ServeLateRequest, Environment, Boot, Reboot, ForeignHostActs, vars,
         deviceVars
    <3> QED
      BY <3>1, <3>2, <3>3, StepShape
  <2> QED
    BY <2>1
<1>4. CASE power # "ready"
  <2>1. /\ ~initialized_ /\ receivers = {}
        /\ ~(pc = "datastreams" /\ wire.phase = "answered" /\ wire.code = 200)
    BY <1>2, <1>4 DEF PowerInv
  <2>2. ~initialized_'
    BY <2>1, InitialisedStep
  <2>3. receivers' = {}
    <3>1. CASE CallApi
      BY <2>1, <3>1, CallApiPlaced DEF Untouched
    <3>2. CASE Inside
      BY <2>1, <3>2 DEF Inside, Fails, Succeeds, MovesOn, StartsReceiving,
         Deletes, Binds, Ends, Erases, Visits, Back, Unwinds, Over, IInv,
         CheckedInv
    <3>3. CASE Outside
      BY <2>1, <3>3, OutsideFrame
    <3> QED
      BY <3>1, <3>2, <3>3, StepShape
  <2>4. ~(/\ pc' = "datastreams" /\ wire'.phase = "answered"
          /\ wire'.code = 200) \/ power' = "ready"
    <3>1. CASE CallApi
      BY <3>1, CallApiPlaced
    <3>2. CASE Inside
      BY <3>2 DEF Inside, Fails, Succeeds, MovesOn, StartsReceiving,
         Deletes, Binds, Ends, Erases, Visits, Back, Unwinds, Over
    <3>3. CASE SensorAnswers
      <4>1. SUFFICES ASSUME pc = "datastreams" PROVE wire'.code # 200
        BY <3>3, OutsideFrame DEF Outside, callVars
      <4>2. wire.phase = "sent"
        BY <3>3, AnswerEffect DEF SensorAnswers, IInv, TypeOK, RcVisardTypeOK
      <4>3. wire.method = "GET datastreams"
        BY <4>1, <4>2, QuietFields DEF IInv, WireInv
      <4> QED
        <5>1. CASE AnswerGet
          <6>1. wire' = Answer(wire, 502, FALSE)
            BY <1>4, <5>1 DEF AnswerGet
          <6> QED
            BY <6>1 DEF Answer
        <5>2. CASE RefuseRequest
          BY <5>2 DEF RefuseRequest, Answer
        <5> QED
          BY <3>3, <4>3, <5>1, <5>2
          DEF SensorAnswers, AnswerRequest, AnswerSystem, AnswerPut,
              AnswerDelete, AnswerUnavailable
    <3>4. CASE Outside /\ ~SensorAnswers
      BY <2>1, <3>4 DEF Outside, Timeout, RequestTimesOut, LateRequest,
         ServeLateRequest, Environment, Boot, Reboot, ForeignHostActs, vars,
         callVars, Answer
    <3> QED
      BY <3>1, <3>2, <3>3, <3>4, StepShape
  <2> QED
    BY <2>2, <2>3, <2>4
<1> QED
  BY <1>3, <1>4

-----------------------------------------------------------------------------
(* A receiver stays served. *)

LEMMA NoOpReceiver ==
  op.name \notin {"createReceiverForStream", "~TrackedDataReceiver"}
    => OpReceiver = {}
BY DEF OpReceiver

\* No receiver is at the destinations that the call deletes, but its own.
LEMMA DeletesOwn ==
  ASSUME IInv, PlaceInv, ArgumentInv, RequestInv,
         Ports \cap UserDests = {}, pc = "delete",
         NEW r \in receivers \ OpReceiver, r.stream = op.stream
  PROVE  r.dest \notin wire.dests
<1>1. wire.dests \subseteq Support(op.dests) /\ op.name \in DeleteCalls
      /\ r.dest \in Ports
  BY DEF RequestInv, PlaceInv, IInv, TypeOK, Receiver
<1>2. CASE op.name \in UserCalls
  BY <1>1, <1>2 DEF ArgumentInv
<1>3. CASE op.name = "~TrackedDataReceiver"
  BY <1>1, <1>3 DEF OpReceiver, Support
<1>4. CASE op.name = "~RemoteInterface"
  BY <1>4 DEF ArgumentInv
<1> QED
  BY <1>1, <1>2, <1>3, <1>4 DEF DeleteCalls, UserCalls

LEMMA LiveStep ==
  ASSUME IInv, PlaceInv, ArgumentInv, RequestInv, LiveInv, [Next]_vars
  PROVE  LiveInv'
<1> SUFFICES ASSUME Calm PROVE LiveInv'
  BY DEF LiveInv, Calm
<1> DEFINE Post ==
      /\ \A r \in receivers' \ OpReceiver' :
           r.dest \in destinations'[r.stream]
      /\ PutServed' => Support(op'.dests) \subseteq destinations'[op'.stream]
<1>1. Support(op'.dests) = Support(op.dests)'
  BY DEF Support
<1>2. SUFFICES Post
  BY <1>1 DEF LiveInv
<1>3. \A r \in receivers \ OpReceiver : r.dest \in destinations[r.stream]
  BY DEF LiveInv
<1>4. CASE CallApi
  <2>1. receivers' = receivers /\ destinations' = destinations
        /\ pc' \notin {"recv", "put"}
    BY <1>4, CallApiPlaced DEF Untouched, deviceVars
  <2>2. OpReceiver = {}
    BY <1>4, CallApiPlaced, NoOpReceiver DEF PlaceInv
  <2> QED
    BY <1>3, <2>1, <2>2 DEF PutServed
<1>5. CASE Inside
  <2>1. destinations' = destinations
    BY <1>5 DEF Inside, deviceVars
  <2>2. CASE Back /\ (op.name = "createReceiverForStream" =>
                        OpReceiver = {} \/ pc = "recv")
    <3>1. pc' = "idle"
      BY <2>2 DEF Back
    <3>2. ASSUME NEW r \in receivers'
          PROVE  r.dest \in destinations[r.stream]
      <4>1. r \in receivers /\ (op.name = "~TrackedDataReceiver" => r \notin OpReceiver)
        BY <2>2 DEF Back
      <4>2. CASE r \in OpReceiver
        <5>1. op.name = "createReceiverForStream" /\ pc = "recv"
          BY <2>2, <4>1, <4>2 DEF OpReceiver
        <5>2. r.dest \in Support(op.dests) /\ r.stream = op.stream
          BY <4>2, RemoteInterfaceAssumption
          DEF OpReceiver, Support, IInv, TypeOK, Receiver
        <5> QED
          BY <5>1, <5>2 DEF LiveInv, PutServed
      <4> QED
        BY <1>3, <4>1, <4>2
    <3> QED
      BY <2>1, <3>1, <3>2 DEF PutServed
  <2>3. CASE Unwinds \/ Over
    <3>1. receivers' = receivers /\ OpReceiver' = OpReceiver
          /\ pc' \in {"check", "exited"}
      BY <2>3 DEF Unwinds, Over, OpReceiver
    <3> QED
      BY <1>3, <2>1, <3>1 DEF PutServed
  <2>4. CASE MovesOn \/ StartsReceiving \/ Deletes
    <3>1. UNCHANGED <<receivers, op>> /\ OpReceiver' = OpReceiver
          /\ (PutServed' => PutServed)
      BY <2>4 DEF MovesOn, StartsReceiving, Deletes, OpReceiver, PutServed
    <3> QED
      BY <1>3, <2>1, <3>1 DEF LiveInv
  <2>5. ASSUME NEW d \in Ports, Binds(d)
        PROVE  Post
    <3>1. OpReceiver = {}
      <4>1. op.dests = Listing({})
        BY <2>5 DEF Binds, ArgumentInv
      <4> QED
        BY <4>1, RemoteInterfaceAssumption
        DEF OpReceiver, Listing, IInv, TypeOK, Receiver
    <3>2. [stream |-> op.stream, dest |-> d] \in OpReceiver'
      BY <2>5, RemoteInterfaceAssumption DEF Binds, OpReceiver, Listing
    <3>3. ~PutServed'
      BY <2>5 DEF Binds, PutServed
    <3> QED
      BY <1>3, <2>1, <2>5, <3>1, <3>2, <3>3 DEF Binds
  <2>6. CASE Ends \/ Erases \/ (\E s \in Streams : Visits(s))
    <3>1. /\ receivers' = receivers
          /\ op.name = "~RemoteInterface" /\ op'.name = "~RemoteInterface"
          /\ pc' \notin {"recv", "put"}
      BY <2>6 DEF Ends, Erases, Visits, PlaceInv
    <3>2. receivers = {}
      BY <3>1 DEF ArgumentInv
    <3> QED
      BY <3>1, <3>2 DEF PutServed
  <2>7. CASE Fails \/ Succeeds
    BY <2>2, <2>3, <2>7 DEF Fails, Succeeds, DeleteCalls, PlaceInv
  <2> QED
    BY <1>5, <2>4, <2>5, <2>6, <2>7 DEF Inside
<1>6. CASE SensorAnswers
  <2>1. /\ AnswerRequest /\ wire \in Exchange
        /\ UNCHANGED <<receivers, op, pc>> /\ OpReceiver' = OpReceiver
    BY <1>6, OutsideFrame
    DEF Outside, SensorAnswers, IInv, TypeOK, RcVisardTypeOK, callVars
  <2>2. wire.phase = "sent" /\ wire # Quiet
    BY <2>1, AnswerEffect, QuietFields
  <2>3. pc = "put" => /\ wire.method = "PUT" /\ wire.stream = op.stream
                      /\ wire.dests = Support(op.dests)
    BY <2>2 DEF IInv, WireInv
  <2>4. pc # "recv"
    BY <2>2, QuietBody
  <2>5. op.stream \in Streams \/ pc \notin {"put", "delete"}
    BY StreamOfCall
  <2>6. CASE /\ destinations' = destinations
             /\ wire.method \in {"PUT", "DELETE"} => wire'.code # 200
    BY <1>3, <2>1, <2>3, <2>4, <2>6 DEF PutServed
  <2>7. CASE /\ wire.method = "PUT"
             /\ destinations' =
                  [destinations EXCEPT ![wire.stream] = @ \cup wire.dests]
    <3>1. pc = "put"
      BY <2>2, <2>7 DEF IInv, WireInv
    <3> QED
      BY <1>3, <2>1, <2>3, <2>5, <2>7, <3>1
      DEF IInv, TypeOK, RcVisardTypeOK, Receiver
  <2>8. CASE /\ wire.method = "DELETE"
             /\ destinations' =
                  [destinations EXCEPT ![wire.stream] = @ \ wire.dests]
    <3>1. pc = "delete" /\ wire.stream = op.stream
      BY <2>2, <2>8 DEF IInv, WireInv
    <3>2. \A r \in receivers \ OpReceiver : r.dest \in destinations'[r.stream]
      BY <1>3, <2>5, <2>8, <3>1, DeletesOwn
      DEF Calm, IInv, TypeOK, RcVisardTypeOK, Receiver
    <3> QED
      BY <2>1, <3>1, <3>2 DEF PutServed
  <2> QED
    BY <2>1, <2>6, <2>7, <2>8, AnswerEffect
<1>7. CASE Outside /\ ~SensorAnswers
  <2>1. late = {}
    BY DEF RequestInv, Calm
  <2>2. destinations' = destinations
        /\ (wire' = wire \/ wire' = Answer(wire, 0, FALSE))
    BY <1>7, <2>1 DEF Outside, Timeout, RequestTimesOut, Environment, Boot,
       Reboot, ForeignHostActs, vars, deviceVars, Calm
  <2>3. UNCHANGED <<receivers, op, pc>> /\ OpReceiver' = OpReceiver
    BY <1>7, OutsideFrame DEF callVars
  <2>4. PutServed' => PutServed
    BY <2>2, <2>3 DEF PutServed, Answer
  <2> QED
    BY <1>3, <2>2, <2>3, <2>4 DEF LiveInv
<1> QED
  BY <1>4, <1>5, <1>6, <1>7, StepShape

-----------------------------------------------------------------------------
(* Without faults. *)

\* A sensor that is ready does what it is asked for.
LEMMA ReadyAnswers ==
  ASSUME IInv, PowerInv, Faults = {}, AnswerRequest,
         initialized_ \/ receivers # {}
  PROVE  /\ wire.method # "PUT" => wire'.code = 200
         /\ wire.method = "GET system" => wire'.ready
         /\ wire.method = "DELETE" =>
              destinations' = [destinations EXCEPT ![wire.stream] = @ \ wire.dests]
<1>1. power = "ready"
  BY DEF PowerInv
<1>2. CASE AnswerSystem
  <2>1. wire.method = "GET system" /\ wire' = Answer(wire, 200, TRUE)
    BY <1>1, <1>2 DEF AnswerSystem
  <2> QED
    BY <2>1 DEF Answer
<1>3. CASE AnswerGet
  <2>1. wire.method \in {"GET datastreams", "GET"}
        /\ wire' = Answer(wire, 200, FALSE)
    BY <1>1, <1>3 DEF AnswerGet
  <2> QED
    BY <2>1 DEF Answer
<1>4. CASE AnswerPut
  BY <1>4 DEF AnswerPut
<1>5. CASE AnswerDelete
  <2>1. /\ wire.method = "DELETE" /\ wire' = Answer(wire, 200, FALSE)
        /\ destinations' = [destinations EXCEPT ![wire.stream] = @ \ wire.dests]
    BY <1>5 DEF AnswerDelete
  <2> QED
    BY <2>1 DEF Answer
<1> QED
  BY <1>1, <1>2, <1>3, <1>4, <1>5
  DEF AnswerRequest, AnswerUnavailable, RefuseRequest

\* Of the outside, only an answer matters.
LEMMA OutsideCalm ==
  ASSUME IInv, RequestInv, Faults = {}, Outside, ~SensorAnswers
  PROVE  wire' = wire /\ destinations' = destinations
         /\ \A s \in Streams : orphans'[s] = orphans[s] \/
              orphans'[s] = orphans[s] \cap destinations[s]
<1>1. late = {} /\ ~Timeout
  BY DEF RequestInv, Timeout, RequestTimesOut
<1> QED
  BY <1>1 DEF Outside, Environment, Boot, Reboot, ForeignHostActs, vars,
              deviceVars, OrphansServed

LEMMA BoundStep ==
  ASSUME IInv, PlaceInv, ArgumentInv, RequestInv, PowerInv, BoundInv,
         [Next]_vars
  PROVE  BoundInv'
<1> SUFFICES ASSUME Faults = {}, Ports \cap UserDests = {}, BoundParts
             PROVE  BoundParts'
  BY DEF BoundInv
<1>1. \A s \in Streams, d \in Ports :
        d \in destinations[s] => [stream |-> s, dest |-> d] \in receivers
  BY DEF BoundParts
<1>2. op.name = "~TrackedDataReceiver" => receivers # {}
  BY DEF ArgumentInv, OwnReceiver
<1> DEFINE StillBound ==
      \A s \in Streams, d \in Ports :
        d \in destinations[s] => [stream |-> s, dest |-> d] \in receivers'
<1>3. ASSUME destinations' = destinations, wire'.phase # "answered",
             pc' # "delete", StillBound
      PROVE  BoundParts'
  <2>1. \A s \in Streams, d \in Ports :
          d \in destinations'[s] => [stream |-> s, dest |-> d] \in receivers'
    BY <1>3
  <2> QED
    BY <1>3, <2>1 DEF BoundParts
<1>4. receivers \subseteq receivers' => StillBound
  <2> SUFFICES ASSUME receivers \subseteq receivers', NEW s \in Streams,
                      NEW d \in Ports, d \in destinations[s]
               PROVE  [stream |-> s, dest |-> d] \in receivers'
    OBVIOUS
  <2>1. [stream |-> s, dest |-> d] \in receivers
    BY <1>1
  <2> QED
    BY <2>1
<1> HIDE DEF StillBound
<1>5. CASE CallApi
  <2>1. receivers' = receivers /\ destinations' = destinations
        /\ pc' # "delete" /\ pc = "idle"
        /\ (wire' = wire \/ wire'.phase = "sent")
    BY <1>5, CallApiPlaced DEF Untouched, deviceVars
  <2>2. wire'.phase # "answered"
    BY <2>1, QuietPlaces, QuietFields DEF IInv
  <2> QED
    BY <1>3, <1>4, <2>1, <2>2
<1>6. CASE Inside
  <2>1. destinations' = destinations
    BY <1>6 DEF Inside, deviceVars
  <2>2. wire'.phase # "answered"
    BY <1>6, QuietFields DEF Inside, Fails, Succeeds, MovesOn, StartsReceiving,
       Deletes, Binds, Ends, Erases, Visits
  <2>3. CASE Fails
    <3>1. op.name # "~TrackedDataReceiver"
      <4>1. SUFFICES ASSUME op.name = "~TrackedDataReceiver" PROVE FALSE
        OBVIOUS
      <4>2. op.stream \in Offered
        BY <4>1 DEF ArgumentInv, OwnReceiver
      <4>3. wire.phase = "answered" => wire.code = 200
        BY <4>1 DEF BoundParts
      <4>4. pc = "systemInfo" /\ wire.phase = "answered" => wire.ready
        BY <4>1, QuietFields DEF BoundParts, IInv, WireInv
      <4> QED
        BY <2>3, <4>1, <4>2, <4>3, <4>4 DEF Fails, PowerInv
    <3>2. receivers' = receivers /\ pc' # "delete"
      BY <2>3, <3>1 DEF Fails, Back, Unwinds, Over
    <3> QED
      BY <1>3, <1>4, <2>1, <2>2, <3>2
  <2>4. CASE Succeeds
    <3>1. pc' = "idle"
      BY <2>4 DEF Succeeds, Back
    <3>2. CASE op.name = "~TrackedDataReceiver"
      <4>1. /\ pc = "delete" /\ wire.phase = "answered" /\ wire.code = 200
            /\ todo = Listing({})
        BY <2>4, <3>2 DEF Succeeds, PlaceInv, DeleteCalls
      <4>2. ASSUME NEW r \in OpReceiver PROVE r.dest \notin destinations[r.stream]
        <5>1. /\ r.dest \in Dests /\ r.stream = op.stream /\ op.dests[r.dest] > 0
          BY RemoteInterfaceAssumption DEF OpReceiver, IInv, TypeOK, Receiver
        <5>2. todo[r.dest] = 0
          BY <4>1, <5>1 DEF Listing
        <5> QED
          BY <3>2, <4>1, <5>1, <5>2 DEF BoundParts
      <4>3. receivers' = receivers \ OpReceiver
        BY <2>4, <3>2 DEF Succeeds, Back
      <4>4. StillBound
        <5>1. SUFFICES ASSUME NEW s \in Streams, NEW d \in Ports,
                              d \in destinations[s],
                              [stream |-> s, dest |-> d] \in OpReceiver
                       PROVE  FALSE
          BY <1>1, <4>3 DEF StillBound
        <5> QED
          BY <4>2, <5>1
      <4> QED
        BY <1>3, <2>1, <2>2, <3>1, <4>4
    <3>3. CASE op.name # "~TrackedDataReceiver"
      <4>1. receivers' = receivers
        BY <2>4, <3>3 DEF Succeeds, Back
      <4> QED
        BY <1>3, <1>4, <2>1, <2>2, <3>1, <4>1
    <3> QED
      BY <3>2, <3>3
  <2>5. CASE Deletes
    <3>1. op' = op /\ StillBound
      BY <1>4, <2>5 DEF Deletes
    <3>2. ASSUME op.name = "~TrackedDataReceiver",
                 NEW d \in destinations[op.stream],
                 op.dests[d] > 0, todo'[d] = 0
          PROVE  d \in wire'.dests
      <4>1. d \in Dests
        BY <3>2, RcVisardAssumption DEF ArgumentInv, OwnReceiver, IInv, TypeOK,
                 RcVisardTypeOK
      <4>2. CASE pc = "body" /\ todo' = op.dests
        BY <3>2, <4>2
      <4>3. CASE /\ pc = "delete"
                 /\ \/ d \in wire'.dests
                    \/ todo[d] = 0 /\ (d \in wire.dests =>
                                         wire.phase = "answered" /\ wire.code = 200)
        BY <3>2, <4>3 DEF BoundParts
      <4> QED
        BY <2>5, <3>2, <4>1, <4>2, <4>3 DEF Deletes
    <3>3. op'.name = "~TrackedDataReceiver" =>
            \A d \in destinations'[op'.stream] :
              op'.dests[d] > 0 /\ todo'[d] = 0 => d \in wire'.dests
      BY <2>1, <3>1, <3>2
    <3>4. \A s \in Streams, d \in Ports :
            d \in destinations'[s] => [stream |-> s, dest |-> d] \in receivers'
      BY <2>1, <3>1 DEF StillBound
    <3> QED
      BY <2>2, <3>3, <3>4 DEF BoundParts
  <2>6. CASE MovesOn \/ StartsReceiving \/ Ends \/ Erases
             \/ (\E s \in Streams : Visits(s)) \/ (\E d \in Ports : Binds(d))
    <3>1. receivers \subseteq receivers' /\ pc' # "delete"
      BY <2>6 DEF MovesOn, StartsReceiving, Ends, Erases, Visits, Binds
    <3> QED
      BY <1>3, <1>4, <2>1, <2>2, <3>1
  <2> QED
    BY <1>6, <2>3, <2>4, <2>5, <2>6 DEF Inside
<1>7. CASE SensorAnswers
  <2>1. /\ AnswerRequest /\ wire \in Exchange
        /\ UNCHANGED <<receivers, op, todo, pc>>
    BY <1>7, OutsideFrame
    DEF Outside, SensorAnswers, IInv, TypeOK, RcVisardTypeOK, callVars
  <2>2. /\ wire.phase = "sent" /\ wire # Quiet
        /\ wire'.method = wire.method /\ wire'.dests = wire.dests
    BY <2>1, AnswerEffect, QuietFields
  <2>3. ASSUME op.name = "~TrackedDataReceiver"
        PROVE  wire'.code = 200 /\ (wire.method = "GET system" => wire'.ready)
    <3>1. wire.method # "PUT"
      BY <2>2, <2>3 DEF IInv, WireInv, PlaceInv
    <3> QED
      BY <1>2, <2>1, <2>3, <3>1, ReadyAnswers
  <2>4. ASSUME op.name = "~TrackedDataReceiver", pc = "delete",
               NEW d \in destinations'[op.stream],
               op.dests[d] > 0, todo[d] = 0
        PROVE  FALSE
    <3>1. wire.method = "DELETE" /\ wire.stream = op.stream
          /\ op.stream \in Streams
      BY <2>2, <2>4, StreamOfCall DEF IInv, WireInv
    <3>2. destinations' = [destinations EXCEPT ![op.stream] = @ \ wire.dests]
      BY <1>2, <2>1, <2>4, <3>1, ReadyAnswers
    <3>3. d \in destinations[op.stream] /\ d \notin wire.dests
      BY <2>4, <3>1, <3>2 DEF IInv, TypeOK, RcVisardTypeOK
    <3> QED
      BY <2>4, <3>3 DEF BoundParts
  <2>5. ASSUME NEW s \in Streams, NEW d \in Ports, d \in destinations'[s]
        PROVE  [stream |-> s, dest |-> d] \in receivers
    <3>1. CASE d \in destinations[s]
      BY <1>1, <3>1
    <3>2. CASE d \notin destinations[s]
      <4>1. wire.method = "PUT" /\ s = wire.stream /\ d \in wire.dests
        BY <2>1, <2>5, <3>2, AnswerEffect DEF IInv, TypeOK, RcVisardTypeOK
      <4>2. pc = "put" /\ s = op.stream /\ d \in Support(op.dests)
        BY <2>2, <4>1 DEF IInv, WireInv
      <4>3. op.name = "createReceiverForStream"
        BY <4>2 DEF PlaceInv, ArgumentInv, UserCalls
      <4>4. PICK r \in receivers :
              r.stream = op.stream /\ op.dests = Listing({r.dest})
        BY <4>2, <4>3 DEF ArgumentInv, OwnReceiver
      <4>5. d = r.dest
        BY <4>2, <4>4 DEF Support, Listing
      <4> QED
        BY <4>2, <4>4, <4>5 DEF IInv, TypeOK, Receiver
    <3> QED
      BY <3>1, <3>2
  <2> QED
    BY <2>1, <2>2, <2>3, <2>4, <2>5 DEF BoundParts
<1>8. CASE Outside /\ ~SensorAnswers
  <2>1. UNCHANGED <<wire, destinations, receivers, op, todo, pc>>
    BY <1>8, OutsideCalm, OutsideFrame DEF callVars
  <2>2. \A s \in Streams, d \in Ports :
          d \in destinations'[s] => [stream |-> s, dest |-> d] \in receivers'
    BY <1>4, <2>1 DEF StillBound
  <2> QED
    BY <2>1, <2>2 DEF BoundParts
<1> QED
  BY <1>5, <1>6, <1>7, <1>8, StepShape

\* The destructor of the interface asks for nothing but DELETEs.
LEMMA DestructorDeletes ==
  ASSUME IInv, op.name = "~RemoteInterface", wire # Quiet
  PROVE  /\ pc = "delete" /\ wire.method = "DELETE" /\ wire.stream = op.stream
         /\ op.stream \in Streams /\ initialized_
<1>1. pc = "delete" /\ wire.method = "DELETE" /\ wire.stream = op.stream
  BY DEF IInv, WireInv, DestructionInv
<1> QED
  BY <1>1, StreamOfCall DEF IInv, CheckedInv

LEMMA VisitedStep ==
  ASSUME IInv, PlaceInv, ArgumentInv, RequestInv, PowerInv, VisitedInv,
         [Next]_vars
  PROVE  VisitedInv'
<1> SUFFICES ASSUME Faults = {}, VisitedParts, op'.name = "~RemoteInterface"
             PROVE  /\ wire'.phase = "answered" => wire'.code = 200
                    /\ \A s \in Streams :
                         Visited(s)' => destinations'[s] \subseteq orphans'[s]
  BY DEF VisitedInv, VisitedParts
<1> DEFINE Post ==
      /\ wire'.phase = "answered" => wire'.code = 200
      /\ \A s \in Streams :
           Visited(s)' => destinations'[s] \subseteq orphans'[s]
<1>1. CASE CallApi
  <2>1. wire = Quiet /\ wire' = wire /\ pc' = "cleanup" /\ op'.left = Streams
    BY <1>1, CallApiPlaced, QuietPlaces DEF IInv
  <2> QED
    BY <2>1, QuietFields DEF Visited
<1>2. CASE Inside /\ op.name = "~RemoteInterface"
  <2>1. destinations' = destinations
    BY <1>2 DEF Inside, deviceVars
  <2>2. wire'.phase # "answered"
    BY <1>2, QuietFields DEF Inside, Fails, Succeeds, MovesOn, StartsReceiving,
       Deletes, Binds, Ends, Erases, Visits
  <2>3. ASSUME NEW s \in Streams, Visited(s)
        PROVE  destinations[s] \subseteq orphans[s]
    BY <1>2, <2>3 DEF VisitedParts
  <2>4. ~Fails
    <3>1. wire.phase = "answered" => pc = "delete" /\ wire.code = 200
      BY <1>2, DestructorDeletes, QuietFields DEF VisitedParts
    <3>2. pc = "check" => op.stream \in avail_streams_
      BY <1>2 DEF IInv, DestructionInv, TrackedImpliesInitialised
    <3> QED
      BY <1>2, <3>1, <3>2 DEF Fails
  <2>5. CASE MovesOn \/ Deletes
    <3>1. UNCHANGED <<op, orphans>> /\ pc \in {"check", "body", "delete"}
          /\ pc' \in {"body", "delete"}
      BY <1>2, <2>5 DEF MovesOn, Deletes
    <3> QED
      BY <2>1, <2>2, <2>3, <3>1 DEF Visited
  <2>6. CASE Ends
    <3>1. \A s \in Streams : destinations[s] \subseteq orphans[s]
      <4>1. SUFFICES ASSUME NEW s \in Streams, s \in op.left
                     PROVE  destinations[s] \subseteq orphans[s]
        BY <2>3, <2>6 DEF Ends, Visited
      <4>2. Tracked(s) = {} /\ Acknowledged(s) = {}
        BY <2>6, <4>1, NoneAcknowledged DEF Ends
      <4> QED
        BY <4>2 DEF IInv, LeakAccounting
    <3> QED
      BY <2>1, <2>2, <2>6, <3>1 DEF Ends
  <2>7. CASE Erases
    <3>1. op.stream \in Streams /\ Tracked(op.stream) = Support(op.dests)
          /\ Acknowledged(op.stream) = {}
      BY <1>2, <2>7, NoneAcknowledged DEF Erases, IInv, DestructionInv, Tracked
    <3>2. destinations[op.stream] \subseteq orphans[op.stream]
      BY <2>7, <3>1, AllDeleted DEF Erases, IInv, LeakAccounting
    <3>3. \A s \in Streams : s \notin op.left =>
            destinations[s] \subseteq orphans[s]
      BY <2>3, <2>7, <3>2 DEF Erases, Visited
    <3> QED
      BY <2>1, <2>2, <2>7, <3>3 DEF Erases, Visited
  <2>8. ASSUME NEW t \in Streams, Visits(t)
        PROVE  Post
    <3>1. \A s \in Streams : Visited(s)' => Visited(s)
      BY <2>8 DEF Visits, Visited
    <3> QED
      BY <2>1, <2>2, <2>3, <2>8, <3>1 DEF Visits
  <2> QED
    BY <1>2, <2>4, <2>5, <2>6, <2>7, <2>8
    DEF Inside, Succeeds, StartsReceiving, Binds
<1>3. CASE Inside /\ op.name # "~RemoteInterface"
  <2>1. ~Back
    <3>1. NoOp.name = "none"
      BY DEF NoOp
    <3> QED
      BY <3>1 DEF Back
  <2> QED
    BY <1>3, <2>1 DEF Inside, Fails, Succeeds, MovesOn, StartsReceiving,
       Deletes, Binds, Ends, Erases, Visits, Unwinds, Over, PlaceInv
<1>4. CASE SensorAnswers
  <2>1. /\ AnswerRequest /\ wire \in Exchange
        /\ UNCHANGED <<op, pc>>
        /\ \A s \in Streams : orphans'[s] = orphans[s] \cap destinations'[s]
    BY <1>4 DEF SensorAnswers, IInv, TypeOK, RcVisardTypeOK, callVars,
                OrphansServed
  <2>2. wire # Quiet
    BY <2>1, AnswerEffect, QuietFields
  <2>3. /\ wire.method = "DELETE" /\ wire.stream \in Streams /\ initialized_
    BY <2>1, <2>2, DestructorDeletes
  <2>4. wire'.code = 200 /\ destinations' =
          [destinations EXCEPT ![wire.stream] = @ \ wire.dests]
    BY <2>1, <2>3, ReadyAnswers
  <2>5. \A s \in Streams : destinations'[s] \subseteq destinations[s]
    BY <2>3, <2>4 DEF IInv, TypeOK, RcVisardTypeOK
  <2>6. \A s \in Streams : Visited(s)' = Visited(s)
    BY <2>1 DEF Visited
  <2> QED
    BY <2>1, <2>4, <2>5, <2>6 DEF VisitedParts
<1>5. CASE Outside /\ ~SensorAnswers
  <2>1. UNCHANGED <<wire, destinations, op, pc>>
    BY <1>5, OutsideCalm, OutsideFrame DEF callVars
  <2>2. \A s \in Streams : orphans'[s] = orphans[s] \/
          orphans'[s] = orphans[s] \cap destinations[s]
    BY <1>5, OutsideCalm
  <2>3. \A s \in Streams : Visited(s)' = Visited(s)
    BY <2>1 DEF Visited
  <2> QED
    BY <2>1, <2>2, <2>3 DEF VisitedParts
<1> QED
  BY <1>1, <1>2, <1>3, <1>4, <1>5, StepShape

-----------------------------------------------------------------------------
LEMMA ReceiverInvInit == Init => ReceiverInv
<1> SUFFICES ASSUME Init PROVE ReceiverInv
  OBVIOUS
<1>1. /\ pc = "idle" /\ op.name = "none" /\ receivers = {} /\ late = {}
      /\ wire.phase = "idle" /\ ~initialized_ /\ OpReceiver = {}
      /\ \A s \in Streams : destinations[s] = {}
  BY QuietFields DEF Init, RcVisardInit, NoOp, OpReceiver
<1> QED
  BY <1>1 DEF ReceiverInv, PlaceInv, ArgumentInv, RequestInv, PowerInv, LiveInv,
              PutServed, BoundInv, BoundParts, VisitedInv, VisitedParts, Visited,
              UserCalls

LEMMA ReceiverInvStep ==
  ASSUME IInv, ReceiverInv, [Next]_vars
  PROVE  ReceiverInv'
BY PlaceStep, RequestStep, PowerStep, LiveStep, BoundStep, VisitedStep
DEF ReceiverInv

\* The receivers and the end of the program are as ReceiverInv says in every
\* state that the interface, the sensor and the network can reach.
THEOREM ReceiversAsMeant == Spec => []ReceiverInv
<1>1. Init => ReceiverInv
  BY ReceiverInvInit
<1>2. IInv /\ ReceiverInv /\ [Next]_vars => ReceiverInv'
  BY ReceiverInvStep
<1> QED
  BY <1>1, <1>2, Invariance, PTL DEF Spec

\* Without faults the sensor sends a stream to a port of this host only while
\* a receiver of that stream has it bound, however many receivers are created,
\* dropped and created again at the same port (createReceiverForStream() binds
\* before its PUT, ~TrackedDataReceiver() closes after its DELETE).
THEOREM PortsBound == Spec => []StreamedOnlyToBoundPort
<1>1. ReceiverInv => StreamedOnlyToBoundPort
  BY DEF ReceiverInv, BoundInv, BoundParts, StreamedOnlyToBoundPort
<1> QED
  BY <1>1, ReceiversAsMeant, PTL

\* A receiver that createReceiverForStream() has returned is served until it is
\* dropped, whatever other calls of the program fail or time out, unless the
\* sensor restarts or serves a request late.
THEOREM ReceiversServed == Spec => []LiveReceiverServed
<1>1. ReceiverInv => LiveReceiverServed
  BY DEF ReceiverInv, LiveInv, Calm, LiveReceiverServed
<1> QED
  BY <1>1, ReceiversAsMeant, PTL

\* Without faults an end that ~RemoteInterface() survives leaves only orphans
\* on the sensor, whatever the erased list node makes of the loop.
THEOREM ExitLeavesOrphans == Spec => []ExitCleans
<1>1. ReceiverInv => ExitCleans
  BY DEF ReceiverInv, PlaceInv, VisitedInv, VisitedParts, Visited, ExitCleans
<1> QED
  BY <1>1, ReceiversAsMeant, PTL

\* Of all steps only an answer, a late request and a restart change what the
\* sensor serves.
LEMMA WhoSilences ==
  ASSUME IInv, PlaceInv, ArgumentInv, RequestInv, Outside,
         Ports \cap UserDests = {},
         NEW r \in receivers \ OpReceiver,
         r.dest \in destinations[r.stream] \ destinations'[r.stream]
  PROVE  \/ power = "ready" /\ power' = "down"
         \/ \E rq \in late \ late' : /\ rq.method = "DELETE"
                                    /\ rq.stream = r.stream
                                    /\ r.dest \in rq.dests
<1>1. r.stream \in Streams /\ destinations \in [Streams -> SUBSET Dests]
  BY DEF IInv, TypeOK, RcVisardTypeOK, Receiver
<1>2. CASE SensorAnswers
  <2>1. AnswerRequest /\ wire \in Exchange
    BY <1>2 DEF SensorAnswers, IInv, TypeOK, RcVisardTypeOK
  <2>2. wire.phase = "sent" /\ wire.method = "DELETE"
        /\ r.stream = wire.stream /\ r.dest \in wire.dests
    BY <1>1, <2>1, AnswerEffect
  <2>3. pc = "delete" /\ wire.stream = op.stream
    BY <2>2, QuietFields DEF IInv, WireInv
  <2> QED
    BY <2>2, <2>3, DeletesOwn
<1>3. CASE \E rq \in late : LateRequest(rq)
  <2>1. PICK rq \in late : ServeLateRequest(rq)
    BY <1>3 DEF LateRequest
  <2>2. rq \in late \ late'
    BY <2>1 DEF ServeLateRequest
  <2>3. rq.method = "DELETE" /\ rq.stream = r.stream /\ r.dest \in rq.dests
    BY <1>1, <2>1 DEF ServeLateRequest
  <2> QED
    BY <2>2, <2>3
<1>4. CASE Environment
  BY <1>4 DEF Environment, Boot, Reboot, ForeignHostActs
<1>5. CASE Timeout \/ UNCHANGED vars
  BY <1>5 DEF Timeout, RequestTimesOut, vars, deviceVars
<1> QED
  BY <1>2, <1>3, <1>4, <1>5 DEF Outside

\* What silences a receiver is a restart of the sensor or a DELETE that it
\* serves after its caller has given up: no call of the program does, with any
\* number of receivers, streams and faults (deleteDestinationFromStream(),
\* deleteDestinationsFromStream() and the destructors send only their own).
THEOREM OnlyLateSilences == Spec => SilencedOnlyLate
<1> DEFINE Step ==
      Ports \cap UserDests = {} =>
        \A r \in receivers \ OpReceiver :
          r.dest \in destinations[r.stream] \ destinations'[r.stream] =>
            \/ power = "ready" /\ power' = "down"
            \/ \E rq \in late \ late' :
                 /\ rq.method = "DELETE" /\ rq.stream = r.stream
                 /\ r.dest \in rq.dests
<1>1. IInv /\ ReceiverInv /\ [Next]_vars => [Step]_vars
  <2>1. SUFFICES ASSUME IInv, ReceiverInv, [Next]_vars,
                        Ports \cap UserDests = {},
                        NEW r \in receivers \ OpReceiver,
                        r.dest \in destinations[r.stream] \ destinations'[r.stream]
                 PROVE  \/ power = "ready" /\ power' = "down"
                        \/ \E rq \in late \ late' :
                             /\ rq.method = "DELETE" /\ rq.stream = r.stream
                             /\ r.dest \in rq.dests
    OBVIOUS
  <2>2. PlaceInv /\ ArgumentInv /\ RequestInv
    BY <2>1 DEF ReceiverInv
  <2>3. CASE CallApi \/ Inside
    <3>1. destinations' = destinations
      BY <2>1, <2>2, <2>3, CallApiPlaced DEF Untouched, Inside, deviceVars
    <3> QED
      BY <2>1, <3>1
  <2>4. CASE Outside
    BY <2>1, <2>2, <2>4, WhoSilences
  <2> QED
    BY <2>1, <2>2, <2>3, <2>4, StepShape
<1> QED
  BY <1>1, Invariance, ReceiversAsMeant, PTL DEF Spec, SilencedOnlyLate
=============================================================================
