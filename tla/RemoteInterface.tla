--------------------------- MODULE RemoteInterface ---------------------------
(***************************************************************************)
(* rc::dynamics::RemoteInterface and the TrackedDataReceivers it hands     *)
(* out, driven by one thread of a program, with the sensor of RcVisard at  *)
(* the other end of the wire.                                              *)
(*                                                                         *)
(* A call of the API is the record `op`; `pc` is where the call stands.    *)
(* Each REST call is a step that sends and a step that handles the answer, *)
(* so that the sensor and the network act in between.                      *)
(***************************************************************************)
EXTENDS RcVisard

CONSTANTS
  Ports,            \* destinations that receivers of this host bind
  UserDests,        \* destinations the program passes to the API itself
  Firmware,         \* <<major, minor>> of the sensor's image version
  MaxTracked        \* bound: entries of one destination in a stream's list

ASSUME RemoteInterfaceAssumption ==
  /\ Dests = Ports \cup UserDests
  /\ Firmware \in (0..99) \X (0..99)
  /\ MaxTracked \in Nat \ {0}

VARIABLES
  initialized_,     \* the last checkSystemReady() went through
  visard_version_,  \* in tenths, 0 until a check has read it
  avail_streams_,   \* stream names of the last check
  req_streams_,     \* req_streams_[s][d]: entries of d in the list of s
  receivers,        \* TrackedDataReceiver objects, each with a bound socket
  op,               \* the API call in progress
  todo,             \* destinations the call still has to send a DELETE for
  pc,               \* where the call stands
  orphans           \* ghost: destinations the sensor serves for us that no
                    \* entry of req_streams_ will ever get deleted

systemVars == <<initialized_, visard_version_, avail_streams_>>
callVars == <<op, todo, pc>>
vars == <<wire, late, deviceVars, systemVars, req_streams_, receivers,
          callVars, orphans>>

\* A list of destinations, its order left out: how often each one occurs.
DestList == [Dests -> Nat]
ShortList == [Dests -> 0..MaxTracked]
Listing(ds) == [d \in Dests |-> IF d \in ds THEN 1 ELSE 0]
Support(list) == {d \in Dests : list[d] > 0}
Tracked(s) == Support(req_streams_[s])

\* Slips: erase() without the test for end(); the whole list cleared.
EraseUnfound(list, gone) == [d \in Dests |-> list[d] - gone[d]]
EraseAll(list, gone) == Listing({})

\* find() and erase() of one entry of `list` for each entry of `gone`.
EraseEach(list, gone) ==
  [d \in Dests |-> IF list[d] > gone[d] THEN list[d] - gone[d] ELSE 0]

OpNames == {"none", "checkSystemReady", "getAvailableStreams",
            "getPbMsgTypeOfStream", "getDestinationsOfStream",
            "addDestinationToStream",
            "deleteDestinationFromStream", "deleteDestinationsFromStream",
            "createReceiverForStream", "~TrackedDataReceiver",
            "~RemoteInterface"}

\* stream, dests: the arguments; left: streams the clean-up has yet to visit.
Operation == [name: OpNames, stream: Streams \cup {None}, dests: DestList,
              left: SUBSET Streams]

NoOp == [name |-> "none", stream |-> None, dests |-> Listing({}), left |-> {}]

Receiver == [stream: Streams, dest: Ports]

\* The receiver that the call in progress constructs or destroys.
OpReceiver ==
  {r \in receivers : /\ op.name \in {"createReceiverForStream",
                                     "~TrackedDataReceiver"}
                     /\ r.stream = op.stream
                     /\ op.dests[r.dest] > 0}

Places == {"idle", "check", "body", "system", "systemInfo", "datastreams",
           "query", "put", "recv", "state", "delete", "cleanup",
           "exited", "crashed"}

Init ==
  /\ RcVisardInit
  /\ initialized_ = FALSE
  /\ visard_version_ = 0
  /\ avail_streams_ = {}
  /\ req_streams_ = [s \in Streams |-> Listing({})]
  /\ receivers = {}
  /\ op = NoOp
  /\ todo = Listing({})
  /\ pc = "idle"
  /\ orphans = [s \in Streams |-> {}]

-----------------------------------------------------------------------------
(* How a call ends. *)

\* The call returns to the program.  A destructor of a receiver ends with
\* close() of its socket, after the REST call of its body.
Return ==
  /\ receivers' = receivers \ (IF op.name = "~TrackedDataReceiver"
                               THEN OpReceiver ELSE {})
  /\ op' = NoOp
  /\ todo' = Listing({})
  /\ pc' = "idle"

\* Slip: the receiver is a plain DataReceiver, whose destructor only closes.
ThrowWithoutDelete ==
  /\ receivers' = receivers \ OpReceiver
  /\ op' = NoOp /\ todo' = Listing({}) /\ pc' = "idle"

\* Slip: the destructor of the receiver tries again until its DELETE succeeds.
ThrowAgain ==
  \/ /\ OpReceiver # {}
     /\ op' = [op EXCEPT !.name = "~TrackedDataReceiver"]
     /\ pc' = "check"
     /\ UNCHANGED <<receivers, todo>>
  \/ /\ OpReceiver = {} /\ op.name # "~RemoteInterface"
     /\ Return
  \/ /\ op.name = "~RemoteInterface" /\ pc' = "exited"
     /\ UNCHANGED <<receivers, op, todo>>

\* The call leaves by an exception.  createReceiverForStream() then destroys
\* the receiver it has built; a destructor catches the exception and goes on.
Throw ==
  \/ /\ OpReceiver # {} /\ op.name = "createReceiverForStream"
     /\ op' = [op EXCEPT !.name = "~TrackedDataReceiver"]
     /\ pc' = "check"
     /\ UNCHANGED <<receivers, todo>>
  \/ /\ op.name = "~RemoteInterface"
     /\ pc' = "exited"
     /\ UNCHANGED <<receivers, op, todo>>
  \/ /\ OpReceiver = {} \/ op.name # "createReceiverForStream"
     /\ op.name # "~RemoteInterface"
     /\ Return

\* checkSystemReady() returns false: an error for every caller but the program.
NotReady ==
  \/ op.name = "checkSystemReady" /\ Return
  \/ op.name # "checkSystemReady" /\ Throw

Answered(place) ==
  /\ pc = place
  /\ wire.phase = "answered"

-----------------------------------------------------------------------------
(* The program calls the API. *)

Call(name, s, list) ==
  /\ pc = "idle"
  /\ op' = [name |-> name, stream |-> s, dests |-> list, left |-> {}]
  /\ pc' = "check"
  /\ UNCHANGED <<wire, late, deviceVars, systemVars, req_streams_, receivers,
                 todo, orphans>>

CallGetAvailableStreams == Call("getAvailableStreams", None, Listing({}))

CallGetPbMsgTypeOfStream(s) == Call("getPbMsgTypeOfStream", s, Listing({}))

CallGetDestinationsOfStream(s) ==
  Call("getDestinationsOfStream", s, Listing({}))

CallAddDestinationToStream(s, d) ==
  /\ req_streams_[s][d] < MaxTracked
  /\ Call("addDestinationToStream", s, Listing({d}))

CallDeleteDestinationFromStream(s, d) ==
  Call("deleteDestinationFromStream", s, Listing({d}))

\* Any list, an empty one and one that repeats itself included.
CallDeleteDestinationsFromStream(s, list) ==
  Call("deleteDestinationsFromStream", s, list)

CallCreateReceiverForStream(s) ==
  Call("createReceiverForStream", s, Listing({}))

\* The program drops its last pointer to a receiver.
DropReceiver(r) ==
  Call("~TrackedDataReceiver", r.stream, Listing({r.dest}))

-----------------------------------------------------------------------------
(* checkSystemReady() *)

\* Slip: what is known of the sensor is forgotten, but not the lists.
BeginCheckKeepingLists(o) ==
  /\ initialized_' = FALSE /\ visard_version_' = 0 /\ avail_streams_' = {}
  /\ op' = o /\ pc' = "system"
  /\ wire' = Request("GET system", None, {})
  /\ UNCHANGED <<late, deviceVars, receivers, todo, req_streams_, orphans>>

\* Everything known about the sensor is forgotten, the requested streams too.
BeginCheck(o) ==
  /\ initialized_' = FALSE
  /\ visard_version_' = 0
  /\ avail_streams_' = {}
  /\ req_streams_' = [s \in Streams |-> Listing({})]
  /\ orphans' = [s \in Streams |->
                   orphans[s] \cup (Tracked(s) \cap destinations[s])]
  /\ op' = o
  /\ pc' = "system"
  /\ wire' = Request("GET system", None, {})
  /\ UNCHANGED <<late, deviceVars, receivers, todo>>

CallCheckSystemReady ==
  /\ pc = "idle"
  /\ BeginCheck([NoOp EXCEPT !.name = "checkSystemReady"])

\* stof() of the three characters that follow the v: of 1.10 it sees "1.1", of
\* 20.4 "20.".  Tenths stand for the float, which nothing between separates.
ReadVersion ==
  IF Firmware[1] > 9 THEN 10 * Firmware[1]
  ELSE 10 * Firmware[1]
         + (IF Firmware[2] > 9 THEN Firmware[2] \div 10 ELSE Firmware[2])

\* 502 means not ready; any other failure is thrown.  Success is followed by
\* a second GET of the same resource.
HandleSystem ==
  /\ Answered("system")
  /\ \/ /\ wire.code = 200
        /\ wire' = Request("GET system", None, {})
        /\ pc' = "systemInfo"
        /\ UNCHANGED <<receivers, op, todo>>
     \/ wire.code = 502 /\ wire' = Quiet /\ NotReady
     \/ wire.code \notin {200, 502} /\ wire' = Quiet /\ Throw
  /\ UNCHANGED <<late, deviceVars, systemVars, req_streams_, orphans>>

HandleSystemInfo ==
  /\ Answered("systemInfo")
  /\ \/ /\ wire.code = 200 /\ wire.ready
        /\ visard_version_' = ReadVersion
        /\ wire' = Request("GET datastreams", None, {})
        /\ pc' = "datastreams"
        /\ UNCHANGED <<receivers, op, todo>>
     \/ /\ wire.code = 200 /\ ~wire.ready
        /\ wire' = Quiet /\ NotReady /\ UNCHANGED visard_version_
     \/ /\ wire.code # 200
        /\ wire' = Quiet /\ Throw /\ UNCHANGED visard_version_
  /\ UNCHANGED <<late, deviceVars, initialized_, avail_streams_, req_streams_,
                 orphans>>

\* The streams are read, and a call that only needed the check goes on.
HandleDatastreams ==
  /\ Answered("datastreams")
  /\ wire' = Quiet
  /\ \/ /\ wire.code = 200
        /\ avail_streams_' = Offered
        /\ initialized_' = TRUE
        /\ \/ op.name = "checkSystemReady" /\ Return
           \/ /\ op.name # "checkSystemReady"
              /\ pc' = "check"
              /\ UNCHANGED <<receivers, op, todo>>
     \/ /\ wire.code # 200
        /\ Throw
        /\ UNCHANGED <<initialized_, avail_streams_>>
  /\ UNCHANGED <<late, deviceVars, visard_version_, req_streams_, orphans>>

\* checkStreamTypeAvailable(); getAvailableStreams() makes the first test only.
CheckStreamTypeAvailable ==
  /\ pc = "check"
  /\ \/ ~initialized_ /\ BeginCheck(op)
     \/ /\ initialized_
        /\ \/ op.name = "getAvailableStreams" /\ Return
           \/ /\ op.name # "getAvailableStreams"
              /\ op.stream \notin avail_streams_
              /\ Throw
           \/ /\ op.stream \in avail_streams_
              /\ pc' = "body"
              /\ UNCHANGED <<receivers, op, todo>>
        /\ UNCHANGED <<wire, late, deviceVars, systemVars, req_streams_,
                       orphans>>

-----------------------------------------------------------------------------
(* getPbMsgTypeOfStream(), getDestinationsOfStream(),                      *)
(* addDestinationToStream()                                                *)

\* The answer is in protobuf_map_.
LookUpType ==
  /\ pc = "body" /\ op.name = "getPbMsgTypeOfStream"
  /\ Return
  /\ UNCHANGED <<wire, late, deviceVars, systemVars, req_streams_, orphans>>

SendQuery ==
  /\ pc = "body" /\ op.name = "getDestinationsOfStream"
  /\ wire' = Request("GET", op.stream, {})
  /\ pc' = "query"
  /\ UNCHANGED <<late, deviceVars, systemVars, req_streams_, receivers, op,
                 todo, orphans>>

HandleQuery ==
  /\ Answered("query")
  /\ wire' = Quiet
  /\ \/ wire.code = 200 /\ Return
     \/ wire.code # 200 /\ Throw
  /\ UNCHANGED <<late, deviceVars, systemVars, req_streams_, orphans>>

SendPut(dests) ==
  /\ wire' = Request("PUT", op.stream, dests)
  /\ pc' = "put"
  /\ UNCHANGED <<late, deviceVars, systemVars, req_streams_, todo, orphans>>

AddDestinationToStream ==
  /\ pc = "body" /\ op.name = "addDestinationToStream"
  /\ SendPut(Support(op.dests))
  /\ UNCHANGED <<receivers, op>>

\* Slips: the acknowledged destination is not recorded; the status is ignored.
HandlePutUntracked ==
  /\ Answered("put") /\ wire' = Quiet
  /\ \/ wire.code = 200 /\ op.name = "addDestinationToStream" /\ Return
     \/ /\ wire.code = 200 /\ op.name = "createReceiverForStream"
        /\ pc' = "recv" /\ UNCHANGED <<receivers, op, todo>>
     \/ wire.code # 200 /\ Throw
  /\ UNCHANGED <<late, deviceVars, systemVars, req_streams_, orphans>>

HandlePutUnchecked ==
  /\ Answered("put") /\ wire' = Quiet
  /\ req_streams_' = [req_streams_ EXCEPT ![op.stream] =
                        [d \in Dests |-> @[d] + op.dests[d]]]
  /\ \/ op.name = "addDestinationToStream" /\ Return
     \/ /\ op.name = "createReceiverForStream"
        /\ pc' = "recv" /\ UNCHANGED <<receivers, op, todo>>
  /\ UNCHANGED <<late, deviceVars, systemVars, orphans>>

\* The destination is tracked once the sensor has acknowledged it.
HandlePut ==
  /\ Answered("put")
  /\ wire' = Quiet
  /\ \/ /\ wire.code = 200
        /\ req_streams_' =
             [req_streams_ EXCEPT ![op.stream] =
                [d \in Dests |-> @[d] + op.dests[d]]]
        /\ orphans' = [orphans EXCEPT ![op.stream] = @ \ Support(op.dests)]
        /\ \/ op.name = "addDestinationToStream" /\ Return
           \/ /\ op.name = "createReceiverForStream"
              /\ pc' = "recv"
              /\ UNCHANGED <<receivers, op, todo>>
     \/ /\ wire.code # 200
        /\ Throw
        /\ UNCHANGED <<req_streams_, orphans>>
  /\ UNCHANGED <<late, deviceVars, systemVars>>

-----------------------------------------------------------------------------
(* deleteDestinationFromStream(), deleteDestinationsFromStream() *)

\* Slip: what is in the list is deleted, not what the call was given.
BeginDeleteListed ==
  /\ pc = "body" /\ op.stream \in Streams
  /\ op.name \in {"deleteDestinationFromStream", "~TrackedDataReceiver",
                  "deleteDestinationsFromStream", "~RemoteInterface"}
  /\ todo' = req_streams_[op.stream]
  /\ pc' = "delete"
  /\ UNCHANGED <<wire, late, deviceVars, systemVars, req_streams_, receivers,
                 op, orphans>>

BeginDelete ==
  /\ pc = "body"
  /\ op.name \in {"deleteDestinationFromStream", "~TrackedDataReceiver",
                  "deleteDestinationsFromStream", "~RemoteInterface"}
  /\ todo' = op.dests
  /\ pc' = "delete"
  /\ UNCHANGED <<wire, late, deviceVars, systemVars, req_streams_, receivers,
                 op, orphans>>

\* Slip: visard_version_ >= 1.6.
DeletesTogetherFrom16 ==
  /\ op.name \in {"deleteDestinationsFromStream", "~RemoteInterface"}
  /\ visard_version_ >= 16

\* visard_version_ >= 1.600001: one request may name several destinations.
DeletesTogether ==
  /\ op.name \in {"deleteDestinationsFromStream", "~RemoteInterface"}
  /\ visard_version_ > 16

SendDelete ==
  /\ pc = "delete" /\ wire = Quiet
  /\ \/ /\ DeletesTogether
        /\ wire' = Request("DELETE", op.stream, Support(todo))
        /\ todo' = Listing({})
     \/ /\ ~DeletesTogether
        /\ \E d \in Support(todo) :
             /\ wire' = Request("DELETE", op.stream, {d})
             /\ todo' = [todo EXCEPT ![d] = @ - 1]
  /\ UNCHANGED <<late, deviceVars, systemVars, req_streams_, receivers, op,
                 pc, orphans>>

\* An old sensor is asked for nothing when the program's list is empty.
NothingToDelete ==
  /\ pc = "delete" /\ wire = Quiet
  /\ op.name = "deleteDestinationsFromStream"
  /\ ~DeletesTogether /\ todo = Listing({})
  /\ Return
  /\ UNCHANGED <<wire, late, deviceVars, systemVars, req_streams_, orphans>>

\* Slip: the entries are erased although a DELETE failed.
HandleDeleteUnchecked ==
  /\ Answered("delete") /\ op.name # "~RemoteInterface"
  /\ wire' = Quiet
  /\ \/ /\ todo # Listing({})
        /\ UNCHANGED <<req_streams_, receivers, op, todo, pc>>
     \/ /\ todo = Listing({})
        /\ req_streams_' = [req_streams_ EXCEPT ![op.stream] =
                              EraseEach(@, op.dests)]
        /\ Return
  /\ UNCHANGED <<late, deviceVars, systemVars, orphans>>

\* The entries are erased when every DELETE has been acknowledged; one that
\* fails leaves all of them in the list, the deleted ones included.
HandleDelete ==
  /\ Answered("delete")
  /\ wire' = Quiet
  /\ \/ /\ wire.code = 200 /\ todo # Listing({})
        /\ UNCHANGED <<req_streams_, receivers, op, todo, pc>>
     \/ /\ wire.code = 200 /\ todo = Listing({})
        /\ op.name # "~RemoteInterface"
        /\ req_streams_' = [req_streams_ EXCEPT ![op.stream] =
                              EraseEach(@, op.dests)]
        /\ Return
     \/ wire.code # 200 /\ Throw /\ UNCHANGED req_streams_
  /\ UNCHANGED <<late, deviceVars, systemVars, orphans>>

-----------------------------------------------------------------------------
(* createReceiverForStream() *)

\* getThisHostsIP() finds no address, or bind() finds the port in use.
NoReceiver ==
  /\ pc = "body" /\ op.name = "createReceiverForStream"
  /\ Throw
  /\ UNCHANGED <<wire, late, deviceVars, systemVars, req_streams_, orphans>>

\* The socket is bound before the sensor is asked to send to it.
BindReceiver(d) ==
  /\ pc = "body" /\ op.name = "createReceiverForStream"
  /\ d \notin {r.dest : r \in receivers}
  /\ req_streams_[op.stream][d] < MaxTracked
  /\ receivers' = receivers \cup {[stream |-> op.stream, dest |-> d]}
  /\ op' = [op EXCEPT !.dests = Listing({d})]
  /\ SendPut({d})

\* A datagram arrives, of whatever stream the sensor sends to this port.
ReceiveFirstMessage ==
  /\ pc = "recv"
  /\ \E r \in OpReceiver, s \in Streams : r.dest \in destinations[s]
  /\ Return
  /\ UNCHANGED <<wire, late, deviceVars, systemVars, req_streams_, orphans>>

\* No datagram for 5 s: the state of rc_dynamics decides what is thrown.
ReceiveTimesOut ==
  /\ pc = "recv"
  /\ wire' = Request("GET", None, {})
  /\ pc' = "state"
  /\ UNCHANGED <<late, deviceVars, systemVars, req_streams_, receivers, op,
                 todo, orphans>>

\* receive() throws: recvfrom() failed or the message type is not supported.
ReceiveFails ==
  /\ pc = "recv"
  /\ Throw
  /\ UNCHANGED <<wire, late, deviceVars, systemVars, req_streams_, orphans>>

\* DynamicsNotRunning, UnexpectedReceiveTimeout or the failure of the request.
HandleState ==
  /\ Answered("state")
  /\ wire' = Quiet
  /\ Throw
  /\ UNCHANGED <<late, deviceVars, systemVars, req_streams_, orphans>>

-----------------------------------------------------------------------------
(* The end of the program: ~RemoteInterface() and cleanUpRequestedStreams() *)

\* The static registry lets go of the interface; no receiver keeps it alive.
BeginDestruction ==
  /\ pc = "idle" /\ receivers = {}
  /\ op' = [NoOp EXCEPT !.name = "~RemoteInterface", !.left = Streams]
  /\ pc' = "cleanup"
  /\ UNCHANGED <<wire, late, deviceVars, systemVars, req_streams_, receivers,
                 todo, orphans>>

\* exit() with a receiver alive: its creator_ keeps the interface from being
\* destroyed, and nothing is cleaned up.
ExitWithReceivers ==
  /\ pc = "idle" /\ receivers # {}
  /\ pc' = "exited"
  /\ UNCHANGED <<wire, late, deviceVars, systemVars, req_streams_, receivers,
                 op, todo, orphans>>

\* deleteDestinationsFromStream() is given the list of req_streams_ itself.
CleanUpStream(s) ==
  /\ pc = "cleanup" /\ s \in op.left /\ Tracked(s) # {}
  /\ op' = [op EXCEPT !.stream = s, !.dests = req_streams_[s], !.left = @ \ {s}]
  /\ pc' = "check"
  /\ UNCHANGED <<wire, late, deviceVars, systemVars, req_streams_, receivers,
                 todo, orphans>>

CleanUpDone ==
  /\ pc = "cleanup"
  /\ \A s \in op.left : Tracked(s) = {}
  /\ pc' = "exited"
  /\ UNCHANGED <<wire, late, deviceVars, systemVars, req_streams_, receivers,
                 op, todo, orphans>>

\* The loop erases from the list it iterates over, and then advances an
\* iterator to an erased node, which is undefined: the process dies, or the
\* loop goes on from what is left of the node and erases one entry or more.
EraseWhileIterating ==
  /\ Answered("delete")
  /\ wire.code = 200 /\ todo = Listing({}) /\ op.name = "~RemoteInterface"
  /\ wire' = Quiet
  /\ \/ pc' = "crashed" /\ UNCHANGED req_streams_
     \/ /\ \E gone \in ShortList :
             /\ gone # Listing({})
             /\ \A d \in Dests : gone[d] <= req_streams_[op.stream][d]
             /\ req_streams_' = [req_streams_ EXCEPT ![op.stream] =
                                   EraseEach(@, gone)]
        /\ pc' = "cleanup"
  /\ UNCHANGED <<late, deviceVars, systemVars, receivers, op, todo, orphans>>

-----------------------------------------------------------------------------
(* The sensor and the network, and what they do to the ghost. *)

\* Orphans that the sensor still serves.
OrphansServed == [s \in Streams |-> orphans[s] \cap destinations'[s]]

SensorAnswers ==
  /\ AnswerRequest
  /\ orphans' = OrphansServed
  /\ UNCHANGED <<late, systemVars, req_streams_, receivers, callVars>>

\* A PUT that the sensor has served and whose answer is lost leaves an orphan.
Timeout ==
  /\ RequestTimesOut
  /\ orphans' =
       IF wire.phase = "answered" /\ wire.method = "PUT" /\ wire.code = 200
       THEN [orphans EXCEPT ![wire.stream] =
               @ \cup (wire.dests \cap destinations[wire.stream])]
       ELSE orphans
  /\ UNCHANGED <<systemVars, req_streams_, receivers, callVars>>

LateRequest(rq) ==
  /\ ServeLateRequest(rq)
  /\ orphans' = IF rq.method = "PUT"
                THEN [orphans EXCEPT ![rq.stream] = @ \cup rq.dests]
                ELSE OrphansServed
  /\ UNCHANGED <<systemVars, req_streams_, receivers, callVars>>

Environment ==
  /\ Boot \/ Reboot \/ ForeignHostActs
  /\ orphans' = OrphansServed
  /\ UNCHANGED <<systemVars, req_streams_, receivers, callVars>>

-----------------------------------------------------------------------------
CallApi ==
  \/ CallCheckSystemReady
  \/ CallGetAvailableStreams
  \/ \E s \in Streams :
       \/ CallGetPbMsgTypeOfStream(s)
       \/ CallGetDestinationsOfStream(s)
       \/ CallCreateReceiverForStream(s)
       \/ \E d \in UserDests : \/ CallAddDestinationToStream(s, d)
                               \/ CallDeleteDestinationFromStream(s, d)
       \/ \E list \in ShortList :
            /\ Support(list) \subseteq UserDests
            /\ CallDeleteDestinationsFromStream(s, list)
  \/ \E r \in receivers : DropReceiver(r)
  \/ BeginDestruction
  \/ ExitWithReceivers

\* The steps of the thread inside a call.
Continue ==
  \/ HandleSystem \/ HandleSystemInfo \/ HandleDatastreams
  \/ CheckStreamTypeAvailable
  \/ LookUpType \/ SendQuery \/ HandleQuery
  \/ AddDestinationToStream \/ HandlePut
  \/ BeginDelete \/ SendDelete \/ HandleDelete \/ NothingToDelete
  \/ NoReceiver
  \/ \E d \in Ports : BindReceiver(d)
  \/ ReceiveFirstMessage \/ ReceiveTimesOut \/ ReceiveFails \/ HandleState
  \/ \E s \in Streams : CleanUpStream(s)
  \/ CleanUpDone \/ EraseWhileIterating

\* The process is over; the sensor may live on.
Terminated ==
  /\ pc \in {"exited", "crashed"}
  /\ UNCHANGED vars

Next ==
  \/ CallApi
  \/ Continue
  \/ SensorAnswers
  \/ Timeout
  \/ \E rq \in late : LateRequest(rq)
  \/ Environment
  \/ Terminated

Spec == Init /\ [][Next]_vars

\* The thread runs, and the timeout of cpr bounds each REST call, whatever the
\* network does.
FairSpec == Spec /\ WF_vars(Continue) /\ WF_vars(Timeout)

-----------------------------------------------------------------------------
(* Properties *)

\* Every variable has the shape the code gives it.
TypeOK ==
  /\ RcVisardTypeOK
  /\ initialized_ \in BOOLEAN
  /\ visard_version_ \in {0, ReadVersion}
  /\ avail_streams_ \in {{}, Offered}
  /\ req_streams_ \in [Streams -> DestList]
  /\ receivers \subseteq Receiver
  /\ op \in Operation
  /\ todo \in DestList
  /\ pc \in Places
  /\ orphans \in [Streams -> SUBSET Dests]

\* The sensor has served the PUT of the call and its answer is on the way.
Acknowledged(s) ==
  IF wire.phase = "answered" /\ wire.method = "PUT" /\ wire.code = 200
     /\ wire.stream = s THEN wire.dests ELSE {}

\* The sensor streams to no destination that the interface has lost count of,
\* other than through the three ways of `orphans`: checkSystemReady() empties
\* req_streams_, a PUT is served after the caller has given it up, or its answer
\* is lost.  No failure of a DELETE, of several or of a receiver adds a fourth.
LeakAccounting ==
  \A s \in Streams :
    destinations[s] \subseteq Tracked(s) \cup orphans[s] \cup Acknowledged(s)

\* A list is non-empty only while the interface is initialised and its stream
\* available: so checkStreamTypeAvailable() inside cleanUpRequestedStreams()
\* neither throws nor empties req_streams_ under the loop that iterates over it.
TrackedImpliesInitialised ==
  \A s \in Streams :
    Tracked(s) # {} => initialized_ /\ s \in avail_streams_

\* Without faults the sensor sends a stream to a port of this host only while
\* a receiver of that stream has it bound: the socket is bound before the PUT
\* and closed after the DELETE, and a port reused by the next receiver never
\* carries the stream of the last one.
StreamedOnlyToBoundPort ==
  (Faults = {} /\ Ports \cap UserDests = {}) =>
    \A s \in Streams, d \in Ports :
      d \in destinations[s] => [stream |-> s, dest |-> d] \in receivers

\* A receiver the program holds is served by the sensor, whatever calls failed
\* or timed out meanwhile, unless the sensor restarts or a request arrives late.
LiveReceiverServed ==
  (Faults \cap {"late", "reboot"} = {} /\ Ports \cap UserDests = {}) =>
    \A r \in receivers \ OpReceiver : r.dest \in destinations[r.stream]

\* Without faults, a program that ends with no receiver left and whose
\* destructor ~RemoteInterface() survives leaves nothing but orphans behind.
ExitCleans ==
  (Faults = {} /\ pc = "exited" /\ receivers = {}) =>
    \A s \in Streams : destinations[s] \subseteq orphans[s]

\* What the interface holds: its entries, and one whose answer is on the way.
Held == {p \in Streams \X Dests :
           p[2] \in Tracked(p[1]) \cup Acknowledged(p[1])}

Lost == {p \in Streams \X Dests : p[2] \in orphans[p[1]]}

Promise == INSTANCE Ledger WITH Entries <- Streams \X Dests,
                                served <- Served, held <- Held, lost <- Lost

\* The lists, the requests on the wire, the late ones and every way a call may
\* fail keep the books of Ledger: entries are erased after the sensor has
\* dropped them, and lost in three ways only (remote_interface.h:70-72).
ImplementsLedger == Promise!Spec

\* An entry leaves a list only when checkSystemReady() empties it or when the
\* sensor does not serve it any more on the program's behalf.
ErasedOnlyIfGone ==
  [][\A s \in Streams : \A d \in Tracked(s) \ Tracked(s)' :
       pc' = "system" \/ d \notin destinations[s] \/ d \in orphans[s]]_vars

\* A receiver the program holds goes silent in two ways only, whatever calls
\* are made, fail, are retried or are given up meanwhile: the sensor restarts,
\* or it serves late a DELETE for the same destination that its caller has given
\* up, as one of an earlier receiver at the same port
\* (deleteDestinationFromStream() under the timeout of cpr).
SilencedOnlyLate ==
  [][Ports \cap UserDests = {} =>
       \A r \in receivers \ OpReceiver :
         r.dest \in destinations[r.stream] \ destinations'[r.stream] =>
           \/ power = "ready" /\ power' = "down"
           \/ \E rq \in late \ late' :
                /\ rq.method = "DELETE" /\ rq.stream = r.stream
                /\ r.dest \in rq.dests]_vars

\* 1.7 is the first version after 1.6, which is read as a float just above it.
NamesSeveral(rq) == rq.method = "DELETE" /\ Cardinality(rq.dests) > 1
UnderstandsSeveral == Firmware[1] > 1 \/ (Firmware[1] = 1 /\ Firmware[2] > 6)

\* A DELETE that names several destinations goes only to a sensor whose
\* firmware is newer than 1.6, whatever number is made of the three characters
\* that deleteDestinationsFromStream() compares (remote_interface.cc:310, 616):
\* a version may be taken for an older one, never for a newer.
SeveralOnlyIfUnderstood ==
  \A rq \in late \cup {wire} : NamesSeveral(rq) => UnderstandsSeveral

\* A program that ends without faults and with its receivers gone leaves no
\* destination behind, as the class comment promises (remote_interface.h:70).
DeletedOnDestruction ==
  (Faults = {} /\ pc = "exited" /\ receivers = {}) =>
    \A s \in Streams : destinations[s] = {}

\* The same promise where the destructor dies of the erased list node.
DestructorSurvives ==
  (Faults = {} /\ pc = "crashed") =>
    \A s \in Streams : destinations[s] \subseteq orphans[s]

\* Every call of the API comes back to the program, destructors and their
\* nested REST calls included, even from a sensor that never answers.
EveryCallReturns == pc # "idle" ~> pc \in {"idle", "exited", "crashed"}
=============================================================================
