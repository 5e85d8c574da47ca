# Verification of rc_dynamics_api

`rc_dynamics_api` is a C++ client library for the rc_dynamics module of
Roboception's rc_visard sensor. A program asks the sensor over a REST API to
stream messages by UDP to *destinations* ("ip:port"), receives them through
sockets, and controls the dynamics and SLAM services. This directory holds a
TLA+ model of the library, checked by TLC and, in part, proved with TLAPS.

## Inventory

| component | state it keeps | operations | what makes it correct |
|---|---|---|---|
| `RemoteInterface`, destinations of streams (`remote_interface.cc`) | `initialized_`, `visard_version_`, `avail_streams_`, `req_streams_`, `protobuf_map_` | `checkSystemReady`, `getAvailableStreams`, `getPbMsgTypeOfStream`, `getDestinationsOfStream`, `addDestinationToStream`, `deleteDestination(s)FromStream`, `createReceiverForStream`, destructor | no destination is left on the sensor that the library has lost count of; a port gets a stream only while it is bound for it; live receivers stay served; the destructor ends and cleans up |
| `TrackedDataReceiver` (`remote_interface.cc:187-218`) | socket, its destination, a pointer that keeps the interface alive | constructed by `createReceiverForStream`, destructor sends a DELETE | the DELETE precedes `close()`; a failed one loses nothing; it always ends |
| registry `remote_interfaces_` (221-237) | one interface per address until exit | `create` | one object per sensor |
| REST retries (103-178) | attempts | `cprGet/Put/DeleteWithRetry` | bounded attempts, an answer other than 429 is passed on at once |
| dynamics and SLAM services (331-534) | none | `start`, `stop`, `restart`, `startSlam`, `stopSlam`, `restartSlam`, `resetSlam`, `save/load/removeSlamMap`, `getState` | answers are read as the documentation says; errors are told from states |
| trajectory and transform (663-770) | none | `getSlamTrajectory`, `getCam2ImuTransform` | the sensor is asked for what the program means; an incomplete body is noticed |
| `DataReceiver` (`data_receiver.h`) | socket, timeout, parser table | constructor, `setTimeout`, `receive`, `receive(type)`, destructor | every socket is closed once; a message is of the type asked for |
| `TrajectoryTime` (`trajectory_time.*`) | two signed numbers | `RelativeToStart`, `RelativeToEnd`, `Absolute` | a time is relative to the end it was built for |
| network utilities (`net_utils.cc`) | none | `isValidIPAddress`, `isIPInRange`, `getThisHostsIP` | an address of the sensor's own network is found |
| `rcdynamics_stream` (`tools/`) | signal flag, receiver, counters | connect loop, autostart, receive loop, autostop | what it has started is stopped; it ends on a signal |
| CSV printing (`tools/csv_printing.h`) | header/line streams | header, line | a line has the columns of its header |

The program's thread calls `RemoteInterface`; that sends REST requests and waits
for each answer, at most `timeout_curl_` milliseconds. A receiver calls back into
the interface that created it from its destructor. The sensor sends datagrams to
whatever destinations it has. Nothing is persisted and the library has no threads
of its own: what is hard is what happens *between* two REST calls - on the
sensor, on the network, on other hosts - and the order of destructors,
exceptions and requests inside one call. `PROJECT.json` lists every such hazard
at its line.

## Modules

| module | models |
|---|---|
| `RcVisard` | the sensor and the REST exchange: open request or answer (`wire`), requests the client gave up on that still arrive (`late`), boot state (`power`), `destinations` per stream, capacity shared with other hosts (`foreign`). External to this repository: written from the answers `remote_interface.cc` handles |
| `RemoteInterface` | EXTENDS `RcVisard`; one interface with its receivers, driven by one thread |
| `MCRemoteInterface` | instances for TLC, symmetry |
| `Ledger` | abstract: what the interface promises about destinations, served, held and lost |
| `RemoteInterfaceProofs` | inductive invariant and theorems, checked by TLAPS, and that `RemoteInterface` implements `Ledger` |
| `ReceiverProofs` | EXTENDS `RemoteInterfaceProofs`; what becomes of receivers, their ports and the end of the program |
| `RestCall` | abstract: one REST call, served at most once, and what its end says about that |
| `RestRetry` | the retry loops with `handleCPRResponse()` over a network that loses and delays; implements `RestCall` (INSTANCE, identity mapping on `outcome` and `served`) |
| `RestRetryProofs` | its inductive invariant and the refinement, checked by TLAPS |
| `DynamicsService` | the services of rc_dynamics and rc_slam and how their answers are read; one exchange with the guarantees of `RestCall` |
| `TrajectoryTime` | EXTENDS `DynamicsService`; the times of `getSlamTrajectory()` and its request: operators over longs |
| `DynamicsServiceProofs` | EXTENDS `TrajectoryTime`; that answers are true of the sensor and queries ask for what is meant |
| `RcDynamicsStream` | EXTENDS `DynamicsService`; `main()` of the tool |
| `RcDynamicsStreamProofs` | EXTENDS `DynamicsServiceProofs`; its inductive invariant and theorems, and that the tool implements `DynamicsService` |
| `CsvPrinting` | header and line of a message: functions recursive over nested messages |
| `Recording` | EXTENDS `CsvPrinting`; the way of a stream's datagrams through the socket and `receive()` into the file of the tool |
| `Recursion` | definitions by recursion along a rank, for any domain: the equation they satisfy and induction; instantiated by `RecordingProofs` |
| `RecordingProofs` | that printing puts values under their names, its inductive invariant and theorems, checked by TLAPS |
| `NetUtils` | `isIPInRange()`: operators over addresses of four octets |
| `DataReceiver` | EXTENDS `NetUtils`; receivers from the search for a local address to the closed socket, one system call per step |
| `Reservation` | abstract: what the making of receivers promises about endpoints, held and told to the sensor |
| `DataReceiverProofs` | the range lemma, inductive invariant and theorems, checked by TLAPS, and that `DataReceiver` implements `Reservation` |
| `MCRestRetry`, `MCDynamicsService`, `MCRcDynamicsStream`, `MCDataReceiver`, `MCRecording` | instances for TLC |

### How RemoteInterface corresponds to the code

A call of the API is the record `op` (name, stream, destinations) and `pc` says
where it stands. `Call...` actions are the program's calls. Each REST call is a
step that puts a `Request` on the wire and a `Handle...` step that takes the
answer, so the sensor, other hosts, a reboot, a timeout or a late request may
come in between; everything between two REST calls is one step, as one thread
runs it.

* `checkStreamTypeAvailable()` opens every call (`pc = "check"`). If the interface
  is not initialised it runs `checkSystemReady()`: `BeginCheck` (all that is
  known is forgotten, `req_streams_` included), `HandleSystem`,
  `HandleSystemInfo`, `HandleDatastreams`.
* `addDestinationToStream()`: `AddDestinationToStream`, `HandlePut`. The entry is
  appended only after status 200.
* `deleteDestinationFromStream()`, `deleteDestinationsFromStream()`:
  `BeginDelete`, `SendDelete` (one request after firmware 1.6, one per destination
  before), `HandleDelete`. Entries are erased after the last 200. The program may pass any short
  list (`ShortList`), an empty one and one that repeats itself included: an old sensor is asked for
  nothing when the list is empty (`NothingToDelete`), a new one with an empty array.
* `createReceiverForStream()`: `NoReceiver` (no local address, or the socket
  cannot be bound), `BindReceiver`, `HandlePut`, then `ReceiveFirstMessage`,
  `ReceiveTimesOut` with `HandleState`, or `ReceiveFails`.
* `Throw` is every exception. In `createReceiverForStream()` it unwinds the
  receiver, whose destructor (`op.name = "~TrackedDataReceiver"`) does the DELETE
  and catches what that throws; `Return` from it closes the socket.
* `~RemoteInterface()`: `BeginDestruction`, `CleanUpStream`, the delete steps
  with the list itself as argument, `EraseWhileIterating`, `CleanUpDone`. The
  erasure in the loop is undefined behaviour: the process dies, or the loop
  continues after erasing one entry or more, equal ones one by one. The registry keeps the interface
  until exit, so the destructor runs only with no receiver left;
  `ExitWithReceivers` is the other way to end.

Lists of destinations are bags (`[Dests -> Nat]`): order is never observed.
`protobuf_map_` follows `avail_streams_` and is left out, so are the
bodies of answers beyond status, `ready` and firmware version. A request refused
with 429 stands for the five attempts of the retry loop.

`orphans` is a ghost variable: for each stream, the destinations the sensor serves
on this program's behalf that no entry of `req_streams_` stands for. It grows in
exactly three places: `BeginCheck` (the list is emptied), `Timeout` (the answer to
a PUT that was served is lost) and `LateRequest` (a PUT is served after the
client gave up). It shrinks when the sensor stops serving, or when the same
destination is tracked again.

`ReadVersion` is the version as `checkSystemReady()` reads it: three characters of the
match, so firmware 1.10 is taken for 1.1. `Firmware` is the pair of major and minor
version and readings are counted in tenths.

### How Ledger corresponds to RemoteInterface

`Ledger` has no calls, requests or answers: entries are `served`, `held` or `lost`.
The mapping is in `RemoteInterface`: `Served` is what the sensor does, `Held` the entries of
`req_streams_` and those of a PUT acknowledged but not yet handled, `Lost` the orphans.
Serving a PUT is `Register`, or `Recover` where the destination was an orphan;
`HandleDelete` is `Erase`; `BeginCheck` is `Forget`; a timeout after a PUT was served is
`LoseAnswer`; a late PUT is `ServeAbandoned`; DELETEs served and restarts are `Unserve`.
All else stutters. `Balanced`, that the three agree, follows from `Ledger` alone.

### How RestRetry corresponds to the code

The three wrappers differ in the HTTP method only. `Call` and `Send` are the
request of one iteration, `GoToSleep` the `continue` branch for 429, `WakeUp` the end
of the sleep with the next iteration or, after the last one, the `throw` behind the
loop, `TakeAnswer` the `return` and `handleCPRResponse()` in the caller. Status 0 is
cpr's when there was no answer. The sensor serves, refuses or never sees each
request in flight, and the answer may be lost.

### How DynamicsService corresponds to the code

`ReadEnteredState` is `callDynamicsService()` (and `resetSlam()`, the same code with
other states) from the parsed body to the value or exception, `ReadReturnCode` is
`callSlamService()`, `ReadState` is `getState()`; `Result` picks the one for the
call on the wire. A body is a record of the fields the code looks at, each present
or absent. JSON library 3.7.3 derives its exceptions from `std::exception`, hence
`json::type_error` passes every `catch` of these functions. A body that does not
parse has the same outcome and is left out. What the services do on the sensor is
external: `Entered` follows the comments of `remote_interface.h`, and node and SLAM
move on by themselves. `Interface` selects a sensor that is older than `State`
(`enteredState` only), as old, or newer (may report a state the library does not
know). `runner`, `did` and `unanswered` are ghosts: on whose behalf rc_dynamics
runs, what the sensor did with the open call, which calls got no answer.

The queries send a request and copy its body into a protobuf message (`ReadMessage`):
a body without the message is `null` to the JSON library and throws; one that lacks
fields (which ones is not distinguished) throws from `toProtobufFrame()`, which uses `at()`, and is undefined behaviour in
`toProtobufTrajectory()`, whose `[]` on a const object has a precondition
(`remote_interface.cc:685`, `692`). Both have no timeout by default.

Status 0 (`TimesOut`) is cpr's when it has no answer, because time is up or because the
connection was refused or reset; the latter ends calls without a timeout (`Untimed`) too, but nobody
can count on it, so fairness leaves them out. `checkSystemReady()` is one exchange here although it
sends three requests. It reads 502 as "not ready" from the first one only (`remote_interface.cc:289`); a
502 to a later one throws, which `Partial` tells by the answer the sensor has given already.

`TrajectoryTime` adds the arguments: `Negated` and `Signed` are the conversions between
`unsigned long` and `long` (two's complement, as every compiler of this code has),
`Time` is the constructor, `Request` the JSON arguments. What the sensor makes of a request
is external, after the comments of `trajectory_time.h` and `remote_interface.h:329`.
Without an offset, a time relative to the *other* end of the trajectory has no form of its own
(`Expressible`): a start at the end of the trajectory is sent as its beginning.
Relative times beyond the range of `long` turn into times relative to the other end;
`TrajectoryAsMeant` promises nothing about them.

### How RcDynamicsStream corresponds to the code

`pc` names the statement of `main()`: the connect loop (`connect`, `connecting`), `-l`
(`list`, `states`, `cam2imu`), autostart (`starting slam`, `starting`),
`createReceiverForStream()` (`open`, `adding`, `first`, `why`), the loop (`receiving`),
the receiver's destructor (`closing`), autostop (`stop`, `stopping`), and the
destruction of the static registry at exit (`cleaning`). `recheck` is the
`checkSystemReady()` that calls on an unconnected interface make by themselves. The
ends are `exited`, `crashed` (the undefined behaviour of the clean-up) and `aborted`
(an exception outside every try block). `ReceiveFails` is an exception of `receive()`, in the loop or for
the first message inside `createReceiverForStream()`, which then asks for no state. A signal only sets `caught_signal`. The
clock advances independently of the loop, which reads it at the end of each iteration.
The tool is one of the programs of `DynamicsService` (`ImplementsService`, under the identity on
the exchange and the sensor's services): that module's thread may make any call once it has the
answer to the last, and the tool makes some of them, in its order; its other requests, the clock
and the user stutter.
`checkSystemReady()` is one exchange here, the queries of `-l` are another: either
the one for the dynamics states or the one for SLAM, which a sensor may lack.

### How Recording and CsvPrinting correspond to the code

`Bind`, `AddDestination`, `FirstMessage` and `NoFirstMessage` are the second half of
`createReceiverForStream()`, `Record` is one iteration of the tool's loop with a message,
`Stop` any way out of it. `Receive` is `recvfrom()` and `ParseFromArray()`: the result of the
parser is not looked at, so a datagram longer than `_buffer` leaves what was read before its end, half of
a nested message or of a repeated field included, and one of another type whatever its bytes
happen to say (`Parsed`). Both come from `Fragments`, a parameter: any messages of the type. The sensor, the network and the
kernel's queue are external. `stray` is a destination that a killed program or a lost
DELETE left on the sensor and whose port the new socket has taken over.

A message type is a sequence of fields with a label and, for a message, its type; a message has
a sequence of values for each. The `.proto` files are not in this repository, so types, scalars and
messages are parameters, and `CsvAssumption` says what the protobuf compiler sees to: a type comes
after those of its fields (none of the sensor's types contains itself), and the values fit the fields. `Header` and `Line` are the two `operator<<`, recursive
functions on messages that share how a field is met (`Printed`). Names are paths instead of texts joined by
`_` (`csv_printing.h:111`, `119`), so that the model does not tell of two fields whose joined names happen to be
equal: a column's name in a file need not determine the field, and nothing here says that it does. A repeated
message cannot be given a header: `GetMessage()` asks for a singular field, and protobuf throws or aborts,
depending on its version and how it is built (`HeaderFails`). Either way the recording is over;
`RcDynamicsStream`, which goes on to the DELETE and to `stop()`, stands for the build that throws.

`ValuesUnderTheirNames` says what a file is good for: each value stands under its own name,
*if* the line's message and the one behind the header are of the stream, fit the buffer and
have the same shape. Each of these conditions is a hazard of the code that TLC
confirms when the condition is dropped.

### How DataReceiver corresponds to the code

`RemoteInterface` treats the making of a receiver as one step with two outcomes
(`BindReceiver`, `NoReceiver`). `DataReceiver` opens that step up. Each `pc` is the
system call a receiver is about to make; several receivers may be on their way at
once, as threads with interfaces of their own create them concurrently and share the
descriptors and ports of the process.

* `getThisHostsIP()` (the Linux branch): `ScanInterface` is one iteration of its loop,
  `Suitable` the conditions. The buffer takes each address of family `AF_INET` before
  the other conditions are looked at. `NoAddress` is the exception when the list is over.
  Loopback is not special. The list is what `getifaddrs()` returned and does not change.
* The constructor: `OpenSocket`, `NoSocket`, `Bind`, `BindFails`, `GetSockName`,
  `GetSockNameFails`. `port` is passed by reference through every layer; `port` of `Object`
  is that one variable, `port_` the member. `BindPorts` is the cast to `u_short`.
* `AddDestination` is the member initialiser of `TrackedDataReceiver` and the
  destination string of `createReceiverForStream()`; `Destroy` is the end of the object.
  Both strings are formatted from address and port and stand for them.
* What the kernel answers is external: any free descriptor, an error from any call, a free
  port of `HostPorts` for port 0, and no two sockets on one address and port
  (`Bindable`; the code sets no `SO_REUSEADDR`). A program may pass `create()` an address
  of another host, for which `bind()` fails.

`lost` is a ghost: descriptors of a constructor that threw without closing them.

`DataReceiver` implements `Reservation`: `held` is where the descriptor of a receiver is
bound, `told` is what the stream was given for it (nothing if the caller's port does not
fit 16 bits, see `DestinationIsBound`). `Bind` is `Take`, `AddDestination` is `Tell`,
`Destroy` and `GetSockNameFails` are `Release`, every other step stutters. That is what
`BindReceiver` of `RemoteInterface` takes for granted when it has a port bound for
one receiver only. `told` counts while the receiver has its place; what a failed DELETE
leaves on the sensor is the subject of `RemoteInterface`.

An address is four octets; `ipToUInt` is the arithmetic of the shifts, with `Octet` for
256. Netmasks are contiguous, as the kernel demands of an interface, so `~mask` is
`Size(mask) - 1` and `network & mask` clears a remainder. For masks with holes the
formula of the code (a range) and the intent (equal network parts) differ.

## Runs

| run | instance | shows |
|---|---|---|
| `no_faults` | 2 offered streams and 1 that is not, 2 ports, 2 destinations of the program, up to 2 equal entries, room for 3 destinations of which another host may take 1; firmware 1.7 | `TypeOK`, `StreamedOnlyToBoundPort`, `ExitCleans` |
| `old_firmware` | firmware 1.6, the last old one, 2 offered streams, 1 port, 2 destinations, timeouts, 429 and 404 | `LiveReceiverServed`, `TrackedImpliesInitialised`, `ErasedOnlyIfGone`, `LeakAccounting`, `SeveralOnlyIfUnderstood`, the inductive invariant `IInv` |
| `late_requests` | firmware 1.10, taken for 1.1, 1 stream, 1 port, 1 destination, one late request at a time, restarts of the sensor, fairness | `LeakAccounting`, `EveryCallReturns`, `ImplementsLedger`, `SilencedOnlyLate` |
| `check_forgets` | `no_faults` made smaller | violates `DeletedOnDestruction` |
| `clean_up_erases` | the same | violates `DestructorSurvives` |
| `retry` | 3 calls, 5 attempts each, fairness | `IInv` of `RestRetry`, `ImplementsRestCall`, `CallReturns` |
| `services` | a newer sensor, every fault, any sequence of calls and queries; longs of 3 bits | `AnswersAreTrue`, `TrajectoryAsMeant` |
| `missing_field` | the old service interface, and statuses without a state | violates `MissingStateUnderstood` |
| `tool` | a newer sensor, `-l`, `-a` and the imu stream, limits 0, 1 and none, timeouts, late requests, other programs, fairness | `TypeOK`, `LeftRunningAccounted`, `StreamLeftAccounted`, `ImplementsService`, `SignalEndsStreaming`, `TimeLimitEnds` |
| `receivers` | 2 receivers, 3 descriptors, every host with up to 2 of 14 interfaces (of 10 as the second), addresses of 4 bits | `IInv` and `ReservedInv` of `DataReceiver`, `DescriptorsAccounted`, `FirstReachingInterface`, `DestinationIsBound`, `ImplementsReservation` |
| `recording` | 2 datagrams of the stream and 1 stray one, 3 messages of 2 shapes, 4 fragments, buffers of 2, one kind of fault of the network | `TypeOK`, `ValuesUnderTheirNames`, `RecordingIsTheStream` |
| `tool_starts_after_signal` | mode `-a` | violates `NothingStartedAfterSignal` |

Why the bounds suffice: two streams (`no_faults`, `old_firmware`) are needed for a
port to change its stream and for the clean-up to have a second stream to reach;
two destinations for a multi-destination DELETE to fail half-way; two equal
entries for the list to be a bag; capacity 3 is reached with four possible
destinations per stream, and by the foreign host earlier. One late request and
one stream are enough for each single reordering with the calls that follow; two
late requests at once are not explored. The stream that is not offered exercises
the "not available" path. All model values inside `Offered`, `Ports` and `UserDests`
are interchangeable and the safety runs use symmetry; the runs with liveness do
not.

Bounds named in the modules: `Capacity`, `MaxForeign`, `MaxLate`, `MaxTracked`. Each
limits when a *call or an outside event* may happen, never what a step does.
`Faults` selects outside events: `"timeout"`, `"late"` (a timed-out request is served
afterwards), `"refuse"` (429), `"absent"` (404 to a DELETE of an unknown
destination), `"reboot"`.

For `RestRetry`, three calls let an abandoned request of one be served during
another and after the last; five attempts are the code's. For the tool, `MaxMsgs` and
`MaxTicks` are 1: the limits on messages and time are 0 (reached at once), 1 (reached
after one step) or unlimited; the loop only compares with its limit, so larger ones
add repetitions. At most one abandoned request of the tool is on its way
at a time. In `DynamicsService` nothing is counted.

For `DataReceiver`, two receivers are enough for a descriptor or a port to be taken by
another one between two steps, and a third descriptor for one to be lost before
that. With `Octet` 2 an address has 4 bits: the sensor's network has four addresses, of
which the instance has the first, the last and the sensor's own, one outside, and masks
for one address, four, and all. Two interfaces make a first and a second match, in
either order; a second one with the mask of everything would be found like one in the
sensor's network, so it is only tried as the first. `PortLimit` is 4, so the asked ports
0, 2 and 6 are: any, a port, and one that is cast to that port.

For `Recording`, `MaxSent` 2 and `MaxStray` 1 give three datagrams that reach `receive()`: one for
the first message, one for the header, one for a line after it. `MaxFlight` and
`QueueLimit` are 2, so that two can be swapped and a third finds the buffer full; `MaxKinds` 1 shows
each kind of network by itself. The type has a required and an optional field, a repeated scalar, a
nested and a repeated message. Two messages have one shape and differ in every value, so a line under the header of
another message is among the behaviours; the third has the repeated message and no header. The
fragments are nothing at all, a nested message and a repeated field that were read in part, and the
fields of a type the messages have nothing to do with.

`LongMax` 3 is a `long` of three bits: every sign, zero, the largest and the smallest value and the
ones an unsigned conversion moves. The theorem has them all.

Fairness of `RestRetry`: the thread runs and its sleeps end, and cpr times out. Of
`RcDynamicsStream`: the process runs, time passes, and cpr times out a request that
has a timeout; that `receive()` throws is possible, never assumed. `getCam2ImuTransform()` and the map services have none by default:
with `-l` a tool whose sensor never answers the former is not ended by a signal
(`rcdynamics_stream.cc:228`), and `SignalEndsStreaming` leaves that mode out. Nothing is assumed of the sensor.

Fairness of `RemoteInterface` (`FairSpec`): weak fairness of `Continue`, because the thread inside a call
is never suspended for ever, and of `Timeout`, because cpr ends each request after
`timeout_curl_` (5 s by default; with `requests_timeout = 0` cpr waits for ever and
the property does not hold). Nothing is assumed of the sensor, nor that the
program makes any call.

Each property of a passing run has a mutant in `PROJECT.json`: the definitions
commented "Slip" put a plausible error in place of one definition, and TLC then
finds the property violated.

### Findings

* `check_forgets` - `checkSystemReady()` clears `req_streams_`
  (`remote_interface.cc:283`). A program that adds a destination, calls
  `checkSystemReady()` again and exits leaves the destination registered, contrary
  to `remote_interface.h:70-72`.
* `clean_up_erases` - `cleanUpRequestedStreams()` (825) hands
  `req_streams_[stream]` to `deleteDestinationsFromStream()`, which erases from that
  list while iterating over it (646-652): undefined behaviour in the destructor;
  where it ends the process the remaining streams are never cleaned up.
* `missing_field` - `getState()` and `callDynamicsService()` catch `std::domain_error` and
  `std::logic_error`, which the JSON library does not throw. A status without a state
  never becomes `UNKNOWN` (`remote_interface.cc:339`), and the fallback to
  `enteredState` (391-398) is never reached: on a sensor with the old interface a
  service that has been served throws.
* `tool_starts_after_signal` - a signal during the connect loop is followed by
  `startSlam()` (194, 245).

## Proofs

`RemoteInterfaceProofs` proves, for every set of streams, ports and
destinations, every firmware version, every bound and every subset of faults:

* `Invariance`: `Spec => []IInv`
* `TypeCorrect`, `NoOtherLeak`, `CleanUpNeverRechecks`: `TypeOK`, `LeakAccounting` and
  `TrackedImpliesInitialised` in every reachable state
* `SeveralUnderstood`: `SeveralOnlyIfUnderstood`. `ReadVersion` may make an older version of the sensor's,
  never a newer one (`ReadAsNewer`), and only `SendDelete` puts a DELETE on the wire (`WhoSends`)
* `ErasedOnlyOnceGone`: the action property `ErasedOnlyIfGone`

They use `RcVisardAssumption` (offered streams are streams, `None` is not) and
`RemoteInterfaceAssumption` (ports are destinations). None of the properties is inductive by itself.
`IInv` adds: `WireInv`, the exchange on the wire is the one the place of the call
waits for (or the answer handled could be somebody else's); `CheckedInv`, beyond
the check the stream is available; `DeleteInv`, a destination whose DELETE is done
is gone, an orphan again through a late PUT, or still named by the open request
(or erasing the entries at the end would lose one); `DestructionInv`, the
destructor works on the very list of a stream that has entries, so that an
undefined erasure cannot drop anything not yet deleted. The proof has one lemma
per step, built on a few on how calls end (`EndOfCall`, `EndStep`) and on steps that leave
the lists alone (`LedgerUnchanged`, `MoveOn`).

* `KeepsTheBooks`: `Spec => ImplementsLedger` and `Balanced` under the mapping

The last takes `IInv` for granted in each state and has one lemma per action of `Ledger` that an action of `RemoteInterface` is mapped to.
The invariant is needed for `HandleDelete`: that erased entries are gone is `DeleteInv`.

`ReceiverProofs` proves, from the same assumptions, `ReceiversAsMeant`: `Spec => []ReceiverInv`, and from
it `PortsBound`, `ReceiversServed` and `ExitLeavesOrphans`, the invariants
`StreamedOnlyToBoundPort`, `LiveReceiverServed` and `ExitCleans`. Faults, where a property excludes
them, are excluded by its own hypothesis; everything else is arbitrary. `ReceiverInv` adds to `IInv`:

* `PlaceInv`, `ArgumentInv`, `RequestInv`: which calls come to which place, with which destinations,
  and that a call sends DELETEs for its own only. So a DELETE cannot name a receiver of
  another call, and only the PUT of `createReceiverForStream()` names a port, which it has bound.
* `PowerInv`: receivers exist only on a sensor that is ready. Without it `~TrackedDataReceiver()`
  could meet a 502, close its socket and leave its port served, without any fault.
* `LiveInv`: a receiver is served from the answer to its PUT on, two steps before the program holds it.
* `BoundInv`: the answers to `~TrackedDataReceiver()` are good, and what its DELETEs have not
  reached is still to do. `DeleteInv` of `IInv` does not suffice: it excuses orphans, and a port among
  the orphans would be served after `close()`.
* `VisitedInv`: the streams `cleanUpRequestedStreams()` is done with have only orphans left.

`OnlyLateSilences` is the action property `SilencedOnlyLate`: with every fault allowed, restarts and late
requests included, no step takes the stream from a receiver the program holds but a restart or a DELETE
that is served after its caller gave it up. It rests on `DeletesOwn`, what `ArgumentInv` and `RequestInv`
say of the DELETE on the wire. TLC confirms that the second exception is needed
(`remote_interface.cc:602`): the DELETE of a dropped receiver
times out, the next one binds its port, and then the sensor serves it.

Here a step is first reduced to its shape (`StepShape`: the call fails, succeeds, moves on,
binds, deletes, ...), and each part of the invariant is shown for each shape (`PlaceStep`, `LiveStep`,
`BoundStep`, ...) instead of for each of some thirty actions.

`DynamicsServiceProofs` proves `TrajectoryRequests` (any two times, for every `LongMax`, so for 64 bits as
for 3) and from it `TrajectoriesAsked`: `ServiceSpec => []TrajectoryAsMeant`. The assumption is that there
is a positive `long`. It also proves `ServiceAnswersTrue`: `ServiceSpec => []AnswersAreTrue`, for every
`Interface` and every set of faults. The inductive part says of an answer on the wire which body the
sensor can have given for what it did (`did`), because `AnswersAreTrue` speaks of the result only,
and a result is made from the body.

`RcDynamicsStreamProofs` proves, for every limit, mode, interface and set of faults, `ToolTypes`,
`ToolStopsDynamics` and `ToolEndsStream`. The inductive invariant `Account` adds to `TypeOK`: which
request each place of `main()` waits for (`CallsInPlace`), which requests can still be served late
(`LateInv`), what each place knows of options and receiver (`PlaceInv`), on whose behalf the sensor
streams at each place (`StreamInv`) and on whose behalf rc_dynamics runs (`RunInv`). The last two
theorems speak of ended tools and are not inductive: what excuses an end is decided
calls earlier.

`ToolUsesServices` proves the refinement `Spec => ImplementsService` step by step (`StepIsService`: which action
of `DynamicsService` each of the tool's steps is, or that it leaves the services alone). It needs
`ThreadWaits`, that `main()` stands still while a call is on the wire (or a second call would overtake it, which
`DynamicsService` does not allow), and `QuietInv`, that nothing of a finished call is left there. From it and `ServiceAnswersTrue`
follows `ToolHearsTheTruth`: `Spec => []AnswersAreTrue`, with no further look at the tool.

`RestRetryProofs` proves, for every set of calls and every number of attempts,
from `RestRetryAssumption` (at least one attempt, `None` is no call):

* `Invariance`: `Spec => []IInv`. `IInv` adds to the types `OneRequest` (a call has at
  most one unresolved request, none once served), `OutcomeInv` (each outcome against
  what the sensor did or may yet do) and `ThreadInv` (what a refusal, an answer or a
  sleep says of the current call). `served` alone is not inductive: that a
  retry cannot repeat a served request follows from there being nothing in
  flight after a 429.
* `Implementation`: `Spec => RestCall's Spec`. `StepSimulation` maps `Call` to `Begin`,
  `ServeRequest` to `Serve`, the ends of a call to `End`, all other steps to stuttering.

`DataReceiverProofs` proves, for every number of values of an octet, every host, any set of
receivers, descriptors and ports, from `NetUtilsAssumption` (an octet has a value) and
`DataReceiverAssumption` (interfaces have addresses, `NoFd` is no descriptor, ports the
kernel hands out fit and are not 0):

* `RangeIsNetwork`: `isIPInRange()` holds exactly if both addresses have the same
  quotient by the size of the network. The bounds of the code are multiples of that
  size (`Multiples`, `SameMultiple`, `Blocks`); that a number below 2^32 comes out of four
  octets is `AddressIsNumber`.
* `Invariance`: `Spec => []IInv`; `OnlyBindLeaks`, `AddressReachesSensor`,
  `DestinationsBound` follow. `IInv` adds `PlaceInv` (a receiver has a descriptor exactly
  from `socket()` on) and `EndpointInv` (from `bind()` on, what the kernel and the receiver
  know of the port): `DestinationIsBound` speaks of finished receivers only and says
  nothing of the steps that lead there. `DescriptorsAccounted` is needed by the
  others: the end of one receiver may not disturb where another one is bound.
* `SocketsReserved`: `ReservedInv` says between which calls a descriptor is bound and when the
  sensor has been told; without it `Bind` could be a second `Take`, or a failing
  `getsockname()` a `Release` of nothing.
* `ReservesEndpoints`: `Spec => ImplementsReservation`, by one lemma per step. The kernel
  compares with *open* descriptors and `Take` with everything *held*;
  `DescriptorsAccounted` makes them the same. `ToldOnce` (an endpoint belongs to one
  receiver, the sensor is told of that one) is proved of `Reservation` alone and carried over.

`RecordingProofs` proves, for all message types, messages and bounds and every behaviour of network,
kernel and stray stream, from `CsvAssumption` and `RecordingAssumption` (bounds are numbers, buffers
hold something, and `Message` has the messages the sensor sends and the fragments):

* `PrintingAgrees`: the line of a message stands under the header of any message of its shape, column
  by column.
* `TypesHold`, `ValuesStayUnderTheirNames`, `RecordingStaysTheStream`: `TypeOK`, `ValuesUnderTheirNames`
  and `RecordingIsTheStream` in every reachable state.

The first is an induction over nested messages. The prover's library states induction and recursion for
an operator that it cannot instantiate; `Recursion` has them with the domain, the rank and
the definition as constants, proves that the equation of the definition has a solution (`RecursionEquation`:
by induction there is one on the elements of each rank below the bound), and that a set closed
under the ranks is everything (`RankInduction`), and is instantiated once per recursive function with the number
of the message type as the rank. `FieldPrinted` is the case analysis over the ways a field is printed,
`FlattenRelated` carries it from the fields to the message.

`IInv` adds to the types: `Early` (before the PUT nothing of the stream is on its way, and the file is empty until
the loop), `Written` (line k is that of message k + 1, the header that of message 2, and a message read whole is
the one sent) and `Ordered`: without faults, what was read, what is in the socket's buffer and what is on the network make
up, in this order, the stream's datagrams from 1 to the last one sent, each once and by number, however a
stray stream comes between. `RecordingIsTheStream` speaks of the first part only and is not
inductive: that the next datagram read is the right one is known only from the buffer and the network.
The proof shows that sending appends to this sequence and that delivering and receiving leave it as it is
(`AllSent`, `AllDelivered`, `AllReceived`).

Only model-checked: `EveryCallReturns`, `CallReturns`, `SignalEndsStreaming` and `TimeLimitEnds` (liveness is
out of the prover's reach), and what the violation runs show.

## Not modelled

* Several interfaces in one program, and a second `create()` of an address, which returns the first
  interface with the first timeout. Interfaces share no state but the registry, a map that is
  only ever added to.
* `toProtobufTrajectory()` and `toProtobufFrame()` field by field, texts of numbers and messages,
  parsing of the command line: copies and formats without decisions that a property is about.
* `isValidIPAddress()` and the other text conversions of addresses; netmasks with holes (`Size`).
* The joined texts of column names and a protobuf that aborts (see `CsvPrinting` above).
* The Windows branches, the examples (straight-line programs whose calls are among those
  `RemoteInterface` allows), build files.
* `json.hpp`, a vendored library of 22875 lines, seven eighths of the C++ in the repository. What
  `remote_interface.cc` relies on (which exception it throws, what `[]` and `at()` do) is in
  `DynamicsService`. Of the library's and the tool's own lines, examples and licence headers included,
  the map names about 42 %.
* The network between sensor and host beyond datagrams and REST exchanges, and the sensor beyond
  what the code distinguishes.
