-------------------------- MODULE RcDynamicsStream --------------------------
(***************************************************************************)
(* main() of tools/rcdynamics_stream.cc, from the parsed options to the    *)
(* end of the process, on the sensor of DynamicsService.  checkSystemReady *)
(* is one exchange ("check"), and so are the three state queries of -l     *)
(* ("state"); RemoteInterface has the detail of the stream calls.          *)
(***************************************************************************)
EXTENDS DynamicsService

CONSTANTS
  MaxMsgs,   \* bound: messages counted, and the largest -n
  MaxTicks,  \* bound: time measured, and the largest -t
  Modes      \* which of AllModes an instance explores

AllModes == {"list", "stream", "autostart", "imu"}

ASSUME RcDynamicsStreamAssumption ==
  /\ MaxMsgs \in Nat
  /\ MaxTicks \in Nat
  /\ Modes \subseteq AllModes

VARIABLES
  pc,             \* where main() stands
  options,        \* the command line
  caught_signal,
  initialized,    \* RemoteInterface::initialized_
  tracked,        \* whether req_streams_ holds the destination
  cnt_msgs,
  clock,          \* time since streaming started
  elapsed_secs,   \* the clock as last read
  exit_code,      \* what main() returned, or "none"
  failed          \* ghost: services whose call threw

mainVars == <<pc, options, caught_signal, initialized, tracked, cnt_msgs,
              clock, elapsed_secs, exit_code, failed>>
vars == <<serviceVars, mainVars>>

\* -l, or a stream; "imu" needs no rc_dynamics whether or not -a is given.
\* max_num and max_secs stand for max_num_recording and max_secs_recording,
\* Unlimited when the user did not set them; one limit is always set (line
\* 169).  With -l they mean nothing.
Unlimited == MaxMsgs + MaxTicks + 1
Options ==
  {o \in [mode: Modes, max_num: (0..MaxMsgs) \cup {Unlimited},
                       max_secs: (0..MaxTicks) \cup {Unlimited}] :
     /\ o.max_num # Unlimited \/ o.max_secs # Unlimited
     /\ o.mode = "list" => o.max_num = 0 /\ o.max_secs = Unlimited}

Autostart == options.mode = "autostart"
Ended == pc \in {"exited", "crashed", "aborted"}
Places ==
  {"connect", "connecting", "connected", "list", "recheck", "states",
   "cam2imu", "starting slam", "starting", "open", "adding", "first", "why",
   "receiving", "closing", "stop", "stopping", "cleaning", "exited",
   "crashed", "aborted"}

TypeOK ==
  /\ ServiceTypeOK
  /\ pc \in Places
  /\ options \in Options
  /\ caught_signal \in BOOLEAN
  /\ initialized \in BOOLEAN
  /\ tracked \in BOOLEAN
  /\ cnt_msgs \in 0..MaxMsgs
  /\ options.max_num # Unlimited => cnt_msgs <= options.max_num
  /\ clock \in 0..MaxTicks
  /\ elapsed_secs \in 0..clock
  /\ exit_code \in {"none", "EXIT_SUCCESS", "EXIT_FAILURE"}
  /\ failed \subseteq Services

Init ==
  /\ ServiceInit
  /\ pc = "connect"
  /\ options \in Options
  /\ caught_signal = FALSE
  /\ initialized = FALSE
  /\ tracked = FALSE
  /\ cnt_msgs = 0
  /\ clock = 0 /\ elapsed_secs = 0
  /\ exit_code = "none"
  /\ failed = {}

-----------------------------------------------------------------------------
(* Building blocks: main() moves on, calls, hears, ends. *)

Goto(place) == pc' = place /\ UNCHANGED <<options, caught_signal>>

\* The thread's step changes nothing on the sensor.
ThreadOnly == UNCHANGED <<sensorVars, late, unanswered>>

KeepStream == UNCHANGED <<cnt_msgs, clock, elapsed_secs>>
KeepRest == UNCHANGED <<initialized, tracked>> /\ KeepStream

CallAt(place, service) ==
  /\ Send(service)
  /\ Goto(place)
  /\ UNCHANGED exit_code
  /\ ThreadOnly

\* The call made at this place returned or threw: failed grows if it threw.
HearAt(place) ==
  /\ pc = place /\ Hear
  /\ failed' = IF Throws /\ call.service \in DynamicsServices
               THEN failed \cup {call.service} ELSE failed

ContinueAt(place) ==
  /\ Finish
  /\ Goto(place)
  /\ UNCHANGED exit_code
  /\ ThreadOnly

\* main() returns and the static remote_interfaces_ is destroyed:
\* ~RemoteInterface() deletes what req_streams_ holds.
Exit(code) ==
  /\ exit_code' = code
  /\ UNCHANGED <<options, caught_signal>>
  /\ ThreadOnly
  /\ IF tracked THEN Send("delete") /\ pc' = "cleaning"
                ELSE Finish /\ pc' = "exited"

-----------------------------------------------------------------------------
(* Connecting, lines 188 to 207. *)

\* while (!caught_signal && !checkSystemReady()): the latter forgets all.
Connect ==
  /\ pc = "connect"
  /\ IF caught_signal
     THEN ContinueAt("connected") /\ UNCHANGED <<initialized, tracked>>
     ELSE CallAt("connecting", "check") /\ initialized' = FALSE
                                        /\ tracked' = FALSE
  /\ KeepStream /\ UNCHANGED failed

Connecting ==
  /\ HearAt("connecting")
  /\ \/ Result = "ready" /\ ContinueAt("connected") /\ initialized' = TRUE
     \/ Result = "not ready" /\ ContinueAt("connect") /\ UNCHANGED initialized
     \/ Throws /\ Exit("EXIT_FAILURE") /\ UNCHANGED initialized
  /\ KeepStream /\ UNCHANGED tracked

\* Which part of the program follows.
Connected ==
  /\ pc = "connected"
  /\ CASE options.mode = "list" -> ContinueAt("list")
       [] Autostart -> CallAt("starting slam", "start_slam")
       [] OTHER -> ContinueAt("open")
  /\ KeepRest /\ UNCHANGED failed

\* getAvailableStreams() and checkStreamTypeAvailable() without connection.
Recheck ==
  /\ pc \in {"list", "open"} /\ ~initialized
  /\ CallAt("recheck", "check")
  /\ tracked' = FALSE
  /\ KeepStream /\ UNCHANGED <<initialized, failed>>

\* Not ready, or an exception: caught only where the stream is created.
Rechecked ==
  /\ HearAt("recheck")
  /\ initialized' = (Result = "ready")
  /\ ContinueAt(IF options.mode = "list"
                THEN IF Result = "ready" THEN "list" ELSE "aborted"
                ELSE IF Result = "ready" THEN "open" ELSE "stop")
  /\ KeepStream /\ UNCHANGED tracked

-----------------------------------------------------------------------------
(* -l, lines 209 to 237. *)

List ==
  /\ pc = "list" /\ initialized
  /\ CallAt("states", "state") \/ CallAt("states", "slam state")
  /\ KeepRest /\ UNCHANGED failed

\* Outside any try block: std::terminate().
States ==
  /\ HearAt("states")
  /\ IF Throws THEN ContinueAt("aborted")
               ELSE CallAt("cam2imu", "get_cam2imu_transform")
  /\ KeepRest

Cam2Imu ==
  /\ HearAt("cam2imu")
  /\ Exit("EXIT_SUCCESS")
  /\ KeepRest

-----------------------------------------------------------------------------
(* Autostart, lines 239 to 262. *)

StartingSlam ==
  /\ HearAt("starting slam")
  /\ IF Throws THEN CallAt("starting", "start") ELSE ContinueAt("open")
  /\ KeepRest

Starting ==
  /\ HearAt("starting")
  /\ IF Throws THEN Exit("EXIT_FAILURE") ELSE ContinueAt("open")
  /\ KeepRest

-----------------------------------------------------------------------------
(* createReceiverForStream(), lines 267 to 275. *)

\* No local address, the stream is not on offer, the socket cannot be bound.
NoReceiver ==
  /\ pc = "open" /\ initialized
  /\ ContinueAt("stop")
  /\ KeepRest /\ UNCHANGED failed

Open ==
  /\ pc = "open" /\ initialized
  /\ CallAt("adding", "put")
  /\ KeepRest /\ UNCHANGED failed

\* The receiver's destructor deletes its destination.
Adding ==
  /\ HearAt("adding")
  /\ IF Throws THEN CallAt("closing", "delete") /\ UNCHANGED tracked
               ELSE ContinueAt("first") /\ tracked' = TRUE
  /\ KeepStream /\ UNCHANGED initialized

Streaming ==
  registered /\ (options.mode = "imu" \/
                   node \in {"RUNNING", "RUNNING_WITH_SLAM"})

FirstMessage ==
  /\ pc = "first" /\ Streaming
  /\ ContinueAt("receiving")
  /\ KeepRest /\ UNCHANGED failed

FirstTimeout ==
  /\ pc = "first"
  /\ CallAt("why", "state")
  /\ KeepRest /\ UNCHANGED failed

\* Whatever the state is, createReceiverForStream() throws.
Why ==
  /\ HearAt("why")
  /\ CallAt("closing", "delete")
  /\ KeepRest

-----------------------------------------------------------------------------
(* The receive loop, lines 277 to 312. *)

\* Slip: one message more than asked for.
ContinueReceivingOnce ==
  /\ ~caught_signal
  /\ options.max_num # Unlimited => cnt_msgs <= options.max_num
  /\ options.max_secs # Unlimited => elapsed_secs < options.max_secs

\* Slip: the signal ends only a recording with a time limit.
ContinueReceivingDeaf ==
  /\ options.max_num # Unlimited => cnt_msgs < options.max_num
  /\ options.max_secs # Unlimited =>
       ~caught_signal /\ elapsed_secs < options.max_secs

ContinueReceiving ==
  /\ ~caught_signal
  /\ options.max_num # Unlimited => cnt_msgs < options.max_num
  /\ options.max_secs # Unlimited => elapsed_secs < options.max_secs

ReceiveMessage ==
  /\ pc = "receiving" /\ ContinueReceiving
  /\ Streaming
  /\ cnt_msgs' = IF options.max_num # Unlimited THEN cnt_msgs + 1 ELSE cnt_msgs
  /\ elapsed_secs' = clock
  /\ ContinueAt("receiving")
  /\ UNCHANGED <<initialized, tracked, clock, failed>>

\* Slip: a timeout goes straight back to the top of the loop.
ReceiveTimeoutUnread ==
  /\ pc = "receiving" /\ ContinueReceiving
  /\ ContinueAt("receiving")
  /\ KeepRest /\ UNCHANGED failed

ReceiveTimeout ==
  /\ pc = "receiving" /\ ContinueReceiving
  /\ elapsed_secs' = clock
  /\ ContinueAt("receiving")
  /\ UNCHANGED <<initialized, tracked, cnt_msgs, clock, failed>>

\* The loop is over: the receiver goes out of scope.
StopReceiving ==
  /\ pc = "receiving" /\ ~ContinueReceiving
  /\ CallAt("closing", "delete")
  /\ KeepRest /\ UNCHANGED failed

\* receive() throws, for the first message inside createReceiverForStream():
\* the receiver is destroyed all the same, and nothing asks for the state.
ReceiveFails ==
  /\ pc = "first" \/ (pc = "receiving" /\ ContinueReceiving)
  /\ CallAt("closing", "delete")
  /\ KeepRest /\ UNCHANGED failed

\* Slip: the entry goes even if the DELETE failed.
ClosingUnchecked ==
  /\ HearAt("closing")
  /\ tracked' = FALSE
  /\ ContinueAt("stop")
  /\ KeepStream /\ UNCHANGED initialized

\* Slip: the tool goes on without the answer to the DELETE.
ClosingUnheard ==
  /\ pc = "closing"
  /\ tracked' = FALSE
  /\ ContinueAt("stop")
  /\ KeepStream /\ UNCHANGED <<initialized, failed>>

\* ~TrackedDataReceiver() catches what its DELETE throws.
Closing ==
  /\ HearAt("closing")
  /\ tracked' = (tracked /\ Throws)
  /\ ContinueAt("stop")
  /\ KeepStream /\ UNCHANGED initialized

-----------------------------------------------------------------------------
(* Autostop and the end of the process, lines 313 to 344. *)

\* Slip: rc_dynamics is stopped only after messages were received.
StopIfReceived ==
  /\ pc = "stop"
  /\ IF Autostart /\ cnt_msgs > 0 THEN CallAt("stopping", "stop")
                                  ELSE Exit("EXIT_SUCCESS")
  /\ KeepRest /\ UNCHANGED failed

Stop ==
  /\ pc = "stop"
  /\ IF Autostart THEN CallAt("stopping", "stop") ELSE Exit("EXIT_SUCCESS")
  /\ KeepRest /\ UNCHANGED failed

Stopping ==
  /\ HearAt("stopping")
  /\ Exit("EXIT_SUCCESS")
  /\ KeepRest

\* The erasure in the destructor is the undefined behaviour of RemoteInterface.
Cleaning ==
  /\ HearAt("cleaning")
  /\ tracked' = (tracked /\ Throws)
  /\ IF Throws THEN ContinueAt("exited")
               ELSE ContinueAt("exited") \/ ContinueAt("crashed")
  /\ KeepStream /\ UNCHANGED initialized

-----------------------------------------------------------------------------
Main ==
  \/ Connect \/ Connecting \/ Connected \/ Recheck \/ Rechecked
  \/ List \/ States \/ Cam2Imu \/ StartingSlam \/ Starting
  \/ NoReceiver \/ Open \/ Adding \/ FirstMessage \/ FirstTimeout \/ Why
  \/ ReceiveMessage \/ ReceiveTimeout \/ StopReceiving \/ Closing
  \/ Stop \/ Stopping \/ Cleaning

\* SIGINT or SIGTERM: the handler sets the flag and nothing else.
SignalCallbackHandler ==
  /\ ~caught_signal /\ ~Ended
  /\ caught_signal' = TRUE
  /\ UNCHANGED <<serviceVars, pc, options, initialized, tracked, cnt_msgs,
                 clock, elapsed_secs, exit_code, failed>>

Clock ==
  /\ pc = "receiving" /\ clock < MaxTicks
  /\ clock' = clock + 1
  /\ UNCHANGED <<serviceVars, pc, options, caught_signal, initialized,
                 tracked, cnt_msgs, elapsed_secs, exit_code, failed>>

Outside == (TimesOut \/ Sensor) /\ UNCHANGED mainVars

Next ==
  \/ Main \/ ReceiveFails \/ SignalCallbackHandler \/ Clock \/ Outside
  \/ Ended /\ UNCHANGED vars

Spec == Init /\ [][Next]_vars

\* The process runs, time passes, and cpr ends a request that has a timeout when
\* its time is up.  Nothing is assumed of the sensor, nor that receive() ever
\* fails.
FairSpec ==
  Spec /\ WF_vars(Main) /\ WF_vars(Clock)
       /\ WF_vars(/\ call.phase = "sent" /\ call.service \notin Untimed
                  /\ TimesOut /\ UNCHANGED mainVars)

-----------------------------------------------------------------------------
(* Properties *)

\* The tool is one of the programs DynamicsService describes: main(), signals and
\* the destruction of static objects never use the exchange while a call is on it,
\* and touch the sensor by calls only.
ImplementsService == ServiceSpec

\* rc_dynamics runs on the tool's behalf after its end only if stop() threw,
\* if both ways of starting it threw, or if a start that timed out was served
\* after all (tools/rcdynamics_stream.cc:239-262 and 313-328).
LeftRunningAccounted ==
  Ended /\ node \in Active /\ runner = "us" =>
    \/ "stop" \in failed
    \/ exit_code = "EXIT_FAILURE" /\ {"start_slam", "start"} \subseteq failed
    \/ unanswered \cap {"start", "start_slam"} # {}

\* The sensor streams to a tool that has ended only if the answer to the PUT
\* was lost, or if both the receiver's and the interface's DELETE failed.
StreamLeftAccounted ==
  Ended /\ registered => tracked \/ "put" \in unanswered

\* A signal ends a tool that streams, wherever it is, sensor or no sensor.
SignalEndsStreaming ==
  caught_signal /\ options.mode # "list" ~> Ended

\* A recording with a time limit ends without a signal or a message.
TimeLimitEnds ==
  pc = "receiving" /\ options.max_secs # Unlimited ~> Ended

\* "Caught signal %d, stopping program!" (rcdynamics_stream.cc:59): a tool
\* that catches a signal before it is connected starts nothing on the sensor.
NothingStartedAfterSignal ==
  [][caught_signal /\ ~initialized /\ call.phase = "idle" =>
       ~(call'.phase = "sent" /\ call'.service \in {"start", "start_slam"})]_vars
=============================================================================
