--------------------------- MODULE DynamicsService --------------------------
(***************************************************************************)
(* The services of rc_dynamics and rc_slam: what the sensor does when they *)
(* are called (external; after the comments in remote_interface.h) and how *)
(* callDynamicsService(), resetSlam(), callSlamService(), getState() and   *)
(* the two queries of remote_interface.cc read the answers.                *)
(*                                                                         *)
(* Each REST call is one exchange with the guarantees of RestCall.  The    *)
(* exchange also carries the two requests about a stream's destination     *)
(* and checkSystemReady(), in the form RcDynamicsStream needs: the detail  *)
(* is in RemoteInterface.                                                  *)
(***************************************************************************)
EXTENDS Naturals, FiniteSets

CONSTANTS
  Interface,  \* the sensor's services: "old", "current" or "newer" than State
  Faults      \* which of FaultKinds may happen in this instance

FaultKinds ==
  {"timeout", "late", "refuse", "reboot", "fatal", "others", "unreported"}

ASSUME DynamicsServiceAssumption ==
  /\ Interface \in {"old", "current", "newer"}
  /\ Faults \subseteq FaultKinds

VARIABLES
  power,       \* "down" (gateway only), "booting" or "ready"
  node,        \* state of rc_dynamics
  slam,        \* state of rc_slam, "absent" where the sensor has none
  runner,      \* ghost: on whose behalf rc_dynamics was set running
  registered,  \* whether the sensor streams to the program's destination
  call,        \* the REST call of the program's thread
  late,        \* services the program gave up on, not yet seen by the sensor
  unanswered,  \* ghost: services of Lasting that were given up on
  did          \* ghost: what the sensor did with the call

sensorVars == <<power, node, slam, runner, registered>>
serviceVars == <<sensorVars, call, late, unanswered, did>>

Active == {"RUNNING", "WAITING_FOR_INS", "WAITING_FOR_INS_AND_SLAM",
           "WAITING_FOR_SLAM", "RUNNING_WITH_SLAM"}
State == Active \cup {"IDLE", "FATAL", "STOPPING", "UNKNOWN"}
SlamState == {"IDLE", "RUNNING", "FATAL", "WAITING_FOR_DATA", "RESTARTING",
              "RESETTING", "HALTED"}

DynamicsServices ==
  {"start", "start_slam", "stop", "stop_slam", "restart", "restart_slam"}
MapServices == {"save_map", "load_map", "remove_map"}
Changing == DynamicsServices \cup {"reset", "put", "delete"}
\* Those of them whose effect on the sensor may outlive the program.
Lasting == {"start", "start_slam", "put"}
Queries == {"get_trajectory", "get_cam2imu_transform"}
Services == Changing \cup MapServices \cup Queries
              \cup {"check", "state", "slam state"}

\* A JSON body: of each field its value, or "absent".
Body == [state: State \cup SlamState \cup {"NEW_STATE", "ready", "absent"},
         accepted: {"yes", "no", "absent"},
         enteredState: {"number", "absent"},
         return_code: {"value", "absent"},
         message: {"complete", "incomplete", "absent"}]

Empty == [state |-> "absent", accepted |-> "absent",
          enteredState |-> "absent", return_code |-> "absent",
          message |-> "absent"]

Quiet == [phase |-> "idle", service |-> "check", code |-> 0, body |-> Empty]

Undone == [served |-> FALSE, accepted |-> FALSE, state |-> "absent"]

ServiceTypeOK ==
  /\ power \in {"down", "booting", "ready"}
  /\ node \in State \ {"UNKNOWN"}
  /\ slam \in SlamState \cup {"absent"}
  /\ runner \in {"nobody", "us", "others"}
  /\ registered \in BOOLEAN
  /\ call \in [phase: {"idle", "sent", "answered"}, service: Services,
               code: {0, 200, 404, 429, 502}, body: Body]
  /\ late \subseteq Changing
  /\ unanswered \subseteq Lasting
  /\ did \in [served: BOOLEAN, accepted: BOOLEAN,
              state: State \cup SlamState \cup {"absent"}]

ServiceInit ==
  /\ power \in {"down", "booting", "ready"}
  /\ node = "IDLE"
  /\ slam \in {"HALTED", "absent"}
  /\ runner = "nobody"
  /\ registered = FALSE
  /\ call = Quiet
  /\ late = {}
  /\ unanswered = {}
  /\ did = Undone

-----------------------------------------------------------------------------
(* How the library reads an answer. *)

Exceptions == {"TooManyRequests", "NotAvailable", "runtime_error",
               "InvalidState", "NotAccepted", "json::type_error",
               "json::out_of_range"}

HandleCPRResponse(code) ==
  CASE code = 429 -> "TooManyRequests"
    [] code = 404 -> "NotAvailable"
    [] OTHER -> "runtime_error"

\* Slip: a refused service passes for an entered state.
ReadEnteredStateOnly(valid, body) ==
  CASE body.state = "absent" -> "json::type_error"
    [] body.state # "absent" /\ body.state \notin valid -> "InvalidState"
    [] OTHER -> body.state

\* The body of a service that enters a state.  A missing field is null, and
\* get<>() of null throws json::type_error: that is no std::logic_error, so
\* the handler that would read enteredState never runs.
ReadEnteredState(valid, body) ==
  CASE body.state = "absent" -> "json::type_error"
    [] body.state # "absent" /\ body.state \notin valid -> "InvalidState"
    [] body.state \in valid /\ body.accepted = "absent" -> "json::type_error"
    [] body.state \in valid /\ body.accepted = "no" -> "NotAccepted"
    [] OTHER -> body.state

\* callSlamService()
ReadReturnCode(body) ==
  IF body.return_code = "absent" THEN "json::type_error" ELSE body.return_code

\* getState().  json::type_error is no std::domain_error either.
ReadState(body) ==
  IF body.state = "absent" THEN "json::type_error" ELSE body.state

\* toProtobufTrajectory() and toProtobufFrame().  The first reads a constant
\* json with [], which is undefined for a key that is not there; the second
\* reads it with at().  Both throw on null.
ReadMessage(service, body) ==
  CASE body.message = "absent" -> "json::type_error"
    [] body.message = "incomplete" ->
         IF service = "get_trajectory" THEN "undefined" ELSE "json::out_of_range"
    [] OTHER -> "ok"

\* What the call returns, or the exception it throws.
Result ==
  IF call.code # 200
  THEN IF call.service = "check" /\ call.code = 502 /\ call.body = Empty
       THEN "not ready" ELSE HandleCPRResponse(call.code)
  ELSE CASE call.service \in DynamicsServices ->
              ReadEnteredState(State, call.body)
         [] call.service = "reset" -> ReadEnteredState(SlamState, call.body)
         [] call.service \in MapServices -> ReadReturnCode(call.body)
         [] call.service \in {"state", "slam state"} -> ReadState(call.body)
         [] call.service \in Queries -> ReadMessage(call.service, call.body)
         [] call.service = "check" ->
              IF call.body.state = "ready" THEN "ready" ELSE "not ready"
         [] OTHER -> "ok"

Throws == Result \in Exceptions

-----------------------------------------------------------------------------
(* The program's side of an exchange. *)

Send(service) ==
  /\ call' = [Quiet EXCEPT !.phase = "sent", !.service = service]
  /\ did' = Undone

Hear == call.phase = "answered"

Finish == call' = Quiet /\ UNCHANGED did

\* With timeout_ms = 0, the default of the queries and of the map services, cpr
\* waits for ever.
Untimed == MapServices \cup Queries

\* Status 0: the time of cpr::Timeout is up, or the connection was refused or
\* reset, which also ends a call that has no timeout.
TimesOut ==
  /\ "timeout" \in Faults
  /\ call.phase = "sent" \/ (call.phase = "answered" /\ call.code # 0)
  /\ call' = [call EXCEPT !.phase = "answered", !.code = 0, !.body = Empty]
  /\ unanswered' = unanswered \cup ({call.service} \cap Lasting)
  /\ \/ UNCHANGED late
     \/ /\ "late" \in Faults /\ late = {}
        /\ call.phase = "sent" /\ call.service \in Changing
        /\ late' = {call.service}
  /\ UNCHANGED <<sensorVars, did>>

-----------------------------------------------------------------------------
(* The sensor. *)

Accepts(service) ==
  /\ node # "STOPPING" \/ service = "stop"
  /\ node # "FATAL" \/ service \in {"stop", "restart", "restart_slam"}

Entered(service) ==
  CASE service = "start" /\ node = "IDLE" -> "WAITING_FOR_INS"
    [] service = "start_slam" /\ node \in {"IDLE", "WAITING_FOR_INS"} ->
         "WAITING_FOR_INS_AND_SLAM"
    [] service = "start_slam" /\ node = "RUNNING" -> "WAITING_FOR_SLAM"
    [] service = "stop" /\ node # "IDLE" -> "STOPPING"
    [] service = "stop_slam" /\ node = "WAITING_FOR_INS_AND_SLAM" ->
         "WAITING_FOR_INS"
    [] service = "stop_slam" /\ node \in {"WAITING_FOR_SLAM",
                                          "RUNNING_WITH_SLAM"} -> "RUNNING"
    [] service = "restart" -> "WAITING_FOR_INS"
    [] service = "restart_slam" -> "WAITING_FOR_INS_AND_SLAM"
    [] OTHER -> node

NeedsSlam == {"start_slam", "restart_slam", "stop_slam", "reset",
              "slam state", "get_trajectory"} \cup MapServices

\* The effect of a request that is served.
Effect(service) ==
  /\ node' = IF service \in DynamicsServices /\ Accepts(service)
             THEN Entered(service) ELSE node
  /\ runner' = CASE node' \notin Active -> "nobody"
                 [] node' \in Active /\ node \notin Active -> "us"
                 [] OTHER -> runner
  /\ slam' = IF service = "reset" THEN "RESETTING" ELSE slam
  /\ registered' = IF service = "put" THEN TRUE
                   ELSE IF service = "delete" THEN FALSE ELSE registered
  /\ UNCHANGED power

\* The body that reports the effect.
Reported(s) == IF Interface = "newer" THEN {s, "NEW_STATE"} ELSE {s}

Report(service) ==
  IF service \in DynamicsServices \cup {"reset"}
  THEN IF Interface = "old"
       THEN {[Empty EXCEPT !.enteredState = "number"]}
       ELSE {[Empty EXCEPT !.state = s,
              !.accepted = IF service \in DynamicsServices => Accepts(service)
                           THEN "yes" ELSE "no"] :
               s \in Reported(IF service = "reset" THEN slam' ELSE node')}
  ELSE IF service \in MapServices
  THEN {[Empty EXCEPT !.return_code = "value"]}
  ELSE IF service \in {"state", "slam state"}
  THEN {[Empty EXCEPT !.state = IF service = "state" THEN node ELSE slam]}
         \cup (IF "unreported" \in Faults THEN {Empty} ELSE {})
  ELSE IF service \in Queries
  THEN {[Empty EXCEPT !.message = m] :
          m \in {"complete"} \cup (IF "unreported" \in Faults
                                  THEN {"incomplete", "absent"} ELSE {})}
  ELSE IF service = "check"
  THEN {[Empty EXCEPT !.state = "ready"]}
  ELSE {Empty}

Exists(service) == service \in NeedsSlam => slam # "absent"

Serve ==
  /\ call.phase = "sent" /\ power = "ready" /\ Exists(call.service)
  /\ Effect(call.service)
  /\ \E body \in Report(call.service) :
       call' = [call EXCEPT !.phase = "answered", !.code = 200, !.body = body]
  /\ did' = [served |-> TRUE,
             accepted |-> call.service \in DynamicsServices
                            => Accepts(call.service),
             state |-> IF call.service = "reset" THEN slam' ELSE node']
  /\ UNCHANGED <<late, unanswered>>

\* checkSystemReady() reads 502 as "not ready" from its first request only; the
\* later ones find in the body that the sensor has answered that one.
Partial(service, code) ==
  IF service = "check" /\ code = 502
  THEN {Empty, [Empty EXCEPT !.state = "ready"]} ELSE {Empty}

Fails(code, body) ==
  call' = [call EXCEPT !.phase = "answered", !.code = code, !.body = body]

\* 502 from the gateway, 404 for what the sensor has not, 429 for too much.
Refuse ==
  /\ call.phase = "sent"
  /\ \E code \in {404, 429, 502} :
       /\ code = 404 => power = "ready" /\ ~Exists(call.service)
       /\ code = 429 => "refuse" \in Faults
       /\ code = 502 => power # "ready"
       /\ \E body \in Partial(call.service, code) : Fails(code, body)
  /\ UNCHANGED <<sensorVars, late, unanswered, did>>

ServeLate ==
  \E service \in late :
    /\ power = "ready"
    /\ late' = late \ {service}
    /\ Exists(service)
    /\ Effect(service)
    /\ UNCHANGED <<call, unanswered, did>>

Proceed(from, to) == node = from /\ node' = to

NodeMoves ==
  /\ \/ Proceed("WAITING_FOR_INS", "RUNNING")
     \/ Proceed("WAITING_FOR_INS_AND_SLAM", "WAITING_FOR_SLAM")
     \/ Proceed("WAITING_FOR_SLAM", "RUNNING_WITH_SLAM")
     \/ Proceed("STOPPING", "IDLE")
     \/ "fatal" \in Faults /\ node \in Active /\ node' = "FATAL"
  /\ runner' = IF node' \in Active THEN runner ELSE "nobody"
  /\ UNCHANGED <<power, slam, registered, call, late, unanswered, did>>

SlamMoves ==
  /\ slam = "RESETTING" /\ slam' \in {"HALTED", "RUNNING"}
  /\ UNCHANGED <<power, node, runner, registered, call, late, unanswered, did>>

Boot ==
  /\ \/ power = "down" /\ power' = "booting"
     \/ power = "booting" /\ power' = "ready"
  /\ UNCHANGED <<node, slam, runner, registered, call, late, unanswered, did>>

Reboot ==
  /\ "reboot" \in Faults
  /\ power = "ready" /\ power' = "down"
  /\ node' = "IDLE" /\ runner' = "nobody"
  /\ registered' \in {registered, FALSE}
  /\ UNCHANGED <<slam, call, late, unanswered, did>>

\* Another program uses the same sensor.
OthersAct ==
  /\ "others" \in Faults
  /\ \/ node = "IDLE" /\ node' = "WAITING_FOR_INS" /\ runner' = "others"
     \/ node \in Active /\ node' = "STOPPING" /\ runner' = "nobody"
  /\ UNCHANGED <<power, slam, registered, call, late, unanswered, did>>

Sensor ==
  Serve \/ Refuse \/ ServeLate \/ NodeMoves \/ SlamMoves \/ Boot \/ Reboot
    \/ OthersAct

-----------------------------------------------------------------------------
(* A program that calls the services in any order, from one thread: it may *)
(* go on to the next call as soon as it has the answer to the last.        *)

CallService(service) ==
  /\ call.phase # "sent"
  /\ Send(service)
  /\ UNCHANGED <<sensorVars, late, unanswered>>

ServiceReturns ==
  /\ Hear
  /\ Finish
  /\ UNCHANGED <<sensorVars, late, unanswered>>

ServiceNext ==
  (\E service \in Services : CallService(service)) \/ ServiceReturns
    \/ TimesOut \/ Sensor

ServiceSpec == ServiceInit /\ [][ServiceNext]_serviceVars

-----------------------------------------------------------------------------
(* Properties *)

\* What a service call tells its caller is true of the sensor: a returned
\* state was entered on behalf of this call, a service that was not accepted
\* or was refused has done nothing, and InvalidState still means it was done.
AnswersAreTrue ==
  Hear /\ call.service \in DynamicsServices \cup {"reset"} =>
    /\ Result \in State \cup SlamState
         => did = [served |-> TRUE, accepted |-> TRUE, state |-> Result]
    /\ Result = "NotAccepted" => did.served /\ ~did.accepted
    /\ Result \in {"TooManyRequests", "NotAvailable"} => ~did.served
    /\ Result = "InvalidState" => did.served

\* "in case "state" field does not exist, return UNKNOWN" and "Maybe old
\* interface version? If so just return the numeric code"
\* (remote_interface.cc:340 and 393): a missing state is no exception.
MissingStateUnderstood ==
  Hear /\ call.code = 200 /\ call.body.state = "absent" =>
    /\ call.service = "state" => Result = "UNKNOWN"
    /\ call.service \in DynamicsServices => ~Throws
=============================================================================
