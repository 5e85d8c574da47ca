------------------------ MODULE RcDynamicsStreamProofs -----------------------
(***************************************************************************)
(* What rcdynamics_stream leaves behind, for every interface of the sensor, *)
(* every combination of faults and every command line.                     *)
(***************************************************************************)
EXTENDS RcDynamicsStream, DynamicsServiceProofs

-----------------------------------------------------------------------------
(* The inductive invariant. *)

\* Each call is made at a place of its own.
CallsInPlace ==
  call.phase # "idle" =>
    \/ pc \in {"connecting", "recheck"} /\ call.service = "check"
    \/ pc \in {"states", "why"} /\ call.service \in {"state", "slam state"}
    \/ pc = "cam2imu" /\ call.service = "get_cam2imu_transform"
    \/ pc = "starting slam" /\ call.service = "start_slam"
    \/ pc = "starting" /\ call.service = "start"
    \/ pc = "adding" /\ call.service = "put"
    \/ pc \in {"closing", "cleaning"} /\ call.service = "delete"
    \/ pc = "stopping" /\ call.service = "stop"

\* A request that may still arrive is one the tool gave up on.
LateInv ==
  /\ late \subseteq {"start", "start_slam", "stop", "put", "delete"}
  /\ late \cap Lasting \subseteq unanswered

BeforeStream ==
  {"connect", "connecting", "connected", "list", "recheck", "states",
   "cam2imu", "starting slam", "starting", "open", "adding"}

PlaceInv ==
  /\ exit_code # "none" => pc \in {"cleaning", "exited", "crashed"}
  /\ pc \in BeforeStream => ~tracked
  /\ pc = "starting" => "start_slam" \in failed
  /\ pc \in {"starting slam", "starting"} => Autostart

Served(service) == Hear /\ call.service = service /\ call.code = 200

\* What the sensor streams to is tracked, unless nobody heard of the PUT.
StreamInv ==
  registered =>
    \/ "put" \in unanswered
    \/ Served("put")
    \/ tracked /\ ~Served("delete")

Driving ==
  {"starting slam", "starting", "open", "recheck", "adding", "first", "why",
   "receiving", "closing", "stop", "stopping"}

\* rc_dynamics runs for a tool that has yet to stop it, or that is excused.
RunInv ==
  node \in Active /\ runner = "us" =>
    \/ unanswered \cap {"start", "start_slam"} # {}
    \/ "stop" \in failed
    \/ exit_code = "EXIT_FAILURE" /\ {"start_slam", "start"} \subseteq failed
    \/ Autostart /\ pc \in Driving /\ ~Served("stop")

Account == CallsInPlace /\ LateInv /\ PlaceInv /\ StreamInv /\ RunInv

-----------------------------------------------------------------------------
(* Types: the thread's exchange and the sensor. *)

LEMMA SendShape ==
  ASSUME NEW service, Send(service)
  PROVE  call' = [phase |-> "sent", service |-> service, code |-> 0,
                  body |-> Empty]
BY DEF Send, Quiet

LEMMA FinishShape ==
  Finish => call' = [phase |-> "idle", service |-> "check", code |-> 0,
                     body |-> Empty]
BY DEF Finish, Quiet

LEMMA EmptyBody == Empty \in Body
BY DEF Empty, Body

LEMMA CallShape ==
  ASSUME ServiceTypeOK
  PROVE  call = [phase |-> call.phase, service |-> call.service,
                 code |-> call.code, body |-> call.body]
BY DEF ServiceTypeOK

LEMMA ThreadTypes ==
  ASSUME ServiceTypeOK, ThreadOnly,
         Finish \/ \E service \in Services : Send(service)
  PROVE  ServiceTypeOK'
<1>1. UNCHANGED <<power, node, slam, runner, registered, late, unanswered>>
  BY DEF ThreadOnly, sensorVars
<1>2. /\ call' \in [phase: {"idle", "sent", "answered"}, service: Services,
                    code: {0, 200, 404, 429, 502}, body: Body]
      /\ did' \in [served: BOOLEAN, accepted: BOOLEAN,
                   state: State \cup SlamState \cup {"absent"}]
  <2>1. CASE Finish
    <3>1. "check" \in Services
      BY DEF Services
    <3> QED
      BY <2>1, <3>1, FinishShape, EmptyBody DEF Finish, ServiceTypeOK
  <2>2. CASE \E service \in Services : Send(service)
    <3>1. PICK service \in Services : Send(service)
      BY <2>2
    <3>2. call' = [phase |-> "sent", service |-> service, code |-> 0,
                   body |-> Empty]
      BY <3>1, SendShape
    <3>3. did' = [served |-> FALSE, accepted |-> FALSE, state |-> "absent"]
      BY <3>1 DEF Send, Undone
    <3>4. did' \in [served: BOOLEAN, accepted: BOOLEAN,
                   state: State \cup SlamState \cup {"absent"}]
      BY <3>3
    <3> QED
      BY <3>2, <3>4, EmptyBody
  <2> QED
    BY <2>1, <2>2
<1> QED
  BY <1>1, <1>2 DEF ServiceTypeOK

LEMMA EffectTypes ==
  ASSUME ServiceTypeOK, NEW service \in Services, Effect(service)
  PROVE  /\ power' \in {"down", "booting", "ready"}
         /\ node' \in State \ {"UNKNOWN"}
         /\ slam' \in SlamState \cup {"absent"}
         /\ runner' \in {"nobody", "us", "others"}
         /\ registered' \in BOOLEAN
<1>1. Entered(service) \in State \ {"UNKNOWN"}
  BY DEF Entered, ServiceTypeOK, State, Active
<1>2. node' \in State \ {"UNKNOWN"}
  BY <1>1 DEF Effect, ServiceTypeOK
<1>3. runner' \in {"nobody", "us", "others"}
  BY DEF Effect, ServiceTypeOK
<1> QED
  BY <1>2, <1>3 DEF Effect, ServiceTypeOK, SlamState

LEMMA ReportTypes ==
  ASSUME ServiceTypeOK, NEW service \in Services, Exists(service),
         Effect(service), NEW body \in Report(service)
  PROVE  body \in Body
<1> DEFINE Names == State \cup SlamState \cup {"NEW_STATE", "ready", "absent"}
<1>1. CASE service \in DynamicsServices \cup {"reset"}
  <2>1. CASE Interface = "old"
    BY <1>1, <2>1 DEF Report, Empty, Body
  <2>2. CASE Interface # "old"
    <3>1. PICK s \in Reported(IF service = "reset" THEN slam' ELSE node') :
            body = [Empty EXCEPT !.state = s,
                     !.accepted = IF service \in DynamicsServices
                                        => Accepts(service)
                                  THEN "yes" ELSE "no"]
      BY <1>1, <2>2 DEF Report
    <3>2. s \in Names
      BY EffectTypes DEF Reported
    <3> HIDE DEF Names
    <3>3. \E a \in {"yes", "no"} :
            body = [state |-> s, accepted |-> a, enteredState |-> "absent",
                    return_code |-> "absent", message |-> "absent"]
      BY <3>1 DEF Empty
    <3> QED
      BY <3>2, <3>3 DEF Body, Names
  <2> QED
    BY <2>1, <2>2
<1>2. CASE service \in {"state", "slam state"}
  <2>1. node \in Names /\ slam \in Names
    BY DEF ServiceTypeOK
  <2> HIDE DEF Names
  <2>2. \/ body = Empty
        \/ body = [Empty EXCEPT !.state = IF service = "state"
                                         THEN node ELSE slam]
    BY <1>2 DEF Report, DynamicsServices, MapServices
  <2>3. CASE body # Empty
    <3>1. \E s \in Names :
            body = [state |-> s, accepted |-> "absent",
                    enteredState |-> "absent", return_code |-> "absent",
                    message |-> "absent"]
      BY <2>1, <2>2, <2>3 DEF Empty
    <3> QED
      BY <3>1 DEF Body, Names
  <2> QED
    BY <2>3, EmptyBody
<1>3. CASE service \in MapServices
  <2>1. body = [Empty EXCEPT !.return_code = "value"]
    BY <1>3 DEF Report, MapServices, DynamicsServices
  <2> QED
    BY <2>1 DEF Empty, Body
<1>4. CASE service \in Queries
  <2>1. PICK m \in {"complete", "incomplete", "absent"} :
          body = [Empty EXCEPT !.message = m]
    BY <1>4 DEF Report, MapServices, DynamicsServices, Queries
  <2> QED
    BY <2>1 DEF Empty, Body
<1>5. CASE service \in {"check", "put", "delete"}
  <2>1. body = Empty \/ body = [Empty EXCEPT !.state = "ready"]
    BY <1>5 DEF Report, MapServices, DynamicsServices, Queries
  <2> QED
    BY <2>1, EmptyBody DEF Empty, Body
<1> QED
  BY <1>1, <1>2, <1>3, <1>4, <1>5 DEF Services, Changing

LEMMA ServeTypes == ServiceTypeOK /\ Serve => ServiceTypeOK'
<1> SUFFICES ASSUME ServiceTypeOK, Serve PROVE ServiceTypeOK'
  OBVIOUS
<1>1. PICK body \in Report(call.service) :
        call' = [call EXCEPT !.phase = "answered", !.code = 200, !.body = body]
  BY DEF Serve
<1>2. call.service \in Services /\ Exists(call.service) /\ Effect(call.service)
  BY DEF Serve, ServiceTypeOK
<1>3. body \in Body
  BY <1>2, ReportTypes
<1>4. call' = [phase |-> "answered", service |-> call.service, code |-> 200,
               body |-> body]
  BY <1>1, CallShape
<1>5. /\ power' \in {"down", "booting", "ready"}
      /\ node' \in State \ {"UNKNOWN"}
      /\ slam' \in SlamState \cup {"absent"}
      /\ runner' \in {"nobody", "us", "others"}
      /\ registered' \in BOOLEAN
  BY <1>2, EffectTypes
<1>6. did' \in [served: BOOLEAN, accepted: BOOLEAN,
               state: State \cup SlamState \cup {"absent"}]
  <2>1. PICK accepted \in BOOLEAN, state \in {slam', node'} :
          did' = [served |-> TRUE, accepted |-> accepted, state |-> state]
    BY DEF Serve
  <2> QED
    BY <1>5, <2>1
<1>7. UNCHANGED <<late, unanswered>>
  BY DEF Serve
<1> QED
  BY <1>2, <1>3, <1>4, <1>5, <1>6, <1>7 DEF ServiceTypeOK

LEMMA OutsideTypes ==
  ASSUME ServiceTypeOK, TimesOut \/ Sensor
  PROVE  ServiceTypeOK'
<1>1. CASE Serve
  BY <1>1, ServeTypes
<1>2. CASE Refuse
  <2>1. PICK code \in {404, 429, 502} :
          \E body \in Partial(call.service, code) : Fails(code, body)
    BY <1>2 DEF Refuse
  <2>2. PICK body \in Partial(call.service, code) : Fails(code, body)
    BY <2>1
  <2>3. call' = [phase |-> "answered", service |-> call.service, code |-> code,
                 body |-> body]
    BY <2>2, CallShape DEF Fails
  <2>4. UNCHANGED <<power, node, slam, runner, registered, late, unanswered, did>>
    BY <1>2 DEF Refuse, sensorVars
  <2>5. body \in Body
    BY EmptyBody DEF Partial, Body
  <2> QED
    BY <2>3, <2>4, <2>5 DEF ServiceTypeOK
<1>3. CASE TimesOut
  <2>1. call' = [phase |-> "answered", service |-> call.service, code |-> 0,
                 body |-> Empty]
    BY <1>3, CallShape DEF TimesOut
  <2>2. UNCHANGED <<power, node, slam, runner, registered, did>>
    BY <1>3 DEF TimesOut, sensorVars
  <2>3. late' \subseteq Changing /\ unanswered' \subseteq Lasting
    BY <1>3 DEF TimesOut, ServiceTypeOK
  <2> QED
    BY <2>1, <2>2, <2>3, EmptyBody DEF ServiceTypeOK
<1>4. CASE ServeLate
  <2>1. PICK service \in late :
          late' = late \ {service} /\ Effect(service)
          /\ UNCHANGED <<call, unanswered, did>>
    BY <1>4 DEF ServeLate
  <2>2. service \in Services
    BY DEF ServiceTypeOK, Services
  <2> QED
    BY <2>1, <2>2, EffectTypes DEF ServiceTypeOK
<1>5. CASE NodeMoves
  BY <1>5 DEF NodeMoves, Proceed, ServiceTypeOK, State, Active
<1>6. CASE SlamMoves \/ Boot
  BY <1>6 DEF SlamMoves, Boot, ServiceTypeOK, SlamState
<1>7. CASE Reboot
  <2>1. registered' \in BOOLEAN
    BY <1>7 DEF Reboot, ServiceTypeOK
  <2> QED
    BY <1>7, <2>1 DEF Reboot, ServiceTypeOK, State, Active
<1>8. CASE OthersAct
  BY <1>8 DEF OthersAct, ServiceTypeOK, State, Active
<1> QED
  BY <1>1, <1>2, <1>3, <1>4, <1>5, <1>6, <1>7, <1>8 DEF Sensor

-----------------------------------------------------------------------------
(* Types: the tool. *)

\* What all steps of main() have in common.
ThreadMoves ==
  /\ ThreadOnly
  /\ Finish \/ \E service \in Services : Send(service)
  /\ UNCHANGED <<options, caught_signal, clock>>
  /\ pc' \in Places

LEMMA MainIsThread == Main \/ ReceiveFails => ThreadMoves
<1> USE DEF ThreadMoves, CallAt, ContinueAt, Goto, Exit, KeepRest, KeepStream,
            Services, Changing, DynamicsServices, Queries, Places
<1>1. Connect \/ Recheck \/ Rechecked => ThreadMoves
  BY DEF Connect, Recheck, Rechecked
<1>2. Connecting => ThreadMoves
  BY DEF Connecting
<1>3. Connected => ThreadMoves
  BY DEF Connected
<1>4. List \/ States \/ Cam2Imu \/ StartingSlam \/ Starting => ThreadMoves
  BY DEF List, States, Cam2Imu, StartingSlam, Starting
<1>5. NoReceiver \/ Open \/ Adding \/ FirstMessage \/ FirstTimeout \/ Why
        => ThreadMoves
  BY DEF NoReceiver, Open, Adding, FirstMessage, FirstTimeout, Why
<1>6. ReceiveMessage \/ ReceiveTimeout \/ StopReceiving \/ ReceiveFails
        \/ Closing \/ Stop \/ Stopping \/ Cleaning => ThreadMoves
  BY DEF ReceiveMessage, ReceiveTimeout, StopReceiving, ReceiveFails, Closing,
         Stop, Stopping, Cleaning
<1> QED
  BY <1>1, <1>2, <1>3, <1>4, <1>5, <1>6 DEF Main

LEMMA MainTypes == TypeOK /\ (Main \/ ReceiveFails) => TypeOK'
<1> SUFFICES ASSUME TypeOK, Main \/ ReceiveFails PROVE TypeOK'
  OBVIOUS
<1>1. ThreadMoves
  BY MainIsThread
<1>2. ServiceTypeOK'
  BY <1>1, ThreadTypes DEF ThreadMoves, TypeOK
<1>3. failed' \subseteq Services
  <2>1. failed' = failed \/ failed' = failed \cup {call.service}
    BY DEF Main, Connect, Connecting, Connected, Recheck, Rechecked, List,
           States, Cam2Imu, StartingSlam, Starting, NoReceiver, Open, Adding,
           FirstMessage, FirstTimeout, Why, ReceiveMessage, ReceiveTimeout,
           StopReceiving, ReceiveFails, Closing, Stop, Stopping, Cleaning,
           HearAt
  <2> QED
    BY <2>1 DEF TypeOK, ServiceTypeOK
<1>4. initialized' \in BOOLEAN /\ tracked' \in BOOLEAN
  BY DEF Main, Connect, Connecting, Connected, Recheck, Rechecked, List,
         States, Cam2Imu, StartingSlam, Starting, NoReceiver, Open, Adding,
         FirstMessage, FirstTimeout, Why, ReceiveMessage, ReceiveTimeout,
         StopReceiving, ReceiveFails, Closing, Stop, Stopping, Cleaning,
         KeepRest, TypeOK
<1>5. exit_code' \in {"none", "EXIT_SUCCESS", "EXIT_FAILURE"}
  BY DEF Main, Connect, Connecting, Connected, Recheck, Rechecked, List,
         States, Cam2Imu, StartingSlam, Starting, NoReceiver, Open, Adding,
         FirstMessage, FirstTimeout, Why, ReceiveMessage, ReceiveTimeout,
         StopReceiving, ReceiveFails, Closing, Stop, Stopping, Cleaning,
         ContinueAt, CallAt, Exit, TypeOK
<1>6. /\ cnt_msgs' \in 0..MaxMsgs
      /\ options.max_num # Unlimited => cnt_msgs' <= options.max_num
      /\ elapsed_secs' \in 0..clock
  <2>1. CASE ReceiveMessage
    <3>1. options.max_num # Unlimited => options.max_num \in 0..MaxMsgs
      BY DEF TypeOK, Options
    <3>2. elapsed_secs' = clock /\ clock \in 0..MaxTicks /\ MaxTicks \in Nat
      BY <2>1, RcDynamicsStreamAssumption DEF ReceiveMessage, TypeOK
    <3>3. elapsed_secs' \in 0..clock
      BY <3>2
    <3>4. CASE options.max_num # Unlimited
      <4>1. cnt_msgs' = cnt_msgs + 1 /\ cnt_msgs < options.max_num
        BY <2>1, <3>4 DEF ReceiveMessage, ContinueReceiving
      <4>2. cnt_msgs \in 0..MaxMsgs /\ MaxMsgs \in Nat
        BY RcDynamicsStreamAssumption DEF TypeOK
      <4> QED
        BY <3>1, <3>3, <3>4, <4>1, <4>2
    <3>5. CASE options.max_num = Unlimited
      BY <2>1, <3>3, <3>5 DEF ReceiveMessage, TypeOK
    <3> QED
      BY <3>4, <3>5
  <2>2. CASE ReceiveTimeout
    <3>1. elapsed_secs' = clock /\ clock \in 0..MaxTicks /\ MaxTicks \in Nat
      BY <2>2, RcDynamicsStreamAssumption DEF ReceiveTimeout, TypeOK
    <3>2. elapsed_secs' \in 0..clock
      BY <3>1
    <3> QED
      BY <2>2, <3>2 DEF ReceiveTimeout, TypeOK
  <2>3. CASE ~(ReceiveMessage \/ ReceiveTimeout)
    <3>1. UNCHANGED <<cnt_msgs, elapsed_secs>>
      BY <2>3 DEF Main, Connect, Connecting, Connected, Recheck, Rechecked,
             List, States, Cam2Imu, StartingSlam, Starting, NoReceiver, Open,
             Adding, FirstMessage, FirstTimeout, Why, StopReceiving,
             ReceiveFails, Closing, Stop, Stopping, Cleaning, KeepRest,
             KeepStream
    <3> QED
      BY <3>1 DEF TypeOK
  <2> QED
    BY <2>1, <2>2, <2>3
<1> QED
  BY <1>1, <1>2, <1>3, <1>4, <1>5, <1>6 DEF TypeOK, ThreadMoves, Unlimited

LEMMA TypesKept == TypeOK /\ [Next]_vars => TypeOK'
<1> SUFFICES ASSUME TypeOK, [Next]_vars PROVE TypeOK'
  OBVIOUS
<1>1. CASE Main \/ ReceiveFails
  BY <1>1, MainTypes
<1>2. CASE SignalCallbackHandler
  BY <1>2 DEF SignalCallbackHandler, TypeOK, ServiceTypeOK, serviceVars,
              sensorVars, Unlimited
<1>3. CASE Clock
  <2>1. /\ clock' \in 0..MaxTicks
        /\ elapsed_secs \in 0..clock'
    BY <1>3, RcDynamicsStreamAssumption DEF Clock, TypeOK
  <2>2. UNCHANGED <<serviceVars, pc, options, caught_signal, initialized,
                    tracked, cnt_msgs, elapsed_secs, exit_code, failed>>
    BY <1>3 DEF Clock
  <2> QED
    BY <2>1, <2>2 DEF TypeOK, ServiceTypeOK, serviceVars, sensorVars, Unlimited
<1>4. CASE Outside
  <2>1. ServiceTypeOK' /\ UNCHANGED mainVars
    BY <1>4, OutsideTypes DEF Outside, TypeOK
  <2> QED
    BY <2>1 DEF TypeOK, mainVars, Unlimited
<1>5. CASE UNCHANGED vars
  BY <1>5 DEF vars, mainVars, serviceVars, sensorVars, TypeOK, ServiceTypeOK,
              Unlimited
<1> QED
  BY <1>1, <1>2, <1>3, <1>4, <1>5 DEF Next

-----------------------------------------------------------------------------
(* The sensor keeps the account. *)

ToolServices ==
  {"check", "state", "slam state", "get_cam2imu_transform", "start",
   "start_slam", "stop", "put", "delete"}

\* Only a start sets rc_dynamics running for the tool, and stop() stops it.
LEMMA EffectOnNode ==
  ASSUME NEW service \in ToolServices, Effect(service),
         node' \in Active, runner' = "us"
  PROVE  \/ service \in {"start", "start_slam"}
         \/ service # "stop" /\ node \in Active /\ runner = "us"
<1>1. CASE service = "stop"
  <2>1. node' = Entered("stop")
    BY <1>1 DEF Effect, Accepts, DynamicsServices
  <2>2. node' \in {"STOPPING", "IDLE"}
    BY <2>1 DEF Entered
  <2> QED
    BY <2>2 DEF Active
<1>2. CASE service \notin {"stop", "start", "start_slam"}
  <2>1. node' = node
    BY <1>2 DEF Effect, ToolServices, DynamicsServices
  <2> QED
    BY <1>2, <2>1 DEF Effect
<1> QED
  BY <1>1, <1>2

LEMMA EffectOnStream ==
  ASSUME NEW service \in ToolServices, Effect(service), registered'
  PROVE  service = "put" \/ (service # "delete" /\ registered)
BY DEF Effect

LEMMA ServeAccount ==
  ASSUME TypeOK, Account, Serve, UNCHANGED mainVars
  PROVE  Account'
<1>1. PICK body \in Report(call.service) :
        call' = [call EXCEPT !.phase = "answered", !.code = 200, !.body = body]
  BY DEF Serve
<1>2. call' = [phase |-> "answered", service |-> call.service, code |-> 200,
               body |-> body]
  BY <1>1, CallShape DEF TypeOK
<1>3. call.phase = "sent" /\ Effect(call.service) /\ UNCHANGED <<late, unanswered>>
  BY DEF Serve
<1>4. UNCHANGED <<pc, options, tracked, exit_code, failed>>
  BY DEF mainVars
<1>5. CallsInPlace'
  BY <1>2, <1>3, <1>4 DEF Account, CallsInPlace
<1>6. LateInv' /\ PlaceInv'
  BY <1>3, <1>4 DEF Account, LateInv, PlaceInv, Autostart
<1>7. call.service \in ToolServices
  BY <1>3 DEF Account, CallsInPlace, ToolServices
<1>8. StreamInv'
  <2>1. registered' => call.service = "put" \/
                         (call.service # "delete" /\ registered)
    BY <1>3, <1>7, EffectOnStream
  <2> QED
    BY <1>2, <1>3, <1>4, <2>1 DEF Account, StreamInv, Served, Hear
<1>9. RunInv'
  <2>1. node' \in Active /\ runner' = "us" =>
          \/ call.service \in {"start", "start_slam"}
          \/ call.service # "stop" /\ node \in Active /\ runner = "us"
    BY <1>3, <1>7, EffectOnNode
  <2>2. call.service \in {"start", "start_slam"} =>
          Autostart /\ pc \in Driving
    BY <1>3 DEF Account, CallsInPlace, PlaceInv, Driving
  <2> QED
    BY <1>2, <1>3, <1>4, <2>1, <2>2
       DEF Account, RunInv, Served, Hear, Autostart
<1> QED
  BY <1>5, <1>6, <1>8, <1>9 DEF Account

\* The answer to a call may be an error, or never be heard.
LEMMA AnswerAccount ==
  ASSUME TypeOK, Account, Refuse \/ TimesOut, UNCHANGED mainVars
  PROVE  Account'
<1>1. /\ call'.phase = "answered" /\ call'.service = call.service
      /\ call'.code \in {0, 404, 429, 502}
  <2>1. CASE Refuse
    <3>1. PICK code \in {404, 429, 502} :
            \E body \in Partial(call.service, code) : Fails(code, body)
      BY <2>1 DEF Refuse
    <3>2. PICK body \in Partial(call.service, code) : Fails(code, body)
      BY <3>1
    <3>3. call' = [phase |-> "answered", service |-> call.service,
                   code |-> code, body |-> body]
      BY <3>2, CallShape DEF TypeOK, Fails
    <3> QED
      BY <3>3
  <2>2. CASE TimesOut
    <3>1. call' = [phase |-> "answered", service |-> call.service, code |-> 0,
                   body |-> Empty]
      BY <2>2, CallShape DEF TimesOut, TypeOK
    <3> QED
      BY <3>1
  <2> QED
    BY <2>1, <2>2
<1>2. UNCHANGED <<node, runner, registered>> /\ call.phase # "idle"
  BY DEF Refuse, TimesOut, sensorVars
<1>3. UNCHANGED <<pc, options, tracked, exit_code, failed>>
  BY DEF mainVars
<1>4. /\ unanswered \subseteq unanswered'
      /\ call.phase = "answered" /\ call.service \in Lasting
           => call.service \in unanswered'
  BY DEF Refuse, TimesOut
<1>5. LateInv'
  <2>1. CASE UNCHANGED late
    BY <1>4, <2>1 DEF Account, LateInv
  <2>2. CASE /\ call.phase = "sent" /\ call.service \in Changing
             /\ late' = {call.service}
             /\ unanswered' = unanswered \cup ({call.service} \cap Lasting)
    <3>1. call.service \in {"start", "start_slam", "stop", "put", "delete"}
      BY <2>2 DEF Account, CallsInPlace, Changing, DynamicsServices
    <3> QED
      BY <2>2, <3>1 DEF LateInv
  <2> QED
    BY <2>1, <2>2 DEF Refuse, TimesOut
<1>6. CallsInPlace'
  <2>1. pc' = pc /\ call'.service = call.service /\ call.phase # "idle"
    BY <1>1, <1>2, <1>3
  <2>2. CallsInPlace
    BY DEF Account
  <2> QED
    BY <2>1, <2>2 DEF CallsInPlace
<1>7. PlaceInv'
  BY <1>3 DEF Account, PlaceInv, Autostart
<1>8. StreamInv'
  <2>1. Served("put") => "put" \in unanswered'
    BY <1>4 DEF Served, Hear, Lasting
  <2> QED
    BY <1>1, <1>2, <1>3, <1>4, <2>1 DEF Account, StreamInv, Served, Hear
<1>9. RunInv'
  BY <1>1, <1>2, <1>3, <1>4 DEF Account, RunInv, Served, Hear, Autostart
<1> QED
  BY <1>5, <1>6, <1>7, <1>8, <1>9 DEF Account

LEMMA LateAccount ==
  ASSUME TypeOK, Account, ServeLate, UNCHANGED mainVars
  PROVE  Account'
<1>1. PICK service \in late :
        /\ late' = late \ {service} /\ Effect(service)
        /\ UNCHANGED <<call, unanswered, did>>
  BY DEF ServeLate
<1>2. UNCHANGED <<pc, options, tracked, exit_code, failed>>
  BY DEF mainVars
<1>3. service \in ToolServices /\ (service \in Lasting => service \in unanswered)
  BY DEF Account, LateInv, ToolServices
<1>4. CallsInPlace' /\ LateInv' /\ PlaceInv'
  BY <1>1, <1>2 DEF Account, CallsInPlace, LateInv, PlaceInv, Autostart
<1>5. StreamInv'
  <2>1. registered' => "put" \in unanswered \/ registered
    BY <1>1, <1>3, EffectOnStream DEF Lasting
  <2> QED
    BY <1>1, <1>2, <2>1 DEF Account, StreamInv, Served, Hear
<1>6. RunInv'
  <2>1. node' \in Active /\ runner' = "us" =>
          \/ unanswered \cap {"start", "start_slam"} # {}
          \/ node \in Active /\ runner = "us"
    BY <1>1, <1>3, EffectOnNode DEF Lasting
  <2> QED
    BY <1>1, <1>2, <2>1 DEF Account, RunInv, Served, Hear, Autostart
<1> QED
  BY <1>4, <1>5, <1>6 DEF Account

\* What happens without a request sets nothing running for the tool.
LEMMA SensorAccount ==
  ASSUME Account, NodeMoves \/ SlamMoves \/ Boot \/ Reboot \/ OthersAct,
         UNCHANGED mainVars
  PROVE  Account'
<1>1. UNCHANGED <<pc, options, tracked, exit_code, failed, call, late,
                  unanswered>>
  BY DEF mainVars, NodeMoves, SlamMoves, Boot, Reboot, OthersAct
<1>2. registered' => registered
  BY DEF NodeMoves, SlamMoves, Boot, Reboot, OthersAct
<1>3. node' \in Active /\ runner' = "us" => node \in Active /\ runner = "us"
  <2>1. CASE NodeMoves
    BY <2>1 DEF NodeMoves, Proceed, Active
  <2>2. CASE SlamMoves \/ Boot \/ Reboot \/ OthersAct
    BY <2>2 DEF SlamMoves, Boot, Reboot, OthersAct, Active
  <2> QED
    BY <2>1, <2>2
<1>4. CallsInPlace' /\ LateInv' /\ PlaceInv'
  BY <1>1 DEF Account, CallsInPlace, LateInv, PlaceInv, Autostart
<1>5. StreamInv'
  BY <1>1, <1>2 DEF Account, StreamInv, Served, Hear
<1>6. RunInv'
  BY <1>1, <1>3 DEF Account, RunInv, Served, Hear, Autostart
<1> QED
  BY <1>4, <1>5, <1>6 DEF Account

LEMMA OutsideAccount ==
  ASSUME TypeOK, Account, Outside
  PROVE  Account'
BY ServeAccount, AnswerAccount, LateAccount, SensorAccount DEF Outside, Sensor

-----------------------------------------------------------------------------
(* The tool keeps the account. *)

\* A step of main() leaves the sensor and its requests as they are.
LEMMA ThreadKeeps ==
  ASSUME Main \/ ReceiveFails
  PROVE  /\ UNCHANGED <<node, runner, registered, late, unanswered, options>>
         /\ call'.phase \in {"idle", "sent"}
<1>1. ThreadMoves
  BY MainIsThread
<1>2. call'.phase \in {"idle", "sent"}
  BY <1>1, FinishShape, SendShape DEF ThreadMoves
<1> QED
  BY <1>1, <1>2 DEF ThreadMoves, ThreadOnly, sensorVars

\* Only the handlers of answers add to what failed.
LEMMA FailedGrows == Main \/ ReceiveFails => failed \subseteq failed'
BY DEF Main, Connect, Connecting, Connected, Recheck, Rechecked, List, States,
       Cam2Imu, StartingSlam, Starting, NoReceiver, Open, Adding, FirstMessage,
       FirstTimeout, Why, ReceiveMessage, ReceiveTimeout, StopReceiving,
       ReceiveFails, Closing, Stop, Stopping, Cleaning, HearAt

LEMMA ThreadCallsInPlace == Main \/ ReceiveFails => CallsInPlace'
<1> USE DEF CallsInPlace, CallAt, ContinueAt, Goto, Exit
<1>1. \A service : Send(service) =>
        call'.phase = "sent" /\ call'.service = service
  BY SendShape
<1>2. Finish => call'.phase = "idle"
  BY FinishShape
<1>3. Connect \/ Connecting \/ Recheck \/ Rechecked => CallsInPlace'
  BY <1>1, <1>2 DEF Connect, Connecting, Recheck, Rechecked
<1>4. Connected => CallsInPlace'
  BY <1>1, <1>2 DEF Connected
<1>5. List \/ States \/ Cam2Imu \/ StartingSlam \/ Starting => CallsInPlace'
  BY <1>1, <1>2 DEF List, States, Cam2Imu, StartingSlam, Starting
<1>6. NoReceiver \/ Open \/ Adding \/ FirstMessage \/ FirstTimeout \/ Why
        => CallsInPlace'
  BY <1>1, <1>2 DEF NoReceiver, Open, Adding, FirstMessage, FirstTimeout, Why
<1>7. ReceiveMessage \/ ReceiveTimeout \/ StopReceiving \/ ReceiveFails
        \/ Closing \/ Stop \/ Stopping \/ Cleaning => CallsInPlace'
  BY <1>1, <1>2 DEF ReceiveMessage, ReceiveTimeout, StopReceiving,
     ReceiveFails, Closing, Stop, Stopping, Cleaning
<1> QED
  BY <1>3, <1>4, <1>5, <1>6, <1>7 DEF Main

LEMMA NoThrowIsServed ==
  ASSUME call.service # "check", ~Throws
  PROVE  call.code = 200
BY DEF Throws, Result, HandleCPRResponse, Exceptions

LEMMA PutServedIsNoThrow ==
  ASSUME call.service = "put", call.code = 200
  PROVE  ~Throws
<1>1. Result = "ok"
  BY DEF Result, DynamicsServices, MapServices, Queries
<1> QED
  BY <1>1 DEF Throws, Exceptions

LEMMA ThreadPlaceInv ==
  ASSUME Account, Main \/ ReceiveFails
  PROVE  PlaceInv'
<1> USE DEF Account, PlaceInv, CallAt, ContinueAt, Goto, Exit, Autostart,
            KeepRest, BeforeStream
<1>1. UNCHANGED options /\ failed \subseteq failed'
  BY ThreadKeeps, FailedGrows
<1>2. CASE Connect
  BY <1>1, <1>2 DEF Connect, HearAt
<1>3. CASE Connecting
  BY <1>1, <1>3 DEF Connecting, HearAt
<1>4. CASE Recheck
  BY <1>1, <1>4 DEF Recheck, HearAt
<1>5. CASE Rechecked
  BY <1>1, <1>5 DEF Rechecked, HearAt
<1>6. CASE Connected
  BY <1>1, <1>6 DEF Connected, HearAt
<1>7. CASE List
  BY <1>1, <1>7 DEF List, HearAt
<1>8. CASE States
  BY <1>1, <1>8 DEF States, HearAt
<1>9. CASE Cam2Imu
  BY <1>1, <1>9 DEF Cam2Imu, HearAt
<1>10. CASE Starting
  BY <1>1, <1>10 DEF Starting, HearAt
<1>11. CASE StartingSlam
  <2>1. call.service = "start_slam"
    BY <1>11 DEF StartingSlam, HearAt, Hear, CallsInPlace
  <2>2. Throws => "start_slam" \in failed'
    BY <1>11, <2>1 DEF StartingSlam, HearAt, DynamicsServices
  <2> QED
    BY <1>1, <1>11, <2>2 DEF StartingSlam, HearAt
<1>12. CASE NoReceiver
  BY <1>1, <1>12 DEF NoReceiver
<1>17. CASE Open
  BY <1>1, <1>17 DEF Open
<1>13. CASE Adding
  BY <1>1, <1>13 DEF Adding, HearAt
<1>14. CASE FirstMessage \/ FirstTimeout \/ Why
  BY <1>1, <1>14 DEF FirstMessage, FirstTimeout, Why, HearAt
<1>15. CASE ReceiveMessage \/ ReceiveTimeout \/ StopReceiving \/ ReceiveFails
  BY <1>1, <1>15 DEF ReceiveMessage, ReceiveTimeout, StopReceiving, ReceiveFails, HearAt
<1>16. CASE Closing \/ Stop \/ Stopping \/ Cleaning
  BY <1>1, <1>16 DEF Closing, Stop, Stopping, Cleaning, HearAt
<1> QED
  BY <1>2, <1>3, <1>4, <1>5, <1>6, <1>7, <1>8, <1>9, <1>10,
     <1>11, <1>12, <1>13, <1>14, <1>15, <1>16, <1>17 DEF Main

LEMMA ThreadStreamInv ==
  ASSUME Account, Main \/ ReceiveFails
  PROVE  StreamInv'
<1>1. UNCHANGED <<registered, unanswered>>
  BY ThreadKeeps
<1>2. ~Served("delete")'
  BY ThreadKeeps DEF Served, Hear
<1>3. Served("put") => pc = "adding"
  BY DEF Account, CallsInPlace, Served, Hear
<1>4. CASE Adding
  <2>1. call.service = "put" /\ Hear
    BY <1>4 DEF Adding, HearAt, Hear, Account, CallsInPlace
  <2>2. ~tracked
    BY <1>4 DEF Adding, HearAt, Account, PlaceInv, BeforeStream
  <2>3. CASE Throws
    BY <1>1, <2>1, <2>2, <2>3, PutServedIsNoThrow DEF Account, StreamInv, Served
  <2>4. CASE ~Throws
    BY <1>2, <1>4, <2>4 DEF Adding, StreamInv
  <2> QED
    BY <2>3, <2>4
<1>5. CASE Closing \/ Cleaning
  <2>1. call.service = "delete" /\ Hear /\ pc # "adding"
    BY <1>5 DEF Closing, Cleaning, HearAt, Hear, Account, CallsInPlace
  <2>2. tracked' = (tracked /\ Throws)
    BY <1>5 DEF Closing, Cleaning
  <2>3. ~Throws => Served("delete")
    BY <2>1, NoThrowIsServed DEF Served
  <2> QED
    BY <1>1, <1>2, <1>3, <2>1, <2>2, <2>3 DEF Account, StreamInv
<1>6. CASE Connect \/ Recheck
  <2>1. ~tracked /\ pc # "adding"
    BY <1>6 DEF Connect, Recheck, Account, PlaceInv, BeforeStream
  <2> QED
    BY <1>1, <1>3, <2>1 DEF Account, StreamInv
<1>7. CASE ~(Adding \/ Closing \/ Cleaning \/ Connect \/ Recheck)
  <2>1. tracked' = tracked /\ pc # "adding"
    BY <1>7 DEF Main, Connecting, Connected, Rechecked, List,
       States, Cam2Imu, StartingSlam, Starting, NoReceiver, Open,
       FirstMessage, FirstTimeout, Why, ReceiveMessage, ReceiveTimeout,
       StopReceiving, ReceiveFails, Stop, Stopping, KeepRest, HearAt
  <2> QED
    BY <1>1, <1>2, <1>3, <2>1 DEF Account, StreamInv
<1> QED
  BY <1>4, <1>5, <1>6, <1>7

LEMMA ThreadRunInv ==
  ASSUME Account, Main \/ ReceiveFails
  PROVE  RunInv'
<1>1. UNCHANGED <<node, runner, unanswered, options>> /\ failed \subseteq failed'
  BY ThreadKeeps, FailedGrows
<1>2. ~Served("stop")'
  BY ThreadKeeps DEF Served, Hear
\* The excuses last: the exit code is set once.
<1>3. exit_code = "EXIT_FAILURE" => exit_code' = "EXIT_FAILURE"
  <2>1. exit_code = "EXIT_FAILURE" => Cleaning
    BY DEF Account, PlaceInv, Main, Connect, Connecting, Connected, Recheck,
       Rechecked, List, States, Cam2Imu, StartingSlam, Starting, NoReceiver,
       Open, Adding, FirstMessage, FirstTimeout, Why, ReceiveMessage,
       ReceiveTimeout, StopReceiving, ReceiveFails, Closing, Stop, Stopping,
       HearAt
  <2> QED
    BY <2>1 DEF Cleaning, ContinueAt
<1>4. SUFFICES ASSUME Autostart, pc \in Driving, ~Served("stop")
               PROVE  \/ pc' \in Driving
                      \/ "stop" \in failed'
                      \/ exit_code' = "EXIT_FAILURE"
                           /\ {"start_slam", "start"} \subseteq failed'
  BY <1>1, <1>2, <1>3 DEF Account, RunInv, Autostart
<1> USE DEF CallAt, ContinueAt, Goto, Driving
<1>5. CASE StartingSlam
  BY <1>5 DEF StartingSlam
<1>6. CASE Starting
  <2>1. call.service = "start" /\ "start_slam" \in failed
    BY <1>6 DEF Starting, HearAt, Hear, Account, CallsInPlace, PlaceInv
  <2> QED
    BY <1>1, <1>6, <2>1 DEF Starting, HearAt, DynamicsServices, Exit
<1>7. CASE Stopping
  <2>1. call.service = "stop" /\ Hear
    BY <1>7 DEF Stopping, HearAt, Hear, Account, CallsInPlace
  <2>2. Throws
    BY <1>4, <2>1, NoThrowIsServed DEF Served
  <2> QED
    BY <1>7, <2>1, <2>2 DEF Stopping, HearAt, DynamicsServices
<1>8. CASE Recheck \/ Rechecked \/ Stop
  BY <1>4, <1>8 DEF Recheck, Rechecked, Stop, Autostart
<1>9. CASE NoReceiver \/ Open \/ Adding \/ FirstMessage \/ FirstTimeout \/ Why
             \/ ReceiveMessage \/ ReceiveTimeout \/ StopReceiving
             \/ ReceiveFails \/ Closing
  BY <1>9 DEF NoReceiver, Open, Adding, FirstMessage, FirstTimeout, Why,
     ReceiveMessage, ReceiveTimeout, StopReceiving, ReceiveFails, Closing
<1>10. CASE Connect \/ Connecting \/ Connected \/ List \/ States \/ Cam2Imu
              \/ Cleaning
  BY <1>4, <1>10 DEF Connect, Connecting, Connected, List, States, Cam2Imu,
     Cleaning, HearAt
<1> QED
  BY <1>5, <1>6, <1>7, <1>8, <1>9, <1>10 DEF Main

LEMMA ThreadAccount ==
  ASSUME Account, Main \/ ReceiveFails
  PROVE  Account'
<1>1. LateInv'
  BY ThreadKeeps DEF Account, LateInv
<1> QED
  BY <1>1, ThreadCallsInPlace, ThreadPlaceInv, ThreadStreamInv, ThreadRunInv
     DEF Account

LEMMA AccountKept == TypeOK /\ Account /\ [Next]_vars => Account'
<1> SUFFICES ASSUME TypeOK, Account, [Next]_vars PROVE Account'
  OBVIOUS
<1>1. CASE Main \/ ReceiveFails
  BY <1>1, ThreadAccount
<1>2. CASE Outside
  BY <1>2, OutsideAccount
<1>3. CASE SignalCallbackHandler \/ Clock \/ UNCHANGED vars
  <2>1. UNCHANGED <<serviceVars, pc, options, tracked, exit_code, failed>>
    BY <1>3 DEF SignalCallbackHandler, Clock, vars, mainVars
  <2> QED
    <3>1. UNCHANGED <<node, runner, registered, late, unanswered, call, pc,
                      options, tracked, exit_code, failed>>
      BY <2>1 DEF serviceVars, sensorVars
    <3>2. CallsInPlace' /\ LateInv' /\ PlaceInv'
      BY <3>1 DEF Account, CallsInPlace, LateInv, PlaceInv, Autostart
    <3>3. StreamInv'
      BY <3>1 DEF Account, StreamInv, Served, Hear
    <3>4. RunInv'
      BY <3>1 DEF Account, RunInv, Served, Hear, Autostart
    <3> QED
      BY <3>2, <3>3, <3>4 DEF Account
<1> QED
  BY <1>1, <1>2, <1>3 DEF Next

-----------------------------------------------------------------------------
(* The theorems. *)

LEMMA ToolInvariant == Spec => [](TypeOK /\ Account)
<1>1. Init => TypeOK
  <2> SUFFICES ASSUME Init PROVE TypeOK
    OBVIOUS
  <2>1. ServiceTypeOK
    BY EmptyBody DEF Init, ServiceInit, ServiceTypeOK, Quiet, Undone, Services,
       State, SlamState
  <2>2. options.max_num # Unlimited => options.max_num \in 0..MaxMsgs
    BY DEF Init, Options
  <2>3. /\ cnt_msgs \in 0..MaxMsgs /\ clock \in 0..MaxTicks
        /\ elapsed_secs \in 0..clock
        /\ options.max_num # Unlimited => cnt_msgs <= options.max_num
    BY <2>2, RcDynamicsStreamAssumption DEF Init
  <2>4. /\ options \in Options /\ pc \in Places
        /\ caught_signal \in BOOLEAN /\ initialized \in BOOLEAN
        /\ tracked \in BOOLEAN /\ failed \subseteq Services
        /\ exit_code \in {"none", "EXIT_SUCCESS", "EXIT_FAILURE"}
    BY DEF Init, Places
  <2> QED
    BY <2>1, <2>3, <2>4 DEF TypeOK
<1>2. Init => Account
  BY DEF Init, ServiceInit, Account, CallsInPlace, LateInv, PlaceInv,
     StreamInv, RunInv, Quiet, Active
<1> QED
  BY <1>1, <1>2, TypesKept, AccountKept, PTL DEF Spec

\* Every variable of the tool and of the sensor keeps its type.
THEOREM ToolTypes == Spec => []TypeOK
BY ToolInvariant, PTL

\* rc_dynamics runs on the tool's behalf after its end only if stop() threw,
\* if both starts threw, or if a start that timed out was served after all.
THEOREM ToolStopsDynamics == Spec => []LeftRunningAccounted
<1>1. Account => LeftRunningAccounted
  BY DEF Account, RunInv, LeftRunningAccounted, Ended, Driving
<1> QED
  BY <1>1, ToolInvariant, PTL

\* The sensor streams to a tool that has ended only if the answer to the PUT
\* was lost, or if the DELETEs failed and the destination is still tracked.
THEOREM ToolEndsStream == Spec => []StreamLeftAccounted
<1>1. Account => StreamLeftAccounted
  <2> SUFFICES ASSUME Account, Ended, registered
               PROVE  tracked \/ "put" \in unanswered
    BY DEF StreamLeftAccounted
  <2>1. ~Served("put")
    BY DEF Account, CallsInPlace, Served, Hear, Ended
  <2> QED
    BY <2>1 DEF Account, StreamInv
<1> QED
  BY <1>1, ToolInvariant, PTL

-----------------------------------------------------------------------------
(* The tool as a program of DynamicsService. *)

QuietInv == call.phase = "idle" => call = Quiet

LEMMA QuietKept == QuietInv /\ [Next]_vars => QuietInv'
<1> SUFFICES ASSUME QuietInv, [Next]_vars PROVE QuietInv'
  OBVIOUS
<1>1. CASE Main \/ ReceiveFails
  BY <1>1, MainIsThread, SendShape, FinishShape
  DEF ThreadMoves, QuietInv, Finish
<1>2. CASE Outside
  <2>1. CASE TimesOut
    BY <2>1 DEF TimesOut, QuietInv
  <2>2. CASE Serve
    BY <2>2 DEF Serve, QuietInv
  <2>3. CASE Refuse
    BY <2>3 DEF Refuse, Fails, QuietInv
  <2>4. CASE ServeLate \/ NodeMoves \/ SlamMoves \/ Boot \/ Reboot \/ OthersAct
    BY <2>4 DEF ServeLate, NodeMoves, SlamMoves, Boot, Reboot, OthersAct, QuietInv
  <2> QED
    BY <1>2, <2>1, <2>2, <2>3, <2>4 DEF Outside, Sensor
<1>3. CASE SignalCallbackHandler \/ Clock \/ UNCHANGED vars
  BY <1>3 DEF SignalCallbackHandler, Clock, vars, serviceVars, QuietInv
<1> QED
  BY <1>1, <1>2, <1>3 DEF Next

\* main() stands still while a call is on the wire.
LEMMA ThreadWaits == CallsInPlace /\ (Main \/ ReceiveFails) => call.phase # "sent"
<1> USE DEF CallsInPlace, HearAt, Hear
<1>1. CallsInPlace /\ (Connect \/ Connecting \/ Connected \/ Recheck \/ Rechecked)
        => call.phase # "sent"
  BY DEF Connect, Connecting, Connected, Recheck, Rechecked
<1>2. CallsInPlace /\ (List \/ States \/ Cam2Imu \/ StartingSlam \/ Starting)
        => call.phase # "sent"
  BY DEF List, States, Cam2Imu, StartingSlam, Starting
<1>3. CallsInPlace /\ (NoReceiver \/ Open \/ Adding \/ FirstMessage \/ FirstTimeout \/ Why)
        => call.phase # "sent"
  BY DEF NoReceiver, Open, Adding, FirstMessage, FirstTimeout, Why
<1>4. CallsInPlace /\ (ReceiveMessage \/ ReceiveTimeout \/ StopReceiving \/ ReceiveFails
                         \/ Closing \/ Stop \/ Stopping \/ Cleaning)
        => call.phase # "sent"
  BY DEF ReceiveMessage, ReceiveTimeout, StopReceiving, ReceiveFails, Closing,
         Stop, Stopping, Cleaning
<1> QED
  BY <1>1, <1>2, <1>3, <1>4 DEF Main

LEMMA StepIsService ==
  ASSUME TypeOK, CallsInPlace, QuietInv, [Next]_vars
  PROVE  [ServiceNext]_serviceVars
<1>1. CASE Main \/ ReceiveFails
  <2>1. call.phase # "sent" /\ call.phase \in {"idle", "sent", "answered"}
    BY <1>1, ThreadWaits DEF TypeOK, ServiceTypeOK
  <2>2. ThreadOnly /\ (Finish \/ \E service \in Services : Send(service))
    BY <1>1, MainIsThread DEF ThreadMoves
  <2>3. CASE \E service \in Services : Send(service)
    BY <2>1, <2>2, <2>3 DEF CallService, ThreadOnly, ServiceNext
  <2>4. CASE Finish /\ Hear
    BY <2>2, <2>4 DEF ServiceReturns, ThreadOnly, ServiceNext
  <2>5. CASE Finish /\ call.phase = "idle"
    BY <2>2, <2>5 DEF QuietInv, Finish, ThreadOnly, serviceVars
  <2> QED
    BY <2>1, <2>2, <2>3, <2>4, <2>5 DEF Hear
<1>2. CASE Outside
  BY <1>2 DEF Outside, ServiceNext
<1>3. CASE SignalCallbackHandler \/ Clock \/ UNCHANGED vars
  BY <1>3 DEF SignalCallbackHandler, Clock, vars
<1> QED
  BY <1>1, <1>2, <1>3 DEF Next

\* rcdynamics_stream implements ServiceSpec, with any command line, signals
\* at any time and all faults: it makes one call at a time and does nothing to
\* the sensor but by calls.
THEOREM ToolUsesServices == Spec => ImplementsService
<1>1. Init => ServiceInit
  BY DEF Init
<1>2. Init => QuietInv
  BY DEF Init, ServiceInit, QuietInv
<1>3. Spec => []QuietInv
  BY <1>2, QuietKept, PTL DEF Spec
<1>4. Account => CallsInPlace
  BY DEF Account
<1>5. TypeOK /\ CallsInPlace /\ QuietInv /\ [Next]_vars => [ServiceNext]_serviceVars
  BY StepIsService
<1>6. Spec => ServiceSpec
  BY <1>1, <1>3, <1>4, <1>5, ToolInvariant, PTL DEF Spec, ServiceSpec
<1> QED
  BY <1>6 DEF ImplementsService

\* So what the tool is told by an answer of rc_dynamics is true of the sensor.
THEOREM ToolHearsTheTruth == Spec => []AnswersAreTrue
BY ToolUsesServices, ServiceAnswersTrue, PTL DEF ImplementsService
=============================================================================
