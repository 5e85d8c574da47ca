------------------------- MODULE DynamicsServiceProofs -----------------------
(***************************************************************************)
(* What an answer tells its caller, for every interface of the sensor and  *)
(* every combination of faults, and what a trajectory query asks for.      *)
(***************************************************************************)
EXTENDS TrajectoryTime, TLAPS

Entering == DynamicsServices \cup {"reset"}

\* Nothing is done before the sensor answers, nor where it refuses; the body
\* of a service that was served tells its effect, or hides the state.
HonestInv ==
  /\ call = [phase |-> call.phase, service |-> call.service,
             code |-> call.code, body |-> call.body]
  /\ call.phase = "sent" => did = Undone
  /\ Hear /\ call.code \notin {0, 200} => did = Undone
  /\ Hear /\ call.code = 200 /\ call.service \in Entering =>
       /\ did.served
       /\ did = [served |-> TRUE, accepted |-> did.accepted,
                 state |-> did.state]
       /\ did.accepted \in BOOLEAN
       /\ \/ call.body.state = "absent"
          \/ /\ call.body.state \in {did.state, "NEW_STATE"}
             /\ call.body.accepted = IF did.accepted THEN "yes" ELSE "no"

\* The body that reports a service which enters a state.
LEMMA ReportEntered ==
  ASSUME NEW service \in Entering, NEW body \in Report(service)
  PROVE  \/ body.state = "absent"
         \/ /\ body.state \in
                 {IF service = "reset" THEN slam' ELSE node', "NEW_STATE"}
            /\ body.accepted =
                 IF service \in DynamicsServices => Accepts(service)
                 THEN "yes" ELSE "no"
<1>1. CASE Interface = "old"
  BY <1>1 DEF Report, Entering, Empty
<1>2. CASE Interface # "old"
  <2>1. PICK s \in Reported(IF service = "reset" THEN slam' ELSE node') :
          body = [Empty EXCEPT !.state = s,
                   !.accepted = IF service \in DynamicsServices => Accepts(service)
                                THEN "yes" ELSE "no"]
    BY <1>2 DEF Report, Entering
  <2> QED
    BY <2>1 DEF Reported, Empty
<1> QED
  BY <1>1, <1>2

LEMMA ServeIsHonest ==
  ASSUME HonestInv, Serve
  PROVE  HonestInv'
<1>1. PICK body \in Report(call.service) :
        call' = [call EXCEPT !.phase = "answered", !.code = 200, !.body = body]
  BY DEF Serve
<1> DEFINE acc == call.service \in DynamicsServices => Accepts(call.service)
           st == IF call.service = "reset" THEN slam' ELSE node'
<1>2. did' = [served |-> TRUE, accepted |-> acc, state |-> st]
  BY DEF Serve
<1>3. call.service \in Entering =>
        \/ body.state = "absent"
        \/ body.state \in {st, "NEW_STATE"}
           /\ body.accepted = IF acc THEN "yes" ELSE "no"
  BY ReportEntered
<1> HIDE DEF acc, st
<1>4. acc \in BOOLEAN
  BY DEF acc
<1>5. call' = [phase |-> "answered", service |-> call.service, code |-> 200,
               body |-> body]
  BY <1>1 DEF HonestInv
<1> QED
  BY <1>2, <1>3, <1>4, <1>5 DEF HonestInv, Hear

LEMMA HonestNext == HonestInv /\ [ServiceNext]_serviceVars => HonestInv'
<1> SUFFICES ASSUME HonestInv, [ServiceNext]_serviceVars PROVE HonestInv'
  OBVIOUS
<1>1. CASE Serve
  BY <1>1, ServeIsHonest
<1>2. CASE Refuse
  <2>1. PICK code \in {404, 429, 502} :
          \E body \in Partial(call.service, code) : Fails(code, body)
    BY <1>2 DEF Refuse
  <2>2. PICK body \in Partial(call.service, code) : Fails(code, body)
    BY <2>1
  <2>3. call' = [phase |-> "answered", service |-> call.service, code |-> code,
                 body |-> body]
    BY <2>2 DEF HonestInv, Fails
  <2>4. did' = Undone /\ Undone' = Undone
    BY <1>2 DEF HonestInv, Refuse, Undone
  <2> QED
    BY <2>3, <2>4 DEF HonestInv, Hear
<1>3. CASE TimesOut
  <2>1. call' = [phase |-> "answered", service |-> call.service, code |-> 0,
                 body |-> Empty]
    BY <1>3 DEF HonestInv, TimesOut
  <2> QED
    BY <2>1 DEF HonestInv, Hear
<1>5. CASE \E service \in Services : CallService(service)
  <2>1. PICK service \in Services : CallService(service)
    BY <1>5
  <2>2. call' = [phase |-> "sent", service |-> service, code |-> 0,
                 body |-> Empty]
    BY <2>1 DEF CallService, Send, Quiet
  <2>3. did' = Undone /\ Undone' = Undone
    BY <2>1 DEF CallService, Send, Undone
  <2> QED
    BY <2>2, <2>3 DEF HonestInv, Hear
<1>6. CASE ServiceReturns
  <2>1. call' = [phase |-> "idle", service |-> "check", code |-> 0,
                 body |-> Empty]
    BY <1>6 DEF ServiceReturns, Finish, Quiet
  <2> QED
    BY <2>1 DEF HonestInv, Hear
<1>4. CASE ServeLate \/ NodeMoves \/ SlamMoves \/ Boot \/ Reboot \/ OthersAct
             \/ UNCHANGED serviceVars
  <2>1. UNCHANGED <<call, did>>
    BY <1>4 DEF ServeLate, NodeMoves, SlamMoves, Boot, Reboot, OthersAct,
                serviceVars
  <2> QED
    BY <2>1 DEF HonestInv, Hear
<1> QED
  BY <1>1, <1>2, <1>3, <1>4, <1>5, <1>6 DEF ServiceNext, Sensor

LEMMA HonestAnswers == HonestInv => AnswersAreTrue
<1> SUFFICES ASSUME HonestInv, Hear, call.service \in Entering
             PROVE  /\ Result \in State \cup SlamState
                         => did = [served |-> TRUE, accepted |-> TRUE,
                                   state |-> Result]
                    /\ Result = "NotAccepted" => did.served /\ ~did.accepted
                    /\ Result \in {"TooManyRequests", "NotAvailable"}
                         => ~did.served
                    /\ Result = "InvalidState" => did.served
  BY DEF AnswersAreTrue, Entering
<1>1. CASE call.code # 200
  <2>1. Result \in {"TooManyRequests", "NotAvailable", "runtime_error"}
        /\ (call.code = 0 => Result = "runtime_error")
    BY <1>1 DEF Result, HandleCPRResponse, Entering, DynamicsServices
  <2>2. call.code # 0 => ~did.served
    BY <1>1 DEF HonestInv, Undone
  <2> QED
    BY <2>1, <2>2 DEF State, Active, SlamState
<1>2. CASE call.code = 200
  <2>1. PICK valid \in {State, SlamState} :
          Result = ReadEnteredState(valid, call.body)
    <3>1. CASE call.service \in DynamicsServices
      <4>1. Result = ReadEnteredState(State, call.body)
        BY <1>2, <3>1 DEF Result, DynamicsServices, MapServices, Queries
      <4> QED
        BY <4>1
    <3>2. CASE call.service = "reset"
      <4>1. Result = ReadEnteredState(SlamState, call.body)
        BY <1>2, <3>2 DEF Result, DynamicsServices, MapServices, Queries
      <4> QED
        BY <4>1
    <3> QED
      BY <3>1, <3>2 DEF Entering
  <2>2. "NEW_STATE" \notin valid /\ "absent" \notin valid
        /\ valid \cap Exceptions = {} /\ valid \subseteq State \cup SlamState
    BY DEF State, Active, SlamState, Exceptions
  <2>3. CASE call.body.state = "absent"
    BY <2>1, <2>3 DEF ReadEnteredState, State, Active, SlamState
  <2>4. CASE call.body.state # "absent" /\ call.body.state \notin valid
    BY <1>2, <2>1, <2>4 DEF ReadEnteredState, State, Active, SlamState, HonestInv
  <2>5. CASE call.body.state \in valid
    <3>1. /\ did.served /\ did.accepted \in BOOLEAN
          /\ did = [served |-> TRUE, accepted |-> did.accepted,
                    state |-> did.state]
          /\ call.body.state = did.state
          /\ call.body.accepted = IF did.accepted THEN "yes" ELSE "no"
      BY <1>2, <2>2, <2>5 DEF HonestInv
    <3>2. CASE did.accepted
      <4>1. Result = call.body.state
        BY <2>1, <2>2, <2>5, <3>1, <3>2 DEF ReadEnteredState
      <4> QED
        BY <2>2, <2>5, <3>1, <3>2, <4>1 DEF Exceptions
    <3>3. CASE ~did.accepted
      <4>1. Result = "NotAccepted"
        BY <2>1, <2>2, <2>5, <3>1, <3>3 DEF ReadEnteredState
      <4> QED
        BY <3>1, <3>3, <4>1 DEF State, Active, SlamState
    <3> QED
      BY <3>1, <3>2, <3>3
  <2> QED
    BY <2>3, <2>4, <2>5
<1> QED
  BY <1>1, <1>2

\* Whatever requests time out, arrive late or are refused, and whatever other
\* programs do: a returned state was entered for the caller, and a service that
\* was not accepted or was refused has changed nothing.
THEOREM ServiceAnswersTrue == ServiceSpec => []AnswersAreTrue
<1>1. ServiceInit => HonestInv
  BY DEF ServiceInit, HonestInv, Quiet, Hear
<1>2. HonestInv /\ [ServiceNext]_serviceVars => HonestInv'
  BY HonestNext
<1>3. HonestInv => AnswersAreTrue
  BY HonestAnswers
<1> QED
  BY <1>1, <1>2, <1>3, PTL DEF ServiceSpec

-----------------------------------------------------------------------------
(* The times of a trajectory query. *)

\* Every pair of times makes a request that is read as the program means it,
\* for a long of any width, with 64 bits as with the 3 of the runs.
THEOREM TrajectoryRequests == RequestsAsMeant
<1> DEFINE AsMeant(i, edge) ==
      /\ i.from = "epoch" /\ ~InRange(i) <=> Constructed(i) = Invalid
      /\ Constructed(i) # Invalid /\ InRange(i) /\ Expressible(i, edge) =>
           Read([sec |-> Constructed(i).sec, nsec |-> Constructed(i).nsec],
                Constructed(i).relative, edge) = i
<1>1. ASSUME NEW i \in Instant, NEW edge \in {"start", "end"}
      PROVE  AsMeant(i, edge)
  <2> DEFINE t == Constructed(i)
  <2>1. /\ i.sec \in Nat /\ i.nsec \in Nat /\ LongMax \in Nat
        /\ i.sec <= 2 * LongMax + 1 /\ i.nsec <= 2 * LongMax + 1
        /\ i = [from |-> i.from, sec |-> i.sec, nsec |-> i.nsec]
    BY TrajectoryTimeAssumption DEF Instant, ULong, ULongMax
  <2>2. CASE i.from = "epoch"
    <3>1. t = Absolute(i.sec, i.nsec)
      BY <2>2 DEF Constructed
    <3> QED
      BY <2>1, <2>2, <3>1
      DEF Absolute, Time, Signed, ULongMax, InRange, Invalid, Read
  <2>3. CASE i.from = "start"
    <3>1. t = [relative |-> TRUE, sec |-> Signed(i.sec), nsec |-> Signed(i.nsec)]
      BY <2>3 DEF Constructed, RelativeToStart, Time
    <3> QED
      BY <2>1, <2>3, <3>1 DEF Signed, ULongMax, InRange, Invalid, Read, Expressible
  <2>4. CASE i.from = "end"
    <3>1. t = [relative |-> TRUE, sec |-> Signed(Negated(i.sec)),
               nsec |-> Signed(Negated(i.nsec))]
      BY <2>4 DEF Constructed, RelativeToEnd, Time
    <3>2. InRange(i) => t.sec = -i.sec /\ t.nsec = -i.nsec
      BY <2>1, <3>1 DEF Signed, Negated, ULongMax, InRange
    <3> QED
      BY <2>1, <2>4, <3>1, <3>2 DEF InRange, Invalid, Read, Expressible
  <2> QED
    BY <2>2, <2>3, <2>4 DEF Instant
<1>2. \A i \in Instant : Constructed(i).relative \in BOOLEAN
  BY DEF Instant, Constructed, Absolute, RelativeToStart, RelativeToEnd, Time,
         Invalid
<1>3. ASSUME NEW start, NEW end,
             start.relative \in BOOLEAN, end.relative \in BOOLEAN
      PROVE  /\ ReadStart(Request(start, end)) =
                  Read([sec |-> start.sec, nsec |-> start.nsec],
                       start.relative, "start")
             /\ ReadEnd(Request(start, end)) =
                  Read([sec |-> end.sec, nsec |-> end.nsec],
                       end.relative, "end")
  <2>1. /\ ("start_time_relative" \in Request(start, end).flags) = start.relative
        /\ ("end_time_relative" \in Request(start, end).flags) = end.relative
    BY <1>3 DEF Request
  <2>2. /\ Request(start, end).start_time
             = [sec |-> start.sec, nsec |-> start.nsec]
        /\ Request(start, end).end_time = [sec |-> end.sec, nsec |-> end.nsec]
    BY DEF Request
  <2> QED
    BY <2>1, <2>2 DEF ReadStart, ReadEnd
<1> HIDE DEF AsMeant
<1>4. ASSUME NEW i \in Instant, NEW j \in Instant
      PROVE  LET start == Constructed(i)
                 end == Constructed(j)
                 rq == Request(start, end)
             IN  /\ i.from = "epoch" /\ ~InRange(i) <=> start = Invalid
                 /\ start # Invalid /\ InRange(i) /\ Expressible(i, "start")
                      => ReadStart(rq) = i
                 /\ end # Invalid /\ InRange(j) /\ Expressible(j, "end")
                      => ReadEnd(rq) = j
  <2>1. AsMeant(i, "start") /\ AsMeant(j, "end")
    BY <1>1
  <2>2. /\ ReadStart(Request(Constructed(i), Constructed(j))) =
             Read([sec |-> Constructed(i).sec, nsec |-> Constructed(i).nsec],
                  Constructed(i).relative, "start")
        /\ ReadEnd(Request(Constructed(i), Constructed(j))) =
             Read([sec |-> Constructed(j).sec, nsec |-> Constructed(j).nsec],
                  Constructed(j).relative, "end")
    BY <1>2, <1>3
  <2> QED
    BY <2>1, <2>2 DEF AsMeant
<1> QED
  BY <1>4 DEF RequestsAsMeant

\* No query that is ever on the wire asks for another part of the trajectory.
THEOREM TrajectoriesAsked == ServiceSpec => []TrajectoryAsMeant
<1>1. TrajectoryAsMeant
  BY TrajectoryRequests DEF TrajectoryAsMeant
<1> QED
  BY <1>1, PTL
=============================================================================
