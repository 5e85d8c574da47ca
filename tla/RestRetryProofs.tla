-------------------------- MODULE RestRetryProofs ---------------------------
(***************************************************************************)
(* The retry loop implements RestCall, for every set of calls and every    *)
(* number of attempts.                                                     *)
(***************************************************************************)
EXTENDS RestRetry, TLAPS

USE RestRetryAssumption

LEMMA InitInv == Init => IInv
  BY DEF Init, IInv, TypeOK, OneRequest, OutcomeInv, ThreadInv, Codes,
         Refusals, Rest!Ends

\* A new attempt of call c, which has no other request in flight.
LEMMA SendInv ==
  ASSUME IInv, NEW c \in Calls, NEW i \in 1..Attempts, Send(c, i),
         current' = c, served' = served, served[c] = 0,
         \A rq \in inflight : rq[1] # c,
         outcome' = [outcome EXCEPT ![c] = "open"],
         \/ current = None /\ outcome[c] = "none"
         \/ current = c
  PROVE  IInv'
  <1> USE DEF IInv
  <1>1. TypeOK'
    BY DEF TypeOK, Send, Rest!Ends
  <1>2. OneRequest'
    BY DEF TypeOK, OneRequest, Send
  <1>3. OutcomeInv'
    BY DEF TypeOK, OutcomeInv, Send
  <1>4. ThreadInv'
    BY DEF TypeOK, ThreadInv, Send, Refusals
  <1>5. QED
    BY <1>1, <1>2, <1>3, <1>4

\* The open call ends in a way that agrees with what the sensor has done.
LEMMA EndCallInv ==
  ASSUME IInv, NEW e \in Rest!Ends, EndCall(e), phase # "idle",
         e = "ok" => served[current] = 1,
         e \in {"TooManyRequests", "NotAvailable"} => served[current] = 0,
         e # "runtime_error" => \A rq \in inflight : rq[1] # current
  PROVE  IInv'
  <1> USE DEF IInv
  <1>1. current \in Calls
    BY DEF TypeOK, ThreadInv
  <1>2. TypeOK'
    <2>1. outcome' \in [Calls -> Rest!Ends \cup {"none", "open"}]
      BY DEF TypeOK, EndCall
    <2>2. 1 \in 1..Attempts
      OBVIOUS
    <2>3. QED
      BY <2>1, <2>2 DEF TypeOK, EndCall
  <1>3. OneRequest'
    BY DEF OneRequest, EndCall
  <1>4. OutcomeInv'
    BY <1>1 DEF TypeOK, OutcomeInv, EndCall, Rest!Ends
  <1>5. ThreadInv'
    BY <1>1 DEF TypeOK, ThreadInv, EndCall, Refusals
  <1>6. QED
    BY <1>2, <1>3, <1>4, <1>5

\* A step of the thread or a timeout keeps the invariant.
LEMMA CallInv == IInv /\ (\E c \in Calls : Call(c)) => IInv'
  <1> SUFFICES ASSUME IInv, NEW c \in Calls, Call(c) PROVE IInv'
    OBVIOUS
  <1>1. served[c] = 0 /\ \A rq \in inflight : rq[1] # c
    BY DEF IInv, OutcomeInv, Call
  <1>2. current = None
    BY DEF IInv, ThreadInv, Call
  <1>3. 1 \in 1..Attempts
    OBVIOUS
  <1>4. QED
    BY <1>1, <1>2, <1>3, SendInv DEF Call

LEMMA GoToSleepInv == IInv /\ GoToSleep => IInv'
  BY DEF GoToSleep, Retried, IInv, TypeOK, OneRequest, OutcomeInv, ThreadInv,
         Refusals

LEMMA TakeAnswerInv == IInv /\ TakeAnswer => IInv'
  <1> SUFFICES ASSUME IInv, TakeAnswer PROVE IInv'
    OBVIOUS
  <1>0. phase # "idle" /\ answer \in Codes \ {"429"} /\ current \in Calls
    BY DEF TakeAnswer, Retried, IInv, TypeOK, ThreadInv
  <1>1. CASE answer = "200"
    <2>1. EndCall("ok")
      BY <1>1 DEF TakeAnswer, HandleCPRResponse
    <2>2. served[current] = 1 /\ \A rq \in inflight : rq[1] # current
      BY <1>0, <1>1 DEF IInv, ThreadInv, OneRequest
    <2>3. QED
      BY <1>0, <2>1, <2>2, EndCallInv DEF Rest!Ends
  <1>2. CASE answer = "404"
    <2>1. EndCall("NotAvailable")
      BY <1>2 DEF TakeAnswer, HandleCPRResponse
    <2>2. served[current] = 0 /\ \A rq \in inflight : rq[1] # current
      BY <1>2 DEF IInv, ThreadInv, Refusals
    <2>3. QED
      BY <1>0, <2>1, <2>2, EndCallInv DEF Rest!Ends
  <1>3. CASE answer \in {"0", "other"}
    <2>1. EndCall("runtime_error")
      BY <1>3 DEF TakeAnswer, HandleCPRResponse
    <2>2. QED
      BY <1>0, <2>1, EndCallInv DEF Rest!Ends
  <1>4. QED
    BY <1>0, <1>1, <1>2, <1>3 DEF Codes, Refusals

LEMMA WakeUpInv == IInv /\ WakeUp => IInv'
  <1> SUFFICES ASSUME IInv, WakeUp PROVE IInv'
    OBVIOUS
  <1>1. /\ phase = "sleeping" /\ current \in Calls /\ attempt \in 1..Attempts
        /\ served[current] = 0
        /\ \A rq \in inflight : rq[1] # current
    BY DEF WakeUp, IInv, TypeOK, ThreadInv
  <1>2. CASE attempt < Attempts
    <2>1. attempt + 1 \in 1..Attempts
      BY <1>1, <1>2
    <2>2. outcome' = [outcome EXCEPT ![current] = "open"]
      BY <1>1, <1>2 DEF WakeUp, IInv, TypeOK, OutcomeInv
    <2>3. QED
      BY <1>1, <1>2, <2>1, <2>2, SendInv DEF WakeUp
  <1>3. CASE ~(attempt < Attempts)
    BY <1>1, <1>3, EndCallInv DEF WakeUp, Rest!Ends
  <1>4. QED
    BY <1>2, <1>3

LEMMA TimesOutInv == IInv /\ TimesOut => IInv'
  BY DEF TimesOut, IInv, TypeOK, OneRequest, OutcomeInv, ThreadInv, Refusals,
         Codes

\* A request in flight belongs to a call that is open or ended in doubt, and
\* if it is the current call's, the thread still waits or has given up.
LEMMA InFlight ==
  ASSUME IInv, NEW rq \in inflight
  PROVE  /\ rq[1] \in Calls
         /\ served[rq[1]] = 0
         /\ outcome[rq[1]] \in {"open", "runtime_error"}
         /\ \A other \in inflight \ {rq} : other[1] # rq[1]
         /\ rq[1] = current => answer \notin Refusals /\ phase = "waiting"
         /\ rq = <<current, attempt>> => rq[1] = current
  <1>1. rq[1] \in Calls
    BY DEF IInv, TypeOK
  <1>2. QED
    BY <1>1 DEF IInv, TypeOK, OneRequest, OutcomeInv, ThreadInv, Rest!Ends

LEMMA ServeRequestInv ==
  ASSUME IInv, NEW rq \in inflight, ServeRequest(rq) PROVE IInv'
  <1> USE DEF IInv
  <1>1. TypeOK'
    BY InFlight DEF TypeOK, ServeRequest, AnswerTo, Codes
  <1>2. OneRequest'
    BY InFlight DEF TypeOK, OneRequest, ServeRequest
  <1>3. OutcomeInv'
    BY InFlight DEF TypeOK, OutcomeInv, ServeRequest
  <1>4. ThreadInv'
    BY InFlight DEF TypeOK, ThreadInv, ServeRequest, AnswerTo, Refusals
  <1>5. QED
    BY <1>1, <1>2, <1>3, <1>4

LEMMA RefuseRequestInv ==
  ASSUME IInv, NEW rq \in inflight, NEW code \in Refusals,
         RefuseRequest(rq, code)
  PROVE  IInv'
  <1> USE DEF IInv
  <1>1. TypeOK'
    BY DEF TypeOK, RefuseRequest, AnswerTo, Codes
  <1>2. OneRequest'
    BY DEF OneRequest, RefuseRequest
  <1>3. OutcomeInv'
    BY DEF OutcomeInv, RefuseRequest
  <1>4. ThreadInv'
    BY InFlight DEF TypeOK, ThreadInv, RefuseRequest, AnswerTo, Refusals
  <1>5. QED
    BY <1>1, <1>2, <1>3, <1>4

LEMMA LoseRequestInv ==
  ASSUME IInv, NEW rq \in inflight, LoseRequest(rq) PROVE IInv'
  BY DEF IInv, TypeOK, OneRequest, OutcomeInv, ThreadInv, LoseRequest

LEMMA NextInv == IInv /\ [Next]_vars => IInv'
  <1> SUFFICES ASSUME IInv, [Next]_vars PROVE IInv'
    OBVIOUS
  <1>1. CASE \E c \in Calls : Call(c)
    BY <1>1, CallInv
  <1>2. CASE Thread
    BY <1>2, GoToSleepInv, TakeAnswerInv, WakeUpInv DEF Thread
  <1>3. CASE TimesOut
    BY <1>3, TimesOutInv
  <1>4. CASE Network
    BY <1>4, ServeRequestInv, RefuseRequestInv, LoseRequestInv DEF Network
  <1>5. CASE UNCHANGED vars
    BY <1>5 DEF vars, IInv, TypeOK, OneRequest, OutcomeInv, ThreadInv
  <1>6. QED
    BY <1>1, <1>2, <1>3, <1>4, <1>5 DEF Next, Terminated

\* The invariant holds in every reachable state: no call has two unresolved
\* requests, and each outcome agrees with what the sensor did.
THEOREM Invariance == Spec => []IInv
  BY InitInv, NextInv, PTL DEF Spec

-----------------------------------------------------------------------------
(* Every step of the loop is a step of RestCall or none at all. *)

\* The step of RestCall that ends a call.
LEMMA EndStep ==
  ASSUME IInv, NEW e \in Rest!Ends, EndCall(e), phase # "idle",
         e = "ok" => served[current] = 1,
         e \in {"TooManyRequests", "NotAvailable"} => served[current] = 0
  PROVE  Rest!Next
  <1>1. current \in Calls
    BY DEF IInv, TypeOK, ThreadInv
  <1>2. outcome[current] = "open"
    BY <1>1 DEF IInv, OutcomeInv
  <1>3. Rest!End(current, e)
    BY <1>1, <1>2 DEF EndCall, Rest!End
  <1>4. QED
    BY <1>1, <1>3 DEF Rest!Next

LEMMA StepSimulation == IInv /\ [Next]_vars => [Rest!Next]_Rest!vars
  <1> SUFFICES ASSUME IInv, [Next]_vars, ~(UNCHANGED <<outcome, served>>)
               PROVE  Rest!Next
    BY DEF Rest!vars
  <1>1. CASE \E c \in Calls : Call(c)
    BY <1>1 DEF Call, Rest!Next, Rest!Begin
  <1>2. CASE TakeAnswer
    <2>0. phase # "idle" /\ answer \in Codes \ {"429"}
      BY <1>2 DEF TakeAnswer, Retried, IInv, TypeOK
    <2>1. CASE answer = "200"
      <3>1. EndCall("ok") /\ served[current] = 1
        BY <1>2, <2>1 DEF TakeAnswer, HandleCPRResponse, IInv, ThreadInv
      <3>2. QED
        BY <2>0, <3>1, EndStep DEF Rest!Ends
    <2>2. CASE answer = "404"
      <3>1. EndCall("NotAvailable") /\ served[current] = 0
        BY <1>2, <2>2 DEF TakeAnswer, HandleCPRResponse, IInv, ThreadInv,
                          Refusals
      <3>2. QED
        BY <2>0, <3>1, EndStep DEF Rest!Ends
    <2>3. CASE answer \in {"0", "other"}
      <3>1. EndCall("runtime_error")
        BY <1>2, <2>3 DEF TakeAnswer, HandleCPRResponse
      <3>2. QED
        BY <2>0, <3>1, EndStep DEF Rest!Ends
    <2>4. QED
      BY <2>0, <2>1, <2>2, <2>3 DEF Codes, Refusals
  <1>3. CASE WakeUp
    <2>1. EndCall("TooManyRequests") /\ phase = "sleeping"
      BY <1>3 DEF WakeUp
    <2>2. served[current] = 0
      BY <2>1 DEF IInv, ThreadInv
    <2>3. QED
      BY <2>1, <2>2, EndStep DEF Rest!Ends
  <1>4. CASE \E rq \in inflight : ServeRequest(rq)
    <2>1. PICK rq \in inflight : ServeRequest(rq)
      BY <1>4
    <2> DEFINE c == rq[1]
    <2>2. c \in Calls /\ served[c] = 0 /\ outcome[c] \in {"open", "runtime_error"}
      BY <2>1, InFlight
    <2>3. /\ served' = [served EXCEPT ![c] = served[c] + 1]
          /\ UNCHANGED outcome
      BY <2>1 DEF ServeRequest
    <2> HIDE DEF c
    <2>4. Rest!Serve(c)
      BY <2>2, <2>3 DEF Rest!Serve
    <2>5. QED
      BY <2>2, <2>4 DEF Rest!Next
  <1>5. QED
    BY <1>1, <1>2, <1>3, <1>4
       DEF Next, Thread, Network, GoToSleep, TimesOut, RefuseRequest,
           LoseRequest, Terminated, vars

\* The three wrappers with handleCPRResponse() implement RestCall: a request is
\* served at most once however often it is retried, and an exception that
\* denies it was served is right for ever.
THEOREM Implementation == Spec => ImplementsRestCall
  <1>1. Init => Rest!Init
    BY DEF Init, Rest!Init
  <1>2. QED
    BY <1>1, StepSimulation, Invariance, PTL
       DEF Spec, ImplementsRestCall, Rest!Spec
=============================================================================
