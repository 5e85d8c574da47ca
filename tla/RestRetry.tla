----------------------------- MODULE RestRetry ------------------------------
(***************************************************************************)
(* cprGetWithRetry(), cprPutWithRetry() and cprDeleteWithRetry() of        *)
(* remote_interface.cc, each followed by handleCPRResponse() as in every   *)
(* caller.  The three loops are the same but for the HTTP method.  Codes   *)
(* that some callers take before handleCPRResponse() (403, 502) are among  *)
(* the "other" ones here.                                                  *)
(*                                                                         *)
(* One thread calls; its requests travel through a network that may lose   *)
(* them or their answers, or deliver them after the client gave up.        *)
(***************************************************************************)
EXTENDS Naturals, FiniteSets

CONSTANTS
  Calls,     \* the REST calls of a run of the program
  Attempts,  \* size of wait_before_retry: attempts of one call
  None       \* no call

ASSUME RestRetryAssumption ==
  /\ Attempts \in Nat \ {0}
  /\ None \notin Calls

VARIABLES
  current,   \* the call the thread is in, or None
  attempt,   \* which iteration of its loop
  phase,     \* "idle", "waiting" for an answer or "sleeping" before a retry
  answer,    \* status_code the thread is about to look at, or "none"
  inflight,  \* requests <<c, i>> the sensor has not seen yet
  outcome, served   \* as in RestCall

vars == <<current, attempt, phase, answer, inflight, outcome, served>>

\* "0" is cpr's status_code when there was no answer in time.
Refusals == {"404", "429", "other"}
Codes == {"0", "200"} \cup Refusals

Rest == INSTANCE RestCall

TypeOK ==
  /\ current \in Calls \cup {None}
  /\ attempt \in 1..Attempts
  /\ phase \in {"idle", "waiting", "sleeping"}
  /\ answer \in Codes \cup {"none"}
  /\ inflight \subseteq Calls \X (1..Attempts)
  /\ outcome \in [Calls -> Rest!Ends \cup {"none", "open"}]
  /\ served \in [Calls -> Nat]

Init ==
  /\ current = None
  /\ attempt = 1
  /\ phase = "idle"
  /\ answer = "none"
  /\ inflight = {}
  /\ outcome = [c \in Calls |-> "none"]
  /\ served = [c \in Calls |-> 0]

-----------------------------------------------------------------------------
(* The thread. *)

\* cpr::Get, cpr::Put or cpr::Delete for iteration i of the loop of call c.
Send(c, i) ==
  /\ attempt' = i
  /\ phase' = "waiting"
  /\ answer' = "none"
  /\ inflight' = inflight \cup {<<c, i>>}

Call(c) ==
  /\ phase = "idle"
  /\ outcome[c] = "none"
  /\ current' = c
  /\ outcome' = [outcome EXCEPT ![c] = "open"]
  /\ Send(c, 1)
  /\ UNCHANGED served

\* The call ends with a value or an exception.
EndCall(e) ==
  /\ outcome' = [outcome EXCEPT ![current] = e]
  /\ current' = None
  /\ attempt' = 1
  /\ phase' = "idle"
  /\ answer' = "none"
  /\ UNCHANGED <<inflight, served>>

\* Slip: 404 taken for success, as if the resource were already gone.
HandleCPRResponseLeniently(code) ==
  EndCall(CASE code \in {"200", "404"} -> "ok"
            [] code = "429" -> "TooManyRequests"
            [] OTHER -> "runtime_error")

HandleCPRResponse(code) ==
  EndCall(CASE code = "200" -> "ok"
            [] code = "429" -> "TooManyRequests"
            [] code = "404" -> "NotAvailable"
            [] OTHER -> "runtime_error")

\* Slip: a request that got no answer is retried as well.
RetriedUnanswered(code) == code \in {"0", "429"}

Retried(code) == code = "429"

\* Only a refusal for too many requests is retried: the thread sleeps.
GoToSleep ==
  /\ phase = "waiting" /\ answer # "none"
  /\ Retried(answer)
  /\ phase' = "sleeping"
  /\ answer' = "none"
  /\ UNCHANGED <<current, attempt, inflight, outcome, served>>

TakeAnswer ==
  /\ phase = "waiting" /\ answer # "none"
  /\ ~Retried(answer)
  /\ HandleCPRResponse(answer)

\* Slip: the loop does not count.
WakeUpUncounted ==
  /\ phase = "sleeping"
  /\ Send(current, attempt)
  /\ UNCHANGED <<current, outcome, served>>

\* It sleeps after the last attempt too.
WakeUp ==
  /\ phase = "sleeping"
  /\ IF attempt < Attempts
     THEN Send(current, attempt + 1) /\ UNCHANGED <<current, outcome, served>>
     ELSE EndCall("TooManyRequests")

\* cpr::Timeout.
TimesOut ==
  /\ phase = "waiting" /\ answer = "none"
  /\ answer' = "0"
  /\ UNCHANGED <<current, attempt, phase, inflight, outcome, served>>

-----------------------------------------------------------------------------
(* The network and the sensor. *)

\* The answer reaches a thread that still waits for it, or is lost.
AnswerTo(rq, code) ==
  \/ /\ phase = "waiting" /\ answer = "none" /\ rq = <<current, attempt>>
     /\ answer' = code
  \/ UNCHANGED answer

ServeRequest(rq) ==
  /\ inflight' = inflight \ {rq}
  /\ served' = [served EXCEPT ![rq[1]] = @ + 1]
  /\ AnswerTo(rq, "200")
  /\ UNCHANGED <<current, attempt, phase, outcome>>

RefuseRequest(rq, code) ==
  /\ inflight' = inflight \ {rq}
  /\ AnswerTo(rq, code)
  /\ UNCHANGED <<current, attempt, phase, outcome, served>>

\* Lost before the sensor saw it.
LoseRequest(rq) ==
  /\ inflight' = inflight \ {rq}
  /\ UNCHANGED <<current, attempt, phase, answer, outcome, served>>

-----------------------------------------------------------------------------
Thread == GoToSleep \/ TakeAnswer \/ WakeUp

Network ==
  \E rq \in inflight :
    ServeRequest(rq) \/ (\E code \in Refusals : RefuseRequest(rq, code))
      \/ LoseRequest(rq)

\* The program has made all its calls.
Terminated ==
  /\ phase = "idle" /\ inflight = {}
  /\ \A c \in Calls : outcome[c] # "none"
  /\ UNCHANGED vars

Next == (\E c \in Calls : Call(c)) \/ Thread \/ TimesOut \/ Network \/ Terminated

Spec == Init /\ [][Next]_vars

\* The thread runs, sleeping ends, and cpr gives up after its timeout (a call
\* with timeout 0 waits for ever: see RcDynamicsStream).
FairSpec == Spec /\ WF_vars(Thread) /\ WF_vars(TimesOut)

-----------------------------------------------------------------------------
(* What the loop has in flight: the inductive invariant of RestRetryProofs. *)

\* At most one request of a call is unresolved, and none of a served call.
OneRequest ==
  \A c \in Calls :
    /\ served[c] \in {0, 1}
    /\ served[c] = 1 => \A rq \in inflight : rq[1] # c
    /\ \A rq1, rq2 \in inflight : rq1[1] = c /\ rq2[1] = c => rq1 = rq2

\* How each call has ended against what the sensor has done or may yet do.
OutcomeInv ==
  \A c \in Calls :
    /\ outcome[c] = "open" <=> c = current
    /\ outcome[c] = "none" => served[c] = 0
    /\ outcome[c] = "ok" => served[c] = 1
    /\ outcome[c] \in {"TooManyRequests", "NotAvailable"} => served[c] = 0
    /\ outcome[c] \in {"none", "ok", "TooManyRequests", "NotAvailable"}
         => \A rq \in inflight : rq[1] # c

\* What the thread holds in its hands.
ThreadInv ==
  /\ phase = "idle" <=> current = None
  /\ phase # "waiting" => answer = "none"
  /\ phase = "sleeping" \/ answer \in Refusals
       => /\ served[current] = 0
          /\ \A rq \in inflight : rq[1] # current
  /\ answer = "200" => served[current] = 1
  /\ \A rq \in inflight : rq[1] = current => rq = <<current, attempt>>

IInv == TypeOK /\ OneRequest /\ OutcomeInv /\ ThreadInv

-----------------------------------------------------------------------------
(* Properties *)

\* Retrying neither serves a request twice nor blurs what its outcome says:
\* the loop implements the single call of RestCall.
ImplementsRestCall == Rest!Spec

\* Every call comes back, after at most Attempts timeouts and sleeps.
CallReturns ==
  \A c \in Calls : outcome[c] = "open" ~> outcome[c] # "open"
=============================================================================
