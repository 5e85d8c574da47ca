------------------------------ MODULE RestCall ------------------------------
(***************************************************************************)
(* What the rest of the library relies on when it calls one of the         *)
(* cpr...WithRetry() wrappers and handleCPRResponse(): the sensor serves   *)
(* the request at most once, and the way the call ends says what is known  *)
(* of that.  Normal return: served.  TooManyRequests or NotAvailable: not  *)
(* served, now or later.  runtime_error: unknown, perhaps served later.    *)
(***************************************************************************)
EXTENDS Naturals

CONSTANT Calls   \* the REST calls of a run of the program

VARIABLES
  outcome,  \* outcome[c]: "none" before the call, "open" during it, its end
  served    \* served[c]: how often the sensor has served it

vars == <<outcome, served>>

Ends == {"ok", "TooManyRequests", "NotAvailable", "runtime_error"}

Init ==
  /\ outcome = [c \in Calls |-> "none"]
  /\ served = [c \in Calls |-> 0]

Begin(c) ==
  /\ outcome[c] = "none"
  /\ outcome' = [outcome EXCEPT ![c] = "open"]
  /\ UNCHANGED served

Serve(c) ==
  /\ outcome[c] \in {"open", "runtime_error"}
  /\ served[c] = 0
  /\ served' = [served EXCEPT ![c] = 1]
  /\ UNCHANGED outcome

End(c, e) ==
  /\ outcome[c] = "open"
  /\ e = "ok" => served[c] = 1
  /\ e \in {"TooManyRequests", "NotAvailable"} => served[c] = 0
  /\ outcome' = [outcome EXCEPT ![c] = e]
  /\ UNCHANGED served

Next == \E c \in Calls : Begin(c) \/ Serve(c) \/ \E e \in Ends : End(c, e)

Spec == Init /\ [][Next]_vars
=============================================================================
