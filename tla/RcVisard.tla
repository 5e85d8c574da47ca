------------------------------ MODULE RcVisard ------------------------------
(***************************************************************************)
(* The rc_visard sensor as the client library sees it, and the HTTP        *)
(* exchange between the two.  The firmware is not part of this repository: *)
(* the answers below are those that remote_interface.cc distinguishes.     *)
(*                                                                         *)
(* One client thread has at most one exchange open: `wire`.  A request the *)
(* client stopped waiting for can still reach the sensor afterwards:       *)
(* `late`.                                                                 *)
(***************************************************************************)
EXTENDS Naturals, FiniteSets

CONSTANTS
  Streams,     \* the stream names a caller may pass
  Offered,     \* those the sensor lists under /datastreams
  Dests,       \* destinations "ip:port"
  Capacity,    \* destinations the sensor accepts before it answers 403
  MaxForeign,  \* bound: destinations other hosts hold at once
  MaxLate,     \* bound: abandoned requests still on their way at once
  Faults,      \* which of FaultKinds may happen in this instance
  None         \* no stream

FaultKinds == {"timeout", "late", "refuse", "absent", "reboot"}

ASSUME RcVisardAssumption ==
  /\ Offered \subseteq Streams
  /\ Capacity \in Nat
  /\ MaxForeign \in 0..Capacity
  /\ MaxLate \in Nat
  /\ Faults \subseteq FaultKinds
  /\ None \notin Streams

VARIABLES
  wire,          \* the open exchange: idle, a request sent, or its answer
  late,          \* requests the client gave up on, not yet seen by the sensor
  power,         \* "down" (gateway only), "booting" or "ready"
  destinations,  \* destinations[s]: where the sensor sends stream s for us
  foreign        \* number of destinations registered by other hosts

deviceVars == <<power, destinations, foreign>>

Methods == {"GET system", "GET datastreams", "GET", "PUT", "DELETE"}

Exchange == [phase: {"idle", "sent", "answered"}, method: Methods,
             stream: Streams \cup {None}, dests: SUBSET Dests,
             code: {0, 200, 403, 404, 429, 502}, ready: BOOLEAN]

\* The exchange of a client that is not in a REST call.
Quiet == [phase |-> "idle", method |-> "GET", stream |-> None, dests |-> {},
          code |-> 0, ready |-> FALSE]

Request(m, s, ds) ==
  [phase |-> "sent", method |-> m, stream |-> s, dests |-> ds,
   code |-> 0, ready |-> FALSE]

\* The answer with HTTP status c; rd is the "ready" field of its body.
Answer(rq, c, rd) ==
  [phase |-> "answered", method |-> rq.method, stream |-> rq.stream,
   dests |-> rq.dests, code |-> c, ready |-> rd]

Served == {p \in Streams \X Dests : p[2] \in destinations[p[1]]}

Room(n) == foreign + Cardinality(Served) + n <= Capacity

RcVisardTypeOK ==
  /\ wire \in Exchange
  /\ late \subseteq Exchange
  /\ power \in {"down", "booting", "ready"}
  /\ destinations \in [Streams -> SUBSET Dests]
  /\ foreign \in Nat

RcVisardInit ==
  /\ wire = Quiet
  /\ late = {}
  /\ power \in {"down", "booting", "ready"}
  /\ destinations = [s \in Streams |-> {}]
  /\ foreign = 0

-----------------------------------------------------------------------------
(* The sensor answers the open request. *)

\* The gateway answers 502 until the REST server runs; then /system tells
\* whether the sensor is ready.
AnswerSystem ==
  /\ wire.phase = "sent" /\ wire.method = "GET system"
  /\ wire' = IF power = "down" THEN Answer(wire, 502, FALSE)
                               ELSE Answer(wire, 200, power = "ready")
  /\ UNCHANGED deviceVars

AnswerGet ==
  /\ wire.phase = "sent" /\ wire.method \in {"GET datastreams", "GET"}
  /\ wire' = Answer(wire, IF power = "ready" THEN 200 ELSE 502, FALSE)
  /\ UNCHANGED deviceVars

\* A destination is added, or refused with 403 when there are too many.
AnswerPut ==
  /\ wire.phase = "sent" /\ wire.method = "PUT" /\ power = "ready"
  /\ \/ /\ wire.dests \subseteq destinations[wire.stream] \/ Room(1)
        /\ destinations' =
             [destinations EXCEPT ![wire.stream] = @ \cup wire.dests]
        /\ wire' = Answer(wire, 200, FALSE)
     \/ /\ ~(wire.dests \subseteq destinations[wire.stream] \/ Room(1))
        /\ wire' = Answer(wire, 403, FALSE)
        /\ UNCHANGED destinations
  /\ UNCHANGED <<power, foreign>>

\* Destinations are removed.  A sensor that minds absent ones answers 404 and
\* removes none.
AnswerDelete ==
  /\ wire.phase = "sent" /\ wire.method = "DELETE" /\ power = "ready"
  /\ \/ /\ destinations' =
             [destinations EXCEPT ![wire.stream] = @ \ wire.dests]
        /\ wire' = Answer(wire, 200, FALSE)
     \/ /\ "absent" \in Faults
        /\ ~(wire.dests \subseteq destinations[wire.stream])
        /\ wire' = Answer(wire, 404, FALSE)
        /\ UNCHANGED destinations
  /\ UNCHANGED <<power, foreign>>

\* A sensor that is not ready changes nothing.
AnswerUnavailable ==
  /\ wire.phase = "sent" /\ wire.method \in {"PUT", "DELETE"}
  /\ power # "ready"
  /\ wire' = Answer(wire, 502, FALSE)
  /\ UNCHANGED deviceVars

\* The rate limiter answers 429 to the request and to each of its retries.
RefuseRequest ==
  /\ "refuse" \in Faults
  /\ wire.phase = "sent"
  /\ wire' = Answer(wire, 429, FALSE)
  /\ UNCHANGED deviceVars

AnswerRequest ==
  AnswerSystem \/ AnswerGet \/ AnswerPut \/ AnswerDelete \/ AnswerUnavailable
    \/ RefuseRequest

-----------------------------------------------------------------------------
(* The network and the sensor's own life. *)

\* cpr::Timeout expires: the client sees status 0, whether the request or its
\* answer was lost, or the request is merely slow.
RequestTimesOut ==
  /\ "timeout" \in Faults
  /\ wire.phase = "sent" \/ (wire.phase = "answered" /\ wire.code # 0)
  /\ wire' = Answer(wire, 0, FALSE)
  /\ \/ UNCHANGED late
     \/ /\ "late" \in Faults
        /\ wire.phase = "sent" /\ wire.method \in {"PUT", "DELETE"}
        /\ Cardinality(late) < MaxLate
        /\ late' = late \cup {wire}
  /\ UNCHANGED deviceVars

\* A request the client no longer waits for takes effect.
ServeLateRequest(rq) ==
  /\ power = "ready"
  /\ late' = late \ {rq}
  /\ \/ /\ rq.method = "PUT" /\ Room(1)
        /\ destinations' = [destinations EXCEPT ![rq.stream] = @ \cup rq.dests]
     \/ /\ rq.method = "DELETE"
        /\ destinations' = [destinations EXCEPT ![rq.stream] = @ \ rq.dests]
  /\ UNCHANGED <<wire, power, foreign>>

Boot ==
  /\ \/ power = "down" /\ power' = "booting"
     \/ power = "booting" /\ power' = "ready"
  /\ UNCHANGED <<wire, late, destinations, foreign>>

\* Whether a restart keeps the registered destinations is the sensor's secret.
Reboot ==
  /\ "reboot" \in Faults
  /\ power = "ready" /\ power' = "down"
  /\ destinations' \in {destinations, [s \in Streams |-> {}]}
  /\ UNCHANGED <<wire, late, foreign>>

ForeignHostActs ==
  /\ \/ foreign < MaxForeign /\ Room(1) /\ foreign' = foreign + 1
     \/ foreign > 0 /\ foreign' = foreign - 1
  /\ UNCHANGED <<wire, late, power, destinations>>
=============================================================================
