------------------------------ MODULE Recording ------------------------------
(***************************************************************************)
(* The way of a stream's messages into the file of rcdynamics_stream:      *)
(* datagrams of the sensor, the socket's queue, DataReceiver::receive(),   *)
(* the message that createReceiverForStream() consumes, and the loop that  *)
(* prints the others with CsvPrinting.  RcDynamicsStream has the rest of   *)
(* the tool and RemoteInterface the rest of the call.                      *)
(*                                                                         *)
(* A program that was killed, or whose DELETE was lost, may have left a    *)
(* destination on the sensor that a later socket takes over with the port: *)
(* that foreign stream is the stray one.  The message types are parameters *)
(* of CsvPrinting: the .proto files are not in this repository.            *)
(***************************************************************************)
EXTENDS CsvPrinting, FiniteSets

CONSTANTS
  Messages,   \* those the sensor may send, of protobuf_map_'s type for the stream
  Fragments,  \* what a parser makes of a datagram cut off or of another type
  MaxSent,    \* bound: datagrams of the stream
  MaxStray,   \* bound: datagrams of the stray stream
  MaxKinds,   \* bound: NetworkKinds that one behaviour shows
  MaxFlight,  \* bound: datagrams on the network at once
  QueueLimit  \* datagrams the socket's receive buffer holds

ASSUME RecordingAssumption ==
  /\ MaxSent \in Nat /\ MaxStray \in Nat /\ MaxKinds \in Nat
  /\ MaxFlight \in Nat \ {0} /\ QueueLimit \in Nat \ {0}
  /\ Messages \cup Fragments \subseteq Message

VARIABLES
  network,     \* what it does to datagrams: a subset of NetworkKinds
  stray,       \* whether the sensor serves the stray destination
  registered,  \* whether it serves the receiver's own
  sent,        \* numbers of datagrams sent: own, foreign
  flight,      \* datagrams on the network
  queue,       \* the socket's receive buffer
  missed,      \* ghost: whether a datagram was lost or found the buffer full
  pc,          \* "closed", "bound", "first", "loop" or "stopped"
  header,      \* the file: its first line,
  lines,       \* and the others
  cnt_msgs,
  consumed     \* ghost: what receive() took from the queue, and made of it

sensorVars == <<network, stray, registered, sent>>
programVars == <<pc, header, lines, cnt_msgs, consumed>>
vars == <<sensorVars, flight, queue, missed, programVars>>

NetworkKinds == {"loses", "duplicates", "reorders"}

\* `whole`: not longer than _buffer, char[512].  A foreign datagram has no
\* message of the type.
NoMessage == [type |-> Scalar, values |-> <<>>]
Datagram == [own: BOOLEAN, number: Nat, message: Messages \cup {NoMessage},
             whole: BOOLEAN]

TypeOK ==
  /\ network \subseteq NetworkKinds
  /\ stray \in BOOLEAN /\ registered \in BOOLEAN /\ missed \in BOOLEAN
  /\ sent \in [own: 0..MaxSent, foreign: 0..MaxStray]
  /\ flight \in Seq(Datagram) /\ queue \in Seq(Datagram)
  /\ Len(flight) <= MaxFlight /\ Len(queue) <= QueueLimit
  /\ pc \in {"closed", "bound", "first", "loop", "stopped"}
  /\ cnt_msgs \in Nat /\ cnt_msgs = Len(lines)
  /\ header # <<>> => cnt_msgs > 0

Init ==
  /\ network \in {ks \in SUBSET NetworkKinds : Cardinality(ks) <= MaxKinds}
  /\ stray \in BOOLEAN
  /\ registered = FALSE
  /\ sent = [own |-> 0, foreign |-> 0]
  /\ flight = <<>> /\ queue = <<>>
  /\ missed = FALSE
  /\ pc = "closed"
  /\ header = <<>> /\ lines = <<>>
  /\ cnt_msgs = 0
  /\ consumed = <<>>

-----------------------------------------------------------------------------
(* The sensor and the network. *)

SendOwn ==
  /\ registered /\ sent.own < MaxSent /\ Len(flight) < MaxFlight
  /\ \E m \in Messages, w \in BOOLEAN :
       flight' = Append(flight, [own |-> TRUE, number |-> sent.own + 1,
                                 message |-> m, whole |-> w])
  /\ sent' = [sent EXCEPT !.own = @ + 1]
  /\ UNCHANGED <<network, stray, registered, queue, missed, programVars>>

SendForeign ==
  /\ stray /\ sent.foreign < MaxStray /\ Len(flight) < MaxFlight
  /\ flight' = Append(flight, [own |-> FALSE, number |-> sent.foreign + 1,
                               message |-> NoMessage, whole |-> TRUE])
  /\ sent' = [sent EXCEPT !.foreign = @ + 1]
  /\ UNCHANGED <<network, stray, registered, queue, missed, programVars>>

\* The late DELETE of the earlier program; what is on its way stays there.
StrayEnds ==
  /\ stray /\ stray' = FALSE
  /\ UNCHANGED <<network, registered, sent, flight, queue, missed, programVars>>

Lose ==
  /\ "loses" \in network
  /\ \E i \in DOMAIN flight : flight' = RemoveAt(flight, i)
  /\ missed' = TRUE
  /\ UNCHANGED <<sensorVars, queue, programVars>>

\* A datagram reaches the port; the kernel drops it if no socket is bound to it
\* or if there is no room.  Duplicates end where as many have arrived as the
\* sensor may send.
Deliver ==
  /\ \E i \in DOMAIN flight :
       /\ i = 1 \/ "reorders" \in network
       /\ \/ flight' = RemoveAt(flight, i)
          \/ /\ "duplicates" \in network
             /\ Len(consumed) + Len(queue) < MaxSent + MaxStray
             /\ UNCHANGED flight
       /\ IF pc = "closed" THEN UNCHANGED <<queue, missed>>
          ELSE IF Len(queue) < QueueLimit
          THEN queue' = Append(queue, flight[i]) /\ UNCHANGED missed
          ELSE missed' = TRUE /\ UNCHANGED queue
  /\ UNCHANGED <<sensorVars, programVars>>

-----------------------------------------------------------------------------
(* createReceiverForStream() *)

Bind ==
  /\ pc = "closed" /\ pc' = "bound"
  /\ UNCHANGED <<sensorVars, flight, queue, missed, header, lines, cnt_msgs,
                 consumed>>

AddDestination ==
  /\ pc = "bound" /\ pc' = "first"
  /\ registered' = TRUE
  /\ UNCHANGED <<network, stray, sent, flight, queue, missed, header, lines,
                 cnt_msgs, consumed>>

\* ParseFromArray(), whose result nobody looks at.  The type is the one asked
\* for, whatever the datagram is, and what was read before an error remains.
Parsed(d) == IF d.own /\ d.whole THEN {d.message} ELSE Fragments

\* receive() takes one datagram and makes the message m of it.
Receive(m) ==
  /\ queue' = Tail(queue)
  /\ consumed' = Append(consumed, [datagram |-> Head(queue), message |-> m])

\* The first message is only looked for; receiver and caller go on without it.
FirstMessage ==
  /\ pc = "first" /\ queue # <<>>
  /\ \E m \in Parsed(Head(queue)) : Receive(m)
  /\ pc' = "loop"
  /\ UNCHANGED <<sensorVars, flight, missed, header, lines, cnt_msgs>>

NoFirstMessage ==
  /\ pc = "first" /\ queue = <<>>
  /\ pc' = "stopped"
  /\ UNCHANGED <<sensorVars, flight, queue, missed, header, lines, cnt_msgs,
                 consumed>>

-----------------------------------------------------------------------------
(* The loop of main(), lines 279 to 306. *)

\* The header is that of the first message printed.
HeaderFor(m) == IF cnt_msgs = 0 THEN Header[m] ELSE header

\* Slip: the message is printed and not counted.
RecordUncounted ==
  /\ pc = "loop" /\ queue # <<>>
  /\ \E m \in Parsed(Head(queue)) :
       /\ ~HeaderFails[m]
       /\ Receive(m)
       /\ header' = HeaderFor(m)
       /\ lines' = Append(lines, Line[m])
  /\ UNCHANGED <<sensorVars, flight, missed, pc, cnt_msgs>>

\* Slip: a datagram longer than the buffer is left out.
RecordWhole ==
  /\ pc = "loop" /\ queue # <<>>
  /\ \E m \in Parsed(Head(queue)) :
       /\ ~HeaderFails[m]
       /\ Receive(m)
       /\ IF Head(queue).whole
          THEN /\ header' = HeaderFor(m)
               /\ lines' = Append(lines, Line[m])
               /\ cnt_msgs' = cnt_msgs + 1
          ELSE UNCHANGED <<header, lines, cnt_msgs>>
  /\ UNCHANGED <<sensorVars, flight, missed, pc>>

Record ==
  /\ pc = "loop" /\ queue # <<>>
  /\ \E m \in Parsed(Head(queue)) :
       /\ Receive(m)
       /\ \/ /\ cnt_msgs = 0 /\ HeaderFails[m]
             /\ pc' = "stopped"
             /\ UNCHANGED <<header, lines, cnt_msgs>>
          \/ /\ ~(cnt_msgs = 0 /\ HeaderFails[m])
             /\ header' = HeaderFor(m)
             /\ lines' = Append(lines, Line[m])
             /\ cnt_msgs' = cnt_msgs + 1
             /\ UNCHANGED pc
  /\ UNCHANGED <<sensorVars, flight, missed>>

\* A limit, a signal or an exception of receive(); DELETE and close() follow.
Stop ==
  /\ pc = "loop" /\ pc' = "stopped"
  /\ UNCHANGED <<sensorVars, flight, queue, missed, header, lines, cnt_msgs,
                 consumed>>

Finished == pc = "stopped" /\ UNCHANGED vars

\* What is sent and arrives after the end matters to nobody.
Next ==
  \/ pc # "stopped" /\ (SendOwn \/ SendForeign \/ StrayEnds \/ Lose \/ Deliver)
  \/ Bind \/ AddDestination \/ FirstMessage \/ NoFirstMessage
  \/ Record \/ Stop
  \/ Finished

Spec == Init /\ [][Next]_vars

-----------------------------------------------------------------------------
(* Properties *)

\* The k-th line of the file is made from what came after the first message.
Source(k) == consumed[k + 1]

Sound(d) == d.own /\ d.whole

\* Every value in the file is that of its column's field in the message the
\* sensor sent, for each line whose datagram is of the stream, fits the buffer
\* and has the shape of the one that made the header, if that one was such.
\* The others are where optional fields, the 512 bytes and a reused port bite.
ValuesUnderTheirNames ==
  \A k \in DOMAIN lines :
    /\ Sound(Source(1).datagram) /\ Sound(Source(k).datagram)
    /\ SameShape(Source(1).datagram.message, Source(k).datagram.message)
    => LineUnder(header, lines[k], Source(k).datagram.message)

\* In a sequence of datagrams the stream's own come by number, none left out.
InOrder(datagrams) ==
  \A i \in DOMAIN datagrams : datagrams[i].own =>
    /\ \A j \in 1..(i - 1) :
         datagrams[j].own => datagrams[j].number < datagrams[i].number
    /\ \A n \in 1..(datagrams[i].number - 1) :
         \E j \in 1..(i - 1) : datagrams[j].own /\ datagrams[j].number = n

Received == [i \in DOMAIN consumed |-> consumed[i].datagram]

\* A recording has no gap, no repetition and no swap that network and kernel
\* did not make: it is the stream from its second message on, or from its first
\* if a stray datagram was taken for the first message.
RecordingIsTheStream ==
  /\ pc = "loop" => Len(lines) = Len(consumed) - 1
  /\ network = {} /\ ~missed => InOrder(Received)
=============================================================================
