----------------------------- MODULE Reservation -----------------------------
(***************************************************************************)
(* What the making of receivers promises to the layer above, which asks    *)
(* the sensor to stream to them: a receiver has its endpoint for itself    *)
(* from bind() to close(), it is the one the sensor is told, and nothing   *)
(* is told before there is one.                                            *)
(*                                                                         *)
(* DataReceiver implements this with its list of interfaces, system calls  *)
(* and exceptions; see ImplementsReservation there.  RemoteInterface takes *)
(* it for granted where it binds a receiver.                               *)
(***************************************************************************)
CONSTANTS
  Owners,
  Places,   \* where a socket can be reached
  Nowhere

VARIABLES
  held,  \* the endpoint of each owner
  told   \* what the sensor has been told of it

vars == <<held, told>>

Init ==
  /\ held = [r \in Owners |-> Nowhere]
  /\ told = [r \in Owners |-> Nowhere]

\* A place that nobody has, Nowhere among those (r is there).
Take(r) ==
  /\ held[r] = Nowhere
  /\ held'[r] \in Places \ {held[s] : s \in Owners}
  /\ held' = [held EXCEPT ![r] = held'[r]]
  /\ UNCHANGED told

Tell(r) ==
  /\ held[r] # Nowhere /\ told[r] = Nowhere
  /\ told' = [told EXCEPT ![r] = held[r]]
  /\ UNCHANGED held

Release(r) ==
  /\ held[r] # Nowhere
  /\ held' = [held EXCEPT ![r] = Nowhere]
  /\ told' = [told EXCEPT ![r] = Nowhere]

Next == \E r \in Owners : Take(r) \/ Tell(r) \/ Release(r)

Spec == Init /\ [][Next]_vars

-----------------------------------------------------------------------------
\* The sensor is told of places where their owners are, each of one owner.
ToldOnce ==
  /\ \A r \in Owners : told[r] \in {Nowhere, held[r]}
  /\ \A r, s \in Owners : held[r] = held[s] /\ held[r] # Nowhere => r = s
=============================================================================
