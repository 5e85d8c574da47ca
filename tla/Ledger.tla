-------------------------------- MODULE Ledger -------------------------------
(***************************************************************************)
(* What a RemoteInterface promises about destinations on the sensor, "a    *)
(* RemoteInterface object automatically keeps track of all data stream     *)
(* destinations requested by itself" (remote_interface.h:70-72), and how   *)
(* far: whatever the sensor serves on its behalf it holds an entry for, or *)
(* it has lost in one of three ways.                                       *)
(*                                                                         *)
(* RemoteInterface implements this with its lists, its requests and their  *)
(* answers; see ImplementsLedger there.                                    *)
(***************************************************************************)
EXTENDS Naturals

CONSTANT Entries  \* a stream with a destination

VARIABLES
  served,  \* what the sensor serves
  held,    \* what the interface is going to delete
  lost     \* what is served and will not be deleted for any held entry

vars == <<served, held, lost>>

TypeOK == served \subseteq Entries /\ held \subseteq Entries /\ lost \subseteq Entries

Init == served = {} /\ held = {} /\ lost = {}

-----------------------------------------------------------------------------
(* What the interface does. *)

\* A request to add entries is served; the interface holds them from now on.
Register(P) ==
  /\ served' = served \cup P
  /\ held' = held \cup P
  /\ UNCHANGED lost

\* An entry it holds again is no longer lost.
Recover(P) ==
  /\ P \subseteq held
  /\ lost' = lost \ P
  /\ UNCHANGED <<served, held>>

\* Entries are given up only after the sensor has.
Erase(P) ==
  /\ P \cap served \subseteq lost
  /\ held' = held \ P
  /\ UNCHANGED <<served, lost>>

-----------------------------------------------------------------------------
(* The three ways of losing an entry. *)

\* checkSystemReady() forgets all of them.
Forget ==
  /\ held' = {}
  /\ lost' = lost \cup (held \cap served)
  /\ UNCHANGED served

\* The answer to a request that was served is lost; an equal entry may remain.
LoseAnswer(P, Q) ==
  /\ P \subseteq held /\ Q \subseteq P
  /\ held' = held \ Q
  /\ lost' = lost \cup (P \cap served)
  /\ UNCHANGED served

\* A request is served that the interface has given up.
ServeAbandoned(P) ==
  /\ served' = served \cup P
  /\ lost' = lost \cup P
  /\ UNCHANGED held

-----------------------------------------------------------------------------
\* The sensor serves no longer: it was asked to, or it has restarted.
Unserve(P) ==
  /\ served' = served \ P
  /\ lost' = lost \ P
  /\ UNCHANGED held

Next ==
  \/ Forget
  \/ \E P \in SUBSET Entries :
       \/ Register(P) \/ Recover(P) \/ Erase(P)
       \/ ServeAbandoned(P) \/ Unserve(P)
       \/ \E Q \in SUBSET P : LoseAnswer(P, Q)

Spec == Init /\ [][Next]_vars

-----------------------------------------------------------------------------
\* Nothing is served that is neither held nor known to be lost, and what is
\* lost is still served.
Balanced == served \subseteq held \cup lost /\ lost \subseteq served
=============================================================================
