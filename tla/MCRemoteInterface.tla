-------------------------- MODULE MCRemoteInterface --------------------------
(***************************************************************************)
(* RemoteInterface on small instances.  The model values of a .cfg are     *)
(* interchangeable within Offered, Ports and UserDests.                    *)
(***************************************************************************)
EXTENDS RemoteInterfaceProofs, TLC

MCFirmware17 == <<1, 7>>
MCFirmware16 == <<1, 6>>
MCFirmware110 == <<1, 10>>  \* taken for 1.1

Symmetry ==
  Permutations(Offered) \cup Permutations(Ports) \cup Permutations(UserDests)
=============================================================================
