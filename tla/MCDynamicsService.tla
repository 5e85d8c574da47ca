------------------------- MODULE MCDynamicsService --------------------------
(* DynamicsService driven by a program that calls anything at any time, and *)
(* the times of its trajectory queries for a narrow long.                   *)
EXTENDS TrajectoryTime
=============================================================================
