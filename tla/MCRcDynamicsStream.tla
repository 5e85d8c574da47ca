------------------------- MODULE MCRcDynamicsStream -------------------------
(* RcDynamicsStream with each mode of the tool and each kind of fault.      *)
EXTENDS RcDynamicsStream
=============================================================================
