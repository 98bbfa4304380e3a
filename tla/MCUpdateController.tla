------------------------- MODULE MCUpdateController -------------------------
(* UpdateController with two releases.                                     *)
EXTENDS UpdateController
=============================================================================
