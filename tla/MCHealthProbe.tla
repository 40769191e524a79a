--------------------------- MODULE MCHealthProbe ---------------------------
(* Instances of HealthProbe for TLC. *)
EXTENDS HealthProbe, TLC

CONSTANTS i, j

\* The task of i may lose every attempt, the one of j none.
MCMaxLost == (i :> 2) @@ (j :> 0)
=============================================================================
