------------------------- MODULE MCTargetScheduling -------------------------
(* Instances of TargetScheduling for TLC. *)
EXTENDS TargetScheduling

\* Every other unit after a finish, on a grid of two, and not at all.
MCSchedules == {[type |-> "interval", every |-> 2], [type |-> "cron", every |-> 2],
                [type |-> "none", every |-> 1]}
=============================================================================
