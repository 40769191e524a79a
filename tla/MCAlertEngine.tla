--------------------------- MODULE MCAlertEngine ---------------------------
(* Instances of AlertEngine for TLC. *)
EXTENDS AlertEngine, TLC

CONSTANTS c1, c2

\* c1 may come back at once, c2 is held back for a clock unit.
MCCooldown == [c \in Conds |-> IF c = c1 THEN 0 ELSE 2]

\* Three runs about c2, or two about both, in less time.
OnePart == \/ \A r \in Runs : collectionRun[r].verdict[c1] = "absent"
           \/ now <= 3 /\ Cardinality({r \in Runs : collectionRun[r].finishedAt # Never}) <= 2

MCSymmetry == Permutations(Runs)
=============================================================================
