--------------------------- MODULE MCTargetPolls ---------------------------
(* Instances of TargetPolls for TLC. *)
EXTENDS TargetPolls

\* The databases and what is known of them share no variable with the deadlock
\* and job histories: a behaviour has one part or the other.  The target need not
\* change and a run never leaves its part, so this cuts no fair step.
NoDatabases == Present = {} /\ \A n \in Names : dimDatabase[n] = NoId
NoHistory   == Window = {} /\ agentFacts = {} /\ ring = {} /\ deadlockFacts = {}
OnePart     == NoDatabases \/ NoHistory
=============================================================================
