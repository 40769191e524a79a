----------------------------- MODULE MCRegistry -----------------------------
(***************************************************************************)
(* The whole registry of collectors, for TLC: two runs of                  *)
(* CollectionPipeline, or several runs of its query collector with what    *)
(* the panel makes of their rows (QueryDeltas).                            *)
(***************************************************************************)
EXTENDS CollectionPipeline, QueryDeltas

CONSTANTS p, q, r, r1, r2

\* p and q are two plan cache entries of one query.
MCKeyOf == [e \in Entries |-> IF e = r THEN r ELSE p]

\* The two share no variable: a behaviour has one of them.
NoRun     == \A run \in Runs : At(run, "idle")
NoQueries == snapshots = 0 /\ \A e \in Entries : done[e] = 0

MCInit == Init /\ QueryInit
MCNext == \/ NoQueries /\ Next /\ UNCHANGED queryVars
          \/ NoRun /\ QueryNext /\ UNCHANGED vars
MCSpec == MCInit /\ [][MCNext]_<<vars, queryVars>> /\ Fairness

\* A run alone goes every way, with three errors at most, but for the wait and the
\* deadlock collectors, which neither fail nor find rows: they do what agent and query
\* do.  A second run starts when the first is through its loop; then each has one error
\* at most, and the agent collector alone finds rows, and may fail with them.  A second
\* start, a fault and an error may always be missing, and rows be found or not, so this
\* cuts no fair step.
AgentAt == 6
InError(run) == worker[run].pc \in {"syncError", "collectorError", "fatal"}
Errors(run)  == collectionRun[run].errorCount + worker[run].swallowed
                  + (IF InError(run) THEN 1 ELSE 0)
Failing(run, t) == At(run, "collectorError") /\ Current(run) = t
Queried(run) == \/ worker[run].next > AgentAt
                \/ worker[run].next = AgentAt /\ worker[run].pc \in {"summary", "collectorError"}

Alone == /\ At(r2, "idle") /\ Errors(r1) <= 3
         /\ \A t \in {"wait", "deadlock"} : t \notin fact[r1] /\ ~Failing(r1, t)
AgentOnly(run) ==
    /\ Errors(run) <= 1 /\ \A t \in MetricTypes \ {"agent"} : ~Failing(run, t)
    /\ \A t \in Staging \ Summarized : staging[run][t] = "none"
    /\ fact[run] \subseteq {"agent"} /\ (Queried(run) => fact[run] # {})
AfterLoop == worker[r1].next > Len(Collectors) /\ \A run \in Runs : AgentOnly(run)
OneOrAgent == Alone \/ AfterLoop
=============================================================================
