----------------------------- MODULE MCPlatform -----------------------------
(* Instances of Platform for TLC. *)
EXTENDS Platform

CONSTANTS c, d

\* A batch that may lack the row of its rule, and a summary that is one.
MCCollectors == <<"server", "agent">>
MCMetricOf == [x \in Conds |-> IF x = c THEN "agent" ELSE "server"]
MCCooldown == [x \in Conds |-> 0]

\* A behaviour is about one of the two: the other collector does not fail in it, and
\* finds nothing (server) or no failed job (agent); one about the server metric has
\* no failed synchronization and no acknowledgement.  A failed job triggers its rule.
\* All of that may happen at any time, so this cuts no fair step.
Fails(r, n) == Pipeline!At(r, "collectorError") /\ worker[r].next = n
AboutAgent  == \A r \in Runs :
    /\ staging[r]["server"] = "none" /\ ~Fails(r, 1)
    /\ worker[r].next > 1 => worker[r].collected > 0
    /\ evaluation[r].verdict[c] # "absent" =>
           (evaluation[r].verdict[c] = "triggered" <=> fact[r] # {})
AboutServer ==
    /\ \A r \in Runs : /\ fact[r] = {} /\ ~Fails(r, 2) /\ ~Pipeline!At(r, "syncError")
                       /\ evaluation[r].verdict[c] # "triggered"
    /\ \A i \in 1..Len(alertEvent[d]) : alertEvent[d][i].status # "acknowledged"
OneCondition == AboutAgent \/ AboutServer
=============================================================================
