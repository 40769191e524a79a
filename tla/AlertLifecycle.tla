--------------------------- MODULE AlertLifecycle ---------------------------
(***************************************************************************)
(* What the platform promises about alerts, with no word about how: the    *)
(* table monitoring.alert_event holds, per alert code and target (a        *)
(* "condition"), numbered episodes of which at most one is live.  A live   *)
(* episode may be acknowledged once, and closing it is final: a later      *)
(* occurrence of the condition is a new episode.                           *)
(*                                                                         *)
(* AlertEngine implements this module (see Lifecycle there).               *)
(***************************************************************************)
EXTENDS Naturals

CONSTANT Conds          \* alert conditions: (alert_code, instance, database)

VARIABLES opened,       \* opened[c]: how many episodes c has had
          live,         \* live[c]: the episodes of c that are not closed
          acked         \* acked[c]: the live episodes an operator acknowledged

lifecycleVars == <<opened, live, acked>>

Init == /\ opened = [c \in Conds |-> 0]
        /\ live   = [c \in Conds |-> {}]
        /\ acked  = [c \in Conds |-> {}]

Stays(c) == /\ opened'[c] = opened[c]
            /\ live'[c] = live[c]
            /\ acked'[c] = acked[c]

\* A new episode starts only when none is live; it is not acknowledged yet.
Opens(c) == /\ live[c] = {}
            /\ opened'[c] = opened[c] + 1
            /\ live'[c] = {opened'[c]}
            /\ acked'[c] = {}

Closes(c) == /\ live[c] # {}
             /\ opened'[c] = opened[c]
             /\ live'[c] = {}
             /\ acked'[c] = {}

IsAcknowledged(c) == /\ live[c] # {}
                     /\ acked[c] = {}
                     /\ opened'[c] = opened[c]
                     /\ live'[c] = live[c]
                     /\ acked'[c] = live[c]

\* One transaction may move several conditions, each by one lifecycle step.
Next == /\ DOMAIN opened' = Conds /\ DOMAIN live' = Conds /\ DOMAIN acked' = Conds
        /\ \A c \in Conds : Stays(c) \/ Opens(c) \/ Closes(c) \/ IsAcknowledged(c)

Spec == Init /\ [][Next]_lifecycleVars

\* At most one live episode of a condition, and it is the last one opened.
OneLive == \A c \in Conds : live[c] \subseteq {opened[c]} /\ acked[c] \subseteq live[c]
=============================================================================
