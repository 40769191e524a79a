------------------------------- MODULE Portal -------------------------------
(***************************************************************************)
(* One tab of the operations portal (frontend/app.js) and the alert API it *)
(* calls (app/repositories/alert_repository.py).                           *)
(*                                                                         *)
(* The page keeps the list of its last answered refresh (activeAlerts) and *)
(* the operator acts on it.  refresh() is asynchronous and started by the  *)
(* page load, an interval, a button and every accepted acknowledgement, so *)
(* refreshes overlap and their answers arrive in any order, late or never  *)
(* (fetch has no timeout here).  Alert evaluation and other clients of the *)
(* API go on meanwhile; of them the page needs to know no more than        *)
(* AlertLifecycle says.                                                    *)
(*                                                                         *)
(* /readyz is the second request of a refresh.  Its answer sets two badges *)
(* that nothing reads; it can only put off Render, which is free to wait.  *)
(***************************************************************************)
EXTENDS Naturals, FiniteSets

CONSTANTS
    Conds,          \* alert conditions, as in AlertLifecycle
    Critical,       \* those whose rule has the severity critical
    Filters,        \* choices of the severity filter the operator makes use of
    MaxEpisodes,    \* bound: events a condition may have
    MaxRefreshes,   \* bound: refreshes in flight
    MaxPosts,       \* bound: acknowledgements in flight
    MaxFaults       \* bound: requests that fail or are never answered

ASSUME ConstantsAssumption ==
    /\ Critical \subseteq Conds
    /\ "all" \in Filters /\ Filters \subseteq {"all", "critical", "warning"}
    /\ MaxEpisodes \in Nat
    /\ MaxRefreshes \in Nat \ {0} /\ MaxPosts \in Nat /\ MaxFaults \in Nat

VARIABLES
    opened, live, acked,    \* monitoring.alert_event, as AlertLifecycle sees it
    refresh,                \* refresh[i]: a call of refresh(), or Idle
    post,                   \* post[i]: a call of acknowledgeAlert(), or NoPost
    page,                   \* the document
    faults                  \* faults that have happened (to bound them)

events == <<opened, live, acked>>
vars == <<events, refresh, post, page, faults>>

Calls == 1..MaxRefreshes
Posts == 1..MaxPosts
Keys  == Conds \X (1..MaxEpisodes)      \* alert_event_key
Rows  == [key : Keys, status : {"open", "acknowledged"}]

\* met: the calls that were in flight at some time of this one's life.
Refresh == [stage : {"idle", "asked", "answered", "failed", "hung"},
            list : SUBSET Rows, met : SUBSET Calls]
Idle  == [stage |-> "idle", list |-> {}, met |-> {}]
Asked == [Idle EXCEPT !.stage = "asked"]

\* button: the one that was clicked, while it is still in the document.
NoPost == [stage |-> "none", button |-> "gone"]
Post == {NoPost} \cup
        [stage : {"sent", "ok", "error"}, key : Keys, button : {"shown", "gone"}]

\* busy: the refresh button is disabled and the overall status "checking".
\* saving: the keys whose buttons read Saving and are disabled.
Page == [busy : BOOLEAN, activeAlerts : SUBSET Rows, table : {"loading", "rows", "error"},
         filter : Filters, saving : SUBSET Keys]

\* The page has just been loaded: its first refresh is in flight.
Init ==
    /\ opened = [c \in Conds |-> 0] /\ live = [c \in Conds |-> {}] /\ acked = [c \in Conds |-> {}]
    /\ refresh = [i \in Calls |-> IF i = 1 THEN Asked ELSE Idle]
    /\ post = [i \in Posts |-> NoPost]
    /\ page = [busy |-> TRUE, activeAlerts |-> {}, table |-> "loading", filter |-> "all",
               saving |-> {}]
    /\ faults = 0

Fault   == faults < MaxFaults /\ faults' = faults + 1
NoFault == UNCHANGED faults

-----------------------------------------------------------------------------
(***************************************************************************)
(* The table of events: evaluations open and resolve, clients acknowledge. *)
(***************************************************************************)
OpenEvent(c) ==
    /\ live[c] = {} /\ opened[c] < MaxEpisodes
    /\ opened' = [opened EXCEPT ![c] = @ + 1]
    /\ live' = [live EXCEPT ![c] = {opened[c] + 1}]
    /\ UNCHANGED <<acked, refresh, post, page, faults>>

ResolveEvent(c) ==
    /\ live[c] # {}
    /\ live' = [live EXCEPT ![c] = {}] /\ acked' = [acked EXCEPT ![c] = {}]
    /\ UNCHANGED <<opened, refresh, post, page, faults>>

IsOpen(key) == key[2] \in live[key[1]] \ acked[key[1]]

\* Mutant: the UPDATE of acknowledge_alert by condition, not by event.
AcknowledgeLatest(key) ==
    acked' = [acked EXCEPT ![key[1]] = IF opened[key[1]] = 0 THEN {} ELSE {opened[key[1]]}]

\* Mutant: the endpoint toggles the status.
AcknowledgeToggle(key) ==
    acked' = [acked EXCEPT ![key[1]] = IF IsOpen(key) THEN {key[2]} ELSE {}]

\* acknowledge_alert: no row is updated unless the event is open.
AcknowledgeAlert(key) == IF IsOpen(key) THEN acked' = [acked EXCEPT ![key[1]] = {key[2]}]
                                        ELSE UNCHANGED acked

AcknowledgeElsewhere(c) ==
    /\ IsOpen(<<c, opened[c]>>)
    /\ AcknowledgeAlert(<<c, opened[c]>>)
    /\ UNCHANGED <<opened, live, refresh, post, page, faults>>

\* get_active_alerts, but for its LIMIT of 100 rows.
ActiveAlerts == {[key |-> <<c, opened[c]>>,
                  status |-> IF acked[c] = {} THEN "open" ELSE "acknowledged"] :
                     c \in {d \in Conds : live[d] # {}}}

-----------------------------------------------------------------------------
(***************************************************************************)
(* refresh().                                                              *)
(***************************************************************************)
InFlight == {i \in Calls : refresh[i].stage # "idle"}

\* Another call of refresh(), in the first free place.
Refreshing ==
    \E i \in Calls :
        /\ refresh[i].stage = "idle" /\ \A j \in 1..(i - 1) : j \in InFlight
        /\ refresh' = [j \in Calls |->
               IF j = i THEN [Asked EXCEPT !.met = InFlight]
               ELSE IF j \in InFlight THEN [refresh[j] EXCEPT !.met = @ \cup {i}]
               ELSE refresh[j]]

\* window.setInterval, whatever is in flight.
IntervalFires ==
    /\ Refreshing /\ page' = [page EXCEPT !.busy = TRUE]
    /\ UNCHANGED <<events, post, faults>>

ClickRefresh == ~page.busy /\ IntervalFires

\* The API reads the table, and its answer is on its way; or there is none.
AnswerAlerts(i) ==
    /\ refresh[i].stage = "asked"
    /\ \/ /\ refresh' = [refresh EXCEPT ![i].stage = "answered", ![i].list = ActiveAlerts]
          /\ NoFault
       \/ /\ \E s \in {"failed", "hung"} : refresh' = [refresh EXCEPT ![i].stage = s]
          /\ Fault
    /\ UNCHANGED <<events, post, page>>

\* A request that seemed never to be answered fails after all.
GiveUp(i) ==
    /\ refresh[i].stage = "hung"
    /\ refresh' = [refresh EXCEPT ![i].stage = "failed"]
    /\ UNCHANGED <<events, post, page, faults>>

\* Mutant: rows are merged into the document by key instead of replaced.
RenderMerging(p, S) == [p EXCEPT !.activeAlerts = S \cup {r \in @ : \A q \in S : q.key # r.key},
                                 !.table = "rows", !.saving = {}]

\* renderAlerts: new rows, new buttons.
RenderAlerts(p, S) == [p EXCEPT !.activeAlerts = S, !.table = "rows", !.saving = {}]

\* The table is hidden; activeAlerts is kept.
RenderError(p) == [p EXCEPT !.table = "error", !.saving = {}]

\* Buttons of rows that were replaced or hidden are out of reach for good.
Detach == post' = [i \in Posts |-> [post[i] EXCEPT !.button = "gone"]]

\* Mutant: the failed branch returns before the button is enabled again.
RenderedReturning(i) ==
    IF refresh[i].stage = "answered"
    THEN [RenderAlerts(page, refresh[i].list) EXCEPT !.busy = FALSE]
    ELSE RenderError(page)

\* What refresh() does to the page once both of its requests are settled.
Rendered(i) ==
    IF refresh[i].stage = "answered"
    THEN [RenderAlerts(page, refresh[i].list) EXCEPT !.busy = FALSE]
    ELSE [RenderError(page) EXCEPT !.busy = FALSE]

Render(i) ==
    /\ refresh[i].stage \in {"answered", "failed"}
    /\ page' = Rendered(i)
    /\ refresh' = [refresh EXCEPT ![i] = Idle]
    /\ Detach
    /\ UNCHANGED <<events, faults>>

\* The filter draws activeAlerts again, whatever the page showed.
ChangeFilter(f) ==
    /\ f # page.filter
    /\ page' = [RenderAlerts(page, page.activeAlerts) EXCEPT !.filter = f]
    /\ Detach
    /\ UNCHANGED <<events, refresh, faults>>

-----------------------------------------------------------------------------
(***************************************************************************)
(* acknowledgeAlert().                                                     *)
(***************************************************************************)
Severity(row) == IF row.key[1] \in Critical THEN "critical" ELSE "warning"

Visible == IF page.table # "rows" THEN {}
           ELSE {r \in page.activeAlerts : page.filter \in {"all", Severity(r)}}

\* A row shown as open has a button; it may be clicked (again) unless it reads
\* Saving.  Acknowledge and Retry are labels of one and the same button.
ClickAcknowledge(row) ==
    /\ row \in Visible /\ row.status = "open" /\ row.key \notin page.saving
    /\ \E i \in Posts :
          /\ post[i].stage = "none" /\ \A j \in 1..(i - 1) : post[j].stage # "none"
          /\ post' = [post EXCEPT ![i] = [stage |-> "sent", key |-> row.key, button |-> "shown"]]
    /\ page' = [page EXCEPT !.saving = @ \cup {row.key}]
    /\ UNCHANGED <<events, refresh, faults>>

\* The API answers 200 or 404; or the POST or its answer is lost, and the call
\* fails or waits for ever.
AnswerPost(i) ==
    /\ post[i].stage = "sent"
    /\ LET key == post[i].key IN
       \/ /\ AcknowledgeAlert(key) /\ NoFault
          /\ post' = [post EXCEPT ![i].stage = IF IsOpen(key) THEN "ok" ELSE "error"]
       \/ /\ AcknowledgeAlert(key) \/ UNCHANGED acked
          /\ \/ post' = [post EXCEPT ![i].stage = "error"]
             \/ post' = [post EXCEPT ![i] = NoPost]
          /\ Fault
    /\ UNCHANGED <<opened, live, refresh, page>>

\* An accepted acknowledgement refreshes the page; its button goes on reading
\* Saving until it is replaced.  A failed one is left to the operator: Retry.
ReceivePost(i) ==
    /\ LET key == post[i].key IN
       \/ post[i].stage = "ok" /\ Refreshing /\ page' = [page EXCEPT !.busy = TRUE]
       \/ /\ post[i].stage = "error" /\ UNCHANGED refresh
          /\ page' = IF post[i].button = "shown"
                     THEN [page EXCEPT !.saving = @ \ {key}]
                     ELSE page
    /\ post' = [post EXCEPT ![i] = NoPost]
    /\ UNCHANGED <<events, faults>>

-----------------------------------------------------------------------------
Next ==
    \/ \E c \in Conds : OpenEvent(c) \/ ResolveEvent(c) \/ AcknowledgeElsewhere(c)
    \/ IntervalFires \/ ClickRefresh
    \/ \E i \in Calls : AnswerAlerts(i) \/ GiveUp(i) \/ Render(i)
    \/ \E f \in Filters : ChangeFilter(f)
    \/ \E row \in Visible : ClickAcknowledge(row)
    \/ \E i \in Posts : AnswerPost(i) \/ ReceivePost(i)

Spec == Init /\ [][Next]_vars

\* The interval keeps firing, requests are answered or fail but for those that
\* hang, and settled promises are handled.  No operator has to do anything.
Fairness ==
    /\ WF_vars(IntervalFires)
    /\ \A i \in Calls : WF_vars(AnswerAlerts(i)) /\ WF_vars(Render(i))
    /\ \A i \in Posts : WF_vars(AnswerPost(i)) /\ WF_vars(ReceivePost(i))

FairSpec == Spec /\ Fairness

-----------------------------------------------------------------------------
(***************************************************************************)
(* Properties.                                                             *)
(***************************************************************************)
\* Types, and the controls of the page agree with its calls: the refresh button is
\* disabled only while some refresh is in flight (whichever of several ends last
\* enables it), and a button that reads Saving is one that is shown.  Both
\* may last: a refresh may hang, and an acknowledged row says Saving until replaced.
TypeOK ==
    /\ opened \in [Conds -> 0..MaxEpisodes]
    /\ live \in [Conds -> SUBSET (1..MaxEpisodes)] /\ acked \in [Conds -> SUBSET (1..MaxEpisodes)]
    /\ \A c \in Conds : live[c] \subseteq {opened[c]} /\ acked[c] \subseteq live[c]
    /\ refresh \in [Calls -> Refresh]
    /\ post \in [Posts -> Post] /\ page \in Page /\ faults \in Nat
    /\ page.busy => InFlight # {}
    /\ page.saving \subseteq {r.key : r \in Visible}

\* a shows an earlier stage of its condition than b.
Before(a, b) ==
    /\ a.key[1] = b.key[1]
    /\ \/ a.key[2] < b.key[2]
       \/ a.key[2] = b.key[2] /\ a.status = "open" /\ b.status = "acknowledged"

\* What the page shows of a condition goes back (an acknowledged alert is open
\* again, an older event replaces a newer one) only when a refresh that
\* overlapped another one is rendered, never by itself, an acknowledgement, a
\* retry of one or the filter.
OnlyOverlapsGoBack ==
    [][(\E a \in page'.activeAlerts, b \in page.activeAlerts : Before(a, b)) =>
           \E i \in Calls : refresh[i].stage = "answered" /\ refresh[i].met # {}
                             /\ page' = Rendered(i)]_vars

\* With the page's acknowledgements, most of them sent for what it was shown a
\* while ago and some twice, the events still live as AlertLifecycle says: one
\* that is over or taken is not acknowledged again, and a newer one not for it.
Lifecycle == INSTANCE AlertLifecycle
ImplementsLifecycle == Lifecycle!Spec

\* "Alert data refreshes automatically" (frontend/index.html): once the events
\* stop changing the page shows them as the API lists them, and goes on doing so,
\* though refreshes overlapped, failed, or hang for ever.
AlertsCatchUp == <>[](page.table = "rows" /\ page.activeAlerts = ActiveAlerts)
=============================================================================
