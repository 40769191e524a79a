---------------------------- MODULE Portal_proofs ----------------------------
(***************************************************************************)
(* Theorems about Portal, for any conditions, requests and operators.      *)
(*                                                                         *)
(* That the page goes back only by an overlap needs to know that every     *)
(* list, rendered or on its way, is one the table once was (Past), and     *)
(* that an answer that came while no other refresh was in flight is not    *)
(* older than the page it will replace (AloneIsNewer).                     *)
(***************************************************************************)
EXTENDS Portal, TLAPS

\* What the row says was true once, and has not become true again.
Past(row) == /\ row.key[2] <= opened[row.key[1]]
             /\ row.status = "acknowledged" => ~IsOpen(row.key)

ListOK(S) == /\ \A a, b \in S : a.key[1] = b.key[1] => a = b
             /\ \A row \in S : Past(row)

ListsOK == ListOK(page.activeAlerts) /\ \A i \in Calls : ListOK(refresh[i].list)

AloneOK == \A i \in InFlight : refresh[i].met = {} => InFlight = {i}

AloneIsNewer ==
    \A i \in Calls : refresh[i].stage = "answered" /\ refresh[i].met = {} =>
        \A a \in refresh[i].list, b \in page.activeAlerts : ~Before(a, b)

IInv == TypeOK /\ ListsOK /\ AloneOK /\ AloneIsNewer

-----------------------------------------------------------------------------
\* The events.
EventsOK ==
    /\ opened \in [Conds -> 0..MaxEpisodes]
    /\ live \in [Conds -> SUBSET (1..MaxEpisodes)] /\ acked \in [Conds -> SUBSET (1..MaxEpisodes)]
    /\ \A c \in Conds : live[c] \subseteq {opened[c]} /\ acked[c] \subseteq live[c]

EventStep == Lifecycle!Next \/ UNCHANGED events

\* The endpoint acknowledges one live event that is not acknowledged, or nothing.
LEMMA AcknowledgeIsStep ==
    ASSUME EventsOK, NEW key \in Keys, AcknowledgeAlert(key), UNCHANGED <<opened, live>>
    PROVE  EventStep /\ EventsOK'
<1>1. CASE IsOpen(key)
  <2>1. key[1] \in Conds
    BY DEF Keys
  <2>2. live[key[1]] = {key[2]} /\ acked[key[1]] = {} /\ key[2] \in 1..MaxEpisodes
    BY <1>1, <2>1 DEF IsOpen, EventsOK
  <2>3. acked' = [acked EXCEPT ![key[1]] = {key[2]}]
    BY <1>1 DEF AcknowledgeAlert
  <2>4. EventsOK'
    BY <2>1, <2>2, <2>3 DEF EventsOK
  <2>5. \A c \in Conds : Lifecycle!Stays(c) \/ Lifecycle!IsAcknowledged(c)
    BY <2>1, <2>2, <2>3 DEF EventsOK, Lifecycle!Stays, Lifecycle!IsAcknowledged
  <2> QED
    BY <2>3, <2>4, <2>5 DEF EventsOK, EventStep, Lifecycle!Next
<1>2. CASE ~IsOpen(key)
  BY <1>2 DEF AcknowledgeAlert, EventsOK, EventStep, events
<1> QED
  BY <1>1, <1>2

\* Every step moves the events as AlertLifecycle allows.
LEMMA EventsMove ==
    ASSUME TypeOK, [Next]_vars
    PROVE  EventStep /\ EventsOK'
<1>1. EventsOK
  BY DEF TypeOK, EventsOK
<1>2. ASSUME UNCHANGED events
      PROVE  EventStep /\ EventsOK'
  BY <1>1, <1>2 DEF EventStep, EventsOK, events
<1>3. ASSUME NEW c \in Conds, OpenEvent(c)
      PROVE  EventStep /\ EventsOK'
  <2>1. /\ live[c] = {} /\ acked[c] = {} /\ opened[c] + 1 \in 1..MaxEpisodes
        /\ opened' = [opened EXCEPT ![c] = @ + 1]
        /\ live' = [live EXCEPT ![c] = {opened[c] + 1}] /\ acked' = acked
    BY <1>1, <1>3, ConstantsAssumption DEF OpenEvent, EventsOK
  <2>2. EventsOK'
    BY <1>1, <2>1 DEF EventsOK
  <2>3. \A d \in Conds : Lifecycle!Stays(d) \/ Lifecycle!Opens(d)
    BY <1>1, <2>1 DEF EventsOK, Lifecycle!Stays, Lifecycle!Opens
  <2> QED
    BY <2>2, <2>3 DEF EventsOK, EventStep, Lifecycle!Next
<1>4. ASSUME NEW c \in Conds, ResolveEvent(c)
      PROVE  EventStep /\ EventsOK'
  <2>1. EventsOK'
    BY <1>1, <1>4 DEF EventsOK, ResolveEvent
  <2>2. \A d \in Conds : Lifecycle!Stays(d) \/ Lifecycle!Closes(d)
    BY <1>1, <1>4 DEF EventsOK, ResolveEvent, Lifecycle!Stays, Lifecycle!Closes
  <2> QED
    BY <2>1, <2>2 DEF EventsOK, EventStep, Lifecycle!Next
<1>5. ASSUME NEW c \in Conds, AcknowledgeElsewhere(c)
      PROVE  EventStep /\ EventsOK'
  <2>1. <<c, opened[c]>> \in Keys
    BY <1>1, <1>5 DEF AcknowledgeElsewhere, IsOpen, EventsOK, Keys
  <2> QED
    BY <1>1, <1>5, <2>1, AcknowledgeIsStep DEF AcknowledgeElsewhere
<1>6. ASSUME NEW i \in Posts, AnswerPost(i)
      PROVE  EventStep /\ EventsOK'
  <2>1. post[i].key \in Keys
    BY <1>6 DEF AnswerPost, TypeOK, Post, NoPost
  <2>2. AcknowledgeAlert(post[i].key) \/ UNCHANGED acked
    BY <1>6 DEF AnswerPost
  <2>3. UNCHANGED <<opened, live>>
    BY <1>6 DEF AnswerPost
  <2> QED
    BY <1>1, <1>2, <2>1, <2>2, <2>3, AcknowledgeIsStep DEF events
<1>7. CASE UNCHANGED vars
  BY <1>2, <1>7 DEF vars
<1>8. CASE \/ IntervalFires \/ ClickRefresh
           \/ \E i \in Calls : AnswerAlerts(i) \/ GiveUp(i) \/ Render(i)
           \/ \E f \in Filters : ChangeFilter(f)
           \/ \E row \in Visible : ClickAcknowledge(row)
           \/ \E i \in Posts : ReceivePost(i)
  BY <1>2, <1>8 DEF IntervalFires, ClickRefresh, AnswerAlerts, GiveUp, Render, ChangeFilter,
                    ClickAcknowledge, ReceivePost
<1> QED
  BY <1>3, <1>4, <1>5, <1>6, <1>7, <1>8 DEF Next

-----------------------------------------------------------------------------
\* What was true once stays past: events only go on.
LEMMA PastStaysPast ==
    ASSUME EventsOK, EventStep, NEW row \in Rows, Past(row)
    PROVE  Past(row)'
<1>1. row.key \in Keys /\ row.key[1] \in Conds /\ row.key[2] \in 1..MaxEpisodes
  BY DEF Rows, Keys
<1>2. CASE UNCHANGED events
  BY <1>2 DEF Past, IsOpen, events
<1>3. CASE Lifecycle!Next
  <2> DEFINE c == row.key[1]
  <2>1. Lifecycle!Stays(c) \/ Lifecycle!Opens(c) \/ Lifecycle!Closes(c) \/ Lifecycle!IsAcknowledged(c)
    BY <1>1, <1>3 DEF Lifecycle!Next
  <2>2. opened[c] \in Nat /\ opened[c] <= opened'[c]
    BY <1>1, <2>1, ConstantsAssumption
       DEF EventsOK, Lifecycle!Stays, Lifecycle!Opens, Lifecycle!Closes, Lifecycle!IsAcknowledged
  <2>3. row.key[2] <= opened'[c]
    BY <1>1, <2>1, <2>2, ConstantsAssumption
       DEF Past, EventsOK, Lifecycle!Stays, Lifecycle!Opens, Lifecycle!Closes, Lifecycle!IsAcknowledged
  <2>4. ASSUME ~IsOpen(row.key) PROVE ~IsOpen(row.key)'
    BY <1>1, <2>1, <2>4, ConstantsAssumption
       DEF Past, IsOpen, EventsOK, Lifecycle!Stays, Lifecycle!Opens, Lifecycle!Closes,
           Lifecycle!IsAcknowledged
  <2> QED
    BY <2>3, <2>4 DEF Past
<1> QED
  BY <1>2, <1>3 DEF EventStep

\* A list the API returns: rows of the table as it is now.
LEMMA AnswerIsNow ==
    ASSUME EventsOK
    PROVE  /\ ActiveAlerts \in SUBSET Rows
           /\ ListOK(ActiveAlerts)
           /\ \A a \in ActiveAlerts : \A b \in Rows : Past(b) => ~Before(a, b)
<1>1. ASSUME NEW a \in ActiveAlerts
      PROVE  \E c \in Conds : /\ live[c] # {}
                              /\ a = [key |-> <<c, opened[c]>>,
                                      status |-> IF acked[c] = {} THEN "open" ELSE "acknowledged"]
  BY DEF ActiveAlerts
<1>2. ASSUME NEW c \in Conds, live[c] # {}
      PROVE  /\ opened[c] \in 1..MaxEpisodes /\ live[c] = {opened[c]}
             /\ acked[c] # {} => acked[c] = live[c]
  BY <1>2 DEF EventsOK
<1>3. ASSUME NEW a \in ActiveAlerts
      PROVE  a \in Rows /\ Past(a)
  <2>1. PICK c \in Conds : /\ live[c] # {}
                           /\ a = [key |-> <<c, opened[c]>>,
                                   status |-> IF acked[c] = {} THEN "open" ELSE "acknowledged"]
    BY <1>1
  <2>2. opened[c] \in 1..MaxEpisodes /\ live[c] = {opened[c]} /\ (acked[c] # {} => acked[c] = live[c])
    BY <1>2, <2>1
  <2> QED
    BY <2>1, <2>2 DEF Rows, Keys, Past, IsOpen
<1>4. ASSUME NEW a \in ActiveAlerts, NEW b \in ActiveAlerts, a.key[1] = b.key[1]
      PROVE  a = b
  BY <1>1, <1>4
<1>5. ASSUME NEW a \in ActiveAlerts, NEW b \in Rows, Past(b)
      PROVE  ~Before(a, b)
  <2>1. PICK c \in Conds : /\ live[c] # {}
                           /\ a = [key |-> <<c, opened[c]>>,
                                   status |-> IF acked[c] = {} THEN "open" ELSE "acknowledged"]
    BY <1>1
  <2>2. opened[c] \in 1..MaxEpisodes /\ live[c] = {opened[c]}
    BY <1>2, <2>1
  <2>3. b.key[2] \in 1..MaxEpisodes
    BY DEF Rows, Keys
  <2> QED
    BY <1>5, <2>1, <2>2, <2>3 DEF Before, Past, IsOpen
<1> QED
  BY <1>3, <1>4, <1>5 DEF ListOK

-----------------------------------------------------------------------------
\* Types, and the controls of the page.
\* A started refresh is in flight, and all that are have met one another.
LEMMA RefreshingStarts ==
    ASSUME TypeOK, Refreshing
    PROVE  /\ refresh' \in [Calls -> Refresh]
           /\ \E i \in Calls \ InFlight :
                 /\ InFlight' = InFlight \cup {i}
                 /\ refresh'[i].list = {} /\ refresh'[i].stage = "asked"
                 /\ refresh'[i].met = InFlight
                 /\ \A j \in Calls \ {i} : /\ refresh'[j].stage = refresh[j].stage
                                           /\ refresh'[j].list = refresh[j].list
                                           /\ j \in InFlight => i \in refresh'[j].met
<1>1. PICK i \in Calls :
        /\ refresh[i].stage = "idle"
        /\ refresh' = [j \in Calls |->
               IF j = i THEN [Asked EXCEPT !.met = InFlight]
               ELSE IF j \in InFlight THEN [refresh[j] EXCEPT !.met = @ \cup {i}]
               ELSE refresh[j]]
  BY DEF Refreshing
<1>2. /\ refresh'[i] = [stage |-> "asked", list |-> {}, met |-> InFlight]
      /\ refresh'[i] \in Refresh
  BY <1>1 DEF Asked, Idle, Refresh, InFlight
<1>3. ASSUME NEW j \in Calls, j # i
      PROVE  /\ refresh'[j] \in Refresh
             /\ refresh'[j].stage = refresh[j].stage /\ refresh'[j].list = refresh[j].list
             /\ j \in InFlight => i \in refresh'[j].met
  BY <1>1, <1>3 DEF TypeOK, Refresh
<1>4. refresh' \in [Calls -> Refresh]
  BY <1>1, <1>2, <1>3
<1>5. InFlight' = InFlight \cup {i} /\ i \in Calls \ InFlight
  BY <1>1, <1>2, <1>3 DEF InFlight
<1> QED
  BY <1>2, <1>3, <1>4, <1>5

\* What rendering makes of the page.
LEMMA RenderedOK ==
    ASSUME TypeOK, NEW p \in Page, NEW S \in SUBSET Rows
    PROVE  /\ RenderAlerts(p, S) \in Page /\ RenderError(p) \in Page
           /\ RenderAlerts(p, S).saving = {} /\ RenderError(p).saving = {}
           /\ RenderAlerts(p, S).busy = p.busy /\ RenderError(p).busy = p.busy
           /\ RenderAlerts(p, S).activeAlerts = S
           /\ RenderError(p).activeAlerts = p.activeAlerts
BY DEF RenderAlerts, RenderError, Page

LEMMA RenderedPage ==
    ASSUME TypeOK, NEW i \in Calls
    PROVE  /\ Rendered(i) \in Page /\ Rendered(i).busy = FALSE /\ Rendered(i).saving = {}
           /\ Rendered(i).activeAlerts = IF refresh[i].stage = "answered" THEN refresh[i].list
                                          ELSE page.activeAlerts
<1>1. page \in Page /\ refresh[i].list \in SUBSET Rows
  BY DEF TypeOK, Refresh
<1>2. ASSUME NEW p \in Page
      PROVE  LET q == [p EXCEPT !.busy = FALSE] IN
             q \in Page /\ q.busy = FALSE /\ q.saving = p.saving /\ q.activeAlerts = p.activeAlerts
  BY DEF Page
<1> QED
  BY <1>1, <1>2, RenderedOK DEF Rendered

\* What TypeOK says of the page, the calls and the faults.
CallsOK ==
    /\ refresh \in [Calls -> Refresh]
    /\ post \in [Posts -> Post] /\ page \in Page /\ faults \in Nat
    /\ page.busy => InFlight # {}
    /\ page.saving \subseteq {r.key : r \in Visible}

LEMMA CallsMove == TypeOK /\ [Next]_vars => CallsOK'
<1> SUFFICES ASSUME TypeOK, [Next]_vars PROVE CallsOK'
  OBVIOUS
<1>1. CallsOK /\ EventsOK
  BY DEF TypeOK, CallsOK, EventsOK
<1>2. ASSUME UNCHANGED <<refresh, post, page, faults>>
      PROVE  CallsOK'
  BY <1>1, <1>2 DEF CallsOK, InFlight, Visible, Severity
<1>3. ASSUME Refreshing, page' = [page EXCEPT !.busy = TRUE]
      PROVE  /\ refresh' \in [Calls -> Refresh] /\ InFlight' # {}
             /\ page' \in Page /\ page'.saving = page.saving /\ Visible' = Visible
  BY <1>1, <1>3, RefreshingStarts DEF CallsOK, Page, Visible, Severity
<1>4. ASSUME IntervalFires
      PROVE  CallsOK'
  BY <1>1, <1>3, <1>4 DEF IntervalFires, CallsOK
<1>5. ASSUME NEW i \in Calls, AnswerAlerts(i)
      PROVE  CallsOK'
  <2>1. /\ refresh' \in [Calls -> Refresh]
        /\ \A j \in Calls : refresh[j].stage # "idle" => refresh'[j].stage # "idle"
    BY <1>1, <1>5, AnswerIsNow DEF AnswerAlerts, CallsOK, Refresh
  <2>2. InFlight # {} => InFlight' # {}
    BY <2>1 DEF InFlight
  <2> QED
    BY <1>1, <1>5, <2>1, <2>2 DEF AnswerAlerts, Fault, NoFault, CallsOK, Visible, Severity
<1>6. ASSUME NEW i \in Calls, GiveUp(i)
      PROVE  CallsOK'
  <2>1. /\ refresh' \in [Calls -> Refresh]
        /\ \A j \in Calls : refresh[j].stage # "idle" => refresh'[j].stage # "idle"
    BY <1>1, <1>6 DEF GiveUp, CallsOK, Refresh
  <2>2. InFlight # {} => InFlight' # {}
    BY <2>1 DEF InFlight
  <2> QED
    BY <1>1, <1>6, <2>1, <2>2 DEF GiveUp, CallsOK, Visible, Severity
<1>7. ASSUME Detach
      PROVE  post' \in [Posts -> Post]
  <2>1. ASSUME NEW p \in Post
        PROVE  [p EXCEPT !.button = "gone"] \in Post
    <3>1. CASE p = NoPost
      <4>1. [NoPost EXCEPT !.button = "gone"] = NoPost
        BY DEF NoPost
      <4> QED
        BY <3>1, <4>1
    <3>2. CASE p \in [stage : {"sent", "ok", "error"}, key : Keys, button : {"shown", "gone"}]
      <4>1. [p EXCEPT !.button = "gone"] \in
               [stage : {"sent", "ok", "error"}, key : Keys, button : {"shown", "gone"}]
        BY <3>2
      <4> QED
        BY <4>1 DEF Post
    <3> QED
      BY <3>1, <3>2 DEF Post
  <2>2. \A j \in Posts : post[j] \in Post
    BY <1>1 DEF CallsOK
  <2> QED
    BY <1>7, <2>1, <2>2 DEF Detach
<1>8. ASSUME NEW i \in Calls, Render(i)
      PROVE  CallsOK'
  <2>1. refresh' \in [Calls -> Refresh]
    BY <1>1, <1>8 DEF Render, CallsOK, Refresh, Idle
  <2> QED
    BY <1>1, <1>7, <1>8, <2>1, RenderedPage DEF Render, CallsOK
<1>9. ASSUME NEW f \in Filters, ChangeFilter(f)
      PROVE  CallsOK'
  <2>1. page.activeAlerts \in SUBSET Rows /\ page \in Page
    BY <1>1 DEF CallsOK, Page
  <2>2. page' \in Page /\ page'.saving = {} /\ page'.busy = page.busy
    <3>1. /\ RenderAlerts(page, page.activeAlerts) \in Page
          /\ RenderAlerts(page, page.activeAlerts).saving = {}
          /\ RenderAlerts(page, page.activeAlerts).busy = page.busy
      BY <2>1, RenderedOK
    <3>2. page' = [RenderAlerts(page, page.activeAlerts) EXCEPT !.filter = f]
      BY <1>9 DEF ChangeFilter
    <3> QED
      BY <3>1, <3>2 DEF Page
  <2> QED
    BY <1>1, <1>7, <1>9, <2>2 DEF ChangeFilter, CallsOK, InFlight
<1>10. ASSUME NEW row \in Visible, ClickAcknowledge(row)
       PROVE  CallsOK'
  <2>1. row \in Rows /\ row.key \in Keys
    BY <1>1 DEF CallsOK, Visible, Page, Rows
  <2>2. post' \in [Posts -> Post]
    BY <1>1, <1>10, <2>1 DEF ClickAcknowledge, CallsOK, Post
  <2>3. /\ page' \in Page /\ page'.busy = page.busy /\ page'.saving = page.saving \cup {row.key}
        /\ Visible' = Visible
    BY <1>1, <1>10, <2>1 DEF ClickAcknowledge, CallsOK, Page, Visible, Severity
  <2> QED
    BY <1>1, <1>10, <2>2, <2>3 DEF ClickAcknowledge, CallsOK, InFlight
<1>11. ASSUME NEW i \in Posts, AnswerPost(i)
       PROVE  CallsOK'
  <2>1. post[i] \in Post /\ post[i].stage = "sent"
    BY <1>1, <1>11 DEF AnswerPost, CallsOK
  <2>2. post[i].key \in Keys /\ post[i].button \in {"shown", "gone"}
    BY <2>1 DEF Post, NoPost
  <2>3. [post[i] EXCEPT !.stage = "ok"] \in Post /\ [post[i] EXCEPT !.stage = "error"] \in Post
    BY <2>1 DEF Post, NoPost
  <2>4. \/ post' = [post EXCEPT ![i] = [post[i] EXCEPT !.stage = "ok"]]
        \/ post' = [post EXCEPT ![i] = [post[i] EXCEPT !.stage = "error"]]
        \/ post' = [post EXCEPT ![i] = NoPost]
    BY <1>1, <1>11 DEF AnswerPost, CallsOK
  <2>5. post' \in [Posts -> Post]
    BY <1>1, <2>3, <2>4 DEF CallsOK, Post
  <2>6. faults' \in Nat /\ UNCHANGED <<refresh, page>>
    BY <1>1, <1>11 DEF AnswerPost, Fault, NoFault, CallsOK
  <2> QED
    BY <1>1, <2>5, <2>6 DEF CallsOK, InFlight, Visible, Severity
<1>12. ASSUME NEW i \in Posts, ReceivePost(i)
       PROVE  CallsOK'
  <2>1. post' \in [Posts -> Post]
    BY <1>1, <1>12 DEF ReceivePost, CallsOK, Post
  <2>2. CASE Refreshing /\ page' = [page EXCEPT !.busy = TRUE]
    BY <1>1, <1>3, <1>12, <2>1, <2>2 DEF ReceivePost, CallsOK
  <2>3. CASE /\ UNCHANGED refresh
             /\ page' = [page EXCEPT !.saving = @ \ {post[i].key}] \/ page' = page
    <3>1. /\ page' \in Page /\ page'.busy = page.busy /\ page'.saving \subseteq page.saving
          /\ Visible' = Visible
      BY <1>1, <2>3 DEF CallsOK, Page, Visible, Severity
    <3> QED
      BY <1>1, <1>12, <2>1, <2>3, <3>1 DEF ReceivePost, CallsOK, InFlight
  <2> QED
    BY <1>12, <2>2, <2>3 DEF ReceivePost
<1>13. CASE \/ \E c \in Conds : OpenEvent(c) \/ ResolveEvent(c) \/ AcknowledgeElsewhere(c)
            \/ UNCHANGED vars
  BY <1>2, <1>13 DEF OpenEvent, ResolveEvent, AcknowledgeElsewhere, vars
<1> QED
  BY <1>4, <1>5, <1>6, <1>8, <1>9, <1>10, <1>11, <1>12, <1>13 DEF Next, ClickRefresh

LEMMA TypeStep == TypeOK /\ [Next]_vars => TypeOK'
BY CallsMove, EventsMove DEF TypeOK, CallsOK, EventsOK

-----------------------------------------------------------------------------
\* The lists: how each kind of step treats those on their way and the one shown.
Shown == page.activeAlerts

\* Nothing new is asked, answered or rendered.
KeepsLists == UNCHANGED <<refresh, Shown>>

LEMMA ListSteps ==
    ASSUME TypeOK, [Next]_vars
    PROVE  \/ KeepsLists
           \/ Refreshing /\ UNCHANGED Shown
           \/ \E i \in Calls : (AnswerAlerts(i) \/ GiveUp(i)) /\ UNCHANGED Shown
           \/ \E i \in Calls : Render(i)
<1>1. page \in Page /\ Shown \in SUBSET Rows
  BY DEF TypeOK, Page, Shown
<1>2. CASE IntervalFires \/ ClickRefresh
  BY <1>1, <1>2 DEF IntervalFires, ClickRefresh, Page, Shown
<1>3. ASSUME NEW i \in Calls, AnswerAlerts(i) \/ GiveUp(i)
      PROVE  (AnswerAlerts(i) \/ GiveUp(i)) /\ UNCHANGED Shown
  BY <1>3 DEF AnswerAlerts, GiveUp, Shown
<1>4. ASSUME NEW f \in Filters, ChangeFilter(f)
      PROVE  KeepsLists
  <2>1. RenderAlerts(page, Shown) \in Page /\ RenderAlerts(page, Shown).activeAlerts = Shown
    BY <1>1, RenderedOK
  <2>2. page' = [RenderAlerts(page, Shown) EXCEPT !.filter = f] /\ UNCHANGED refresh
    BY <1>4 DEF ChangeFilter, Shown
  <2> QED
    BY <2>1, <2>2 DEF KeepsLists, Page, Shown
<1>5. ASSUME NEW row \in Visible, ClickAcknowledge(row)
      PROVE  KeepsLists
  BY <1>1, <1>5 DEF ClickAcknowledge, KeepsLists, Page, Shown
<1>6. ASSUME NEW i \in Posts, AnswerPost(i)
      PROVE  KeepsLists
  BY <1>6 DEF AnswerPost, KeepsLists, Shown
<1>7. ASSUME NEW i \in Posts, ReceivePost(i)
      PROVE  KeepsLists \/ (Refreshing /\ UNCHANGED Shown)
  BY <1>1, <1>7 DEF ReceivePost, KeepsLists, Page, Shown
<1>8. CASE \/ \E c \in Conds : OpenEvent(c) \/ ResolveEvent(c) \/ AcknowledgeElsewhere(c)
           \/ UNCHANGED vars
  BY <1>8 DEF OpenEvent, ResolveEvent, AcknowledgeElsewhere, vars, KeepsLists, Shown
<1> QED
  BY <1>2, <1>3, <1>4, <1>5, <1>6, <1>7, <1>8 DEF Next

\* After a step every list is one there was, an empty one, or the table's rows of
\* before the step.
LEMMA ListsComeFrom ==
    ASSUME TypeOK, [Next]_vars
    PROVE  /\ \/ Shown' = Shown
              \/ \E j \in Calls : Shown' = refresh[j].list
           /\ \A i \in Calls : refresh'[i].list \in {refresh[i].list, {}, ActiveAlerts}
<1>1. CASE KeepsLists
  BY <1>1 DEF KeepsLists
<1>2. CASE Refreshing /\ UNCHANGED Shown
  BY <1>2, RefreshingStarts
<1>3. CASE \E i \in Calls : (AnswerAlerts(i) \/ GiveUp(i)) /\ UNCHANGED Shown
  BY <1>3 DEF AnswerAlerts, GiveUp, TypeOK, Refresh
<1>4. CASE \E i \in Calls : Render(i)
  <2>1. PICK i \in Calls : Render(i)
    BY <1>4
  <2>2. \A j \in Calls : refresh'[j].list \in {refresh[j].list, {}}
    BY <2>1 DEF Render, TypeOK, Idle
  <2>3. Shown' = Shown \/ Shown' = refresh[i].list
    BY <2>1, RenderedPage DEF Render, Shown
  <2> QED
    BY <2>2, <2>3
<1> QED
  BY <1>1, <1>2, <1>3, <1>4, ListSteps

LEMMA ListsStep == TypeOK /\ ListsOK /\ [Next]_vars => ListsOK'
<1> SUFFICES ASSUME TypeOK, ListsOK, [Next]_vars PROVE ListsOK'
  OBVIOUS
<1>1. EventsOK /\ EventStep
  BY EventsMove DEF TypeOK, EventsOK
<1>2. \A row \in Rows : Past(row) => Past(row)'
  BY <1>1, PastStaysPast
<1>3. /\ Shown \in SUBSET Rows /\ ListOK(Shown)
      /\ \A i \in Calls : refresh[i].list \in SUBSET Rows /\ ListOK(refresh[i].list)
      /\ ActiveAlerts \in SUBSET Rows /\ ListOK(ActiveAlerts)
  BY <1>1, AnswerIsNow DEF TypeOK, Page, Refresh, ListsOK, Shown
<1>4. ListOK(Shown)'
  BY <1>2, <1>3, ListsComeFrom DEF ListOK
<1>5. ASSUME NEW i \in Calls PROVE ListOK(refresh[i].list)'
  BY <1>2, <1>3, ListsComeFrom DEF ListOK
<1> QED
  BY <1>4, <1>5 DEF ListsOK, Shown

LEMMA AloneStep == TypeOK /\ ListsOK /\ AloneOK /\ AloneIsNewer /\ [Next]_vars
                   => AloneOK' /\ AloneIsNewer'
<1> SUFFICES ASSUME TypeOK, ListsOK, AloneOK, AloneIsNewer, [Next]_vars
             PROVE  AloneOK' /\ AloneIsNewer'
  OBVIOUS
<1>1. CASE KeepsLists
  BY <1>1 DEF KeepsLists, AloneOK, AloneIsNewer, InFlight, Shown, Before
<1>2. CASE Refreshing /\ UNCHANGED Shown
  <2>1. PICK i \in Calls \ InFlight :
          /\ InFlight' = InFlight \cup {i}
          /\ refresh'[i].stage = "asked" /\ refresh'[i].met = InFlight
          /\ \A j \in Calls \ {i} : /\ refresh'[j].stage = refresh[j].stage
                                    /\ j \in InFlight => i \in refresh'[j].met
    BY <1>2, RefreshingStarts
  <2>2. AloneOK'
    BY <2>1 DEF AloneOK, InFlight
  <2>3. \A j \in Calls : refresh'[j].stage = "answered" => refresh'[j].met # {}
    BY <2>1 DEF InFlight
  <2> QED
    BY <2>2, <2>3 DEF AloneIsNewer
<1>3. ASSUME NEW i \in Calls, AnswerAlerts(i), UNCHANGED Shown
      PROVE  AloneOK' /\ AloneIsNewer'
  <2>1. /\ refresh[i].stage = "asked" /\ refresh'[i].stage # "idle"
        /\ refresh'[i].met = refresh[i].met
        /\ refresh'[i].stage = "answered" => refresh'[i].list = ActiveAlerts
        /\ \A j \in Calls \ {i} : refresh'[j] = refresh[j]
    BY <1>3 DEF AnswerAlerts, TypeOK, Refresh
  <2>2. InFlight' = InFlight
    BY <2>1 DEF InFlight
  <2>3. \A a \in ActiveAlerts : \A b \in Shown : ~Before(a, b)
    <3>1. EventsOK /\ Shown \in SUBSET Rows /\ \A b \in Shown : Past(b)
      BY DEF TypeOK, EventsOK, Page, Shown, ListsOK, ListOK
    <3> QED
      BY <3>1, AnswerIsNow
  <2>4. AloneOK'
    <3>1. InFlight \subseteq Calls /\ \A j \in Calls : refresh'[j].met = refresh[j].met
      BY <2>1 DEF InFlight
    <3> QED
      BY <2>2, <3>1 DEF AloneOK
  <2>5. AloneIsNewer'
    BY <1>3, <2>1, <2>3 DEF AloneIsNewer, Shown, Before
  <2> QED
    BY <2>4, <2>5
<1>4. ASSUME NEW i \in Calls, GiveUp(i), UNCHANGED Shown
      PROVE  AloneOK' /\ AloneIsNewer'
  <2>1. /\ refresh[i].stage = "hung" /\ refresh'[i].stage = "failed"
        /\ refresh'[i].met = refresh[i].met
        /\ \A j \in Calls \ {i} : refresh'[j] = refresh[j]
    BY <1>4 DEF GiveUp, TypeOK, Refresh
  <2>2. InFlight' = InFlight
    BY <2>1 DEF InFlight
  <2>3. AloneOK'
    <3>1. InFlight \subseteq Calls /\ \A j \in Calls : refresh'[j].met = refresh[j].met
      BY <2>1 DEF InFlight
    <3> QED
      BY <2>2, <3>1 DEF AloneOK
  <2>4. AloneIsNewer'
    BY <1>4, <2>1 DEF AloneIsNewer, Shown, Before
  <2> QED
    BY <2>3, <2>4
<1>5. ASSUME NEW i \in Calls, Render(i)
      PROVE  AloneOK' /\ AloneIsNewer'
  <2>1. /\ refresh[i].stage # "idle" /\ refresh'[i].stage = "idle"
        /\ \A j \in Calls \ {i} : refresh'[j] = refresh[j]
    BY <1>5 DEF Render, TypeOK, Idle
  <2>2. i \in InFlight /\ InFlight' = InFlight \ {i}
    BY <2>1 DEF InFlight
  <2>3. \A j \in InFlight' : refresh'[j].met # {}
    BY <2>1, <2>2 DEF AloneOK, InFlight
  <2> QED
    BY <2>1, <2>3 DEF AloneOK, AloneIsNewer, InFlight
<1> QED
  BY <1>1, <1>2, <1>3, <1>4, <1>5, ListSteps

LEMMA InvariantHolds == Spec => []IInv
<1>1. Init => IInv
  <2> SUFFICES ASSUME Init PROVE IInv
    OBVIOUS
  <2>1. \A i \in Calls : refresh[i].list = {} /\ refresh[i].stage \in {"asked", "idle"}
    BY DEF Init, Asked, Idle
  <2>2. InFlight = {1} /\ 1 \in Calls
    BY ConstantsAssumption DEF Init, Asked, Idle, InFlight, Calls
  <2>3. refresh \in [Calls -> Refresh] /\ post \in [Posts -> Post]
    BY DEF Init, Asked, Idle, Refresh, Post
  <2>4. page \in Page /\ page.activeAlerts = {} /\ page.saving = {}
    BY ConstantsAssumption DEF Init, Page
  <2>5. TypeOK
    BY <2>2, <2>3, <2>4, ConstantsAssumption DEF Init, TypeOK
  <2>6. ListsOK /\ AloneOK /\ AloneIsNewer
    BY <2>1, <2>2, <2>4 DEF ListsOK, ListOK, AloneOK, AloneIsNewer
  <2> QED
    BY <2>5, <2>6 DEF IInv
<1>2. IInv /\ [Next]_vars => IInv'
  BY TypeStep, ListsStep, AloneStep DEF IInv
<1> QED
  BY <1>1, <1>2, PTL DEF Spec

-----------------------------------------------------------------------------
\* The events, the calls and the page keep their types, no row of events has two
\* live ones, the refresh button is disabled only while a refresh is in flight, and a
\* button that reads Saving is one that is shown (a POST for it need not be in flight).
THEOREM PortalTypeCorrect == Spec => []TypeOK
<1>1. IInv => TypeOK
  BY DEF IInv
<1> QED
  BY <1>1, InvariantHolds, PTL

\* Whatever the page sends, for whatever it was shown, the events live as
\* AlertLifecycle says.
THEOREM PortalImplementsLifecycle == Spec => ImplementsLifecycle
<1>1. Init => Lifecycle!Init
  BY DEF Init, Lifecycle!Init
<1>2. IInv /\ [Next]_vars => [Lifecycle!Next]_<<opened, live, acked>>
  BY EventsMove DEF IInv, EventStep, events
<1> QED
  BY <1>1, <1>2, InvariantHolds, PTL DEF Spec, ImplementsLifecycle, Lifecycle!Spec,
                                        Lifecycle!lifecycleVars

\* The step of OnlyOverlapsGoBack.
GoesBackByOverlap ==
    (\E a \in page'.activeAlerts, b \in page.activeAlerts : Before(a, b)) =>
        \E i \in Calls : refresh[i].stage = "answered" /\ refresh[i].met # {}
                          /\ page' = Rendered(i)

\* The page goes back only when renderAlerts gets the answer of a refresh that
\* overlapped another one.
THEOREM OnlyOverlapsEverGoBack == Spec => OnlyOverlapsGoBack
<1>1. IInv /\ [Next]_vars => [GoesBackByOverlap]_vars
  <2> SUFFICES ASSUME IInv, Next,
                      NEW a \in page'.activeAlerts, NEW b \in page.activeAlerts, Before(a, b)
               PROVE  \E i \in Calls : refresh[i].stage = "answered" /\ refresh[i].met # {}
                                       /\ page' = Rendered(i)
    BY DEF GoesBackByOverlap
  <2>1. TypeOK /\ ListOK(Shown) /\ Shown \in SUBSET Rows
    BY DEF IInv, ListsOK, TypeOK, Page, Shown
  <2>2. ASSUME a \in Shown PROVE FALSE
    <3>1. a = b
      BY <2>1, <2>2 DEF ListOK, Shown, Before
    <3>2. a.key[2] \in Nat
      BY <2>1, <2>2 DEF Rows, Keys
    <3> QED
      BY <3>1, <3>2 DEF Before
  <2>3. PICK i \in Calls : Render(i)
    BY <2>1, <2>2, ListSteps DEF KeepsLists, Shown
  <2>4. page' = Rendered(i)
    BY <2>3 DEF Render
  <2>5. refresh[i].stage = "answered" /\ a \in refresh[i].list
    BY <2>1, <2>2, <2>4, RenderedPage DEF Shown
  <2>6. refresh[i].met # {}
    BY <2>5 DEF IInv, AloneIsNewer
  <2> QED
    BY <2>4, <2>5, <2>6
<1> QED
  BY <1>1, InvariantHolds, PTL DEF Spec, OnlyOverlapsGoBack, GoesBackByOverlap
=============================================================================
