------------------------- MODULE AlertEngine_proofs -------------------------
(***************************************************************************)
(* Proofs about AlertEngine, for every set of conditions and runs, every   *)
(* cooldown, batch size, number of retries, and any number of faults.      *)
(***************************************************************************)
EXTENDS AlertEngine, SequenceTheorems, TLAPS

-----------------------------------------------------------------------------
(***************************************************************************)
(* The inductive invariant.  Types alone are not inductive: a new event is *)
(* dated by the run the task visits, so those runs must have finished.     *)
(* UniqueActive is not either: the INSERT looks for one active event, so   *)
(* what must be kept is that only the youngest event can be active, that a *)
(* resolved event is dated, and that the date is not in the future.        *)
(***************************************************************************)
FinishedDated == \A r \in Runs : collectionRun[r].status # "running" =>
                                     collectionRun[r].finishedAt # Never

TaskRunsDated == /\ task.left \subseteq task.batch
                 /\ \A r \in task.batch : collectionRun[r].finishedAt # Never

Episodes(h) == \A i \in 1..Len(h) :
                   /\ i # Len(h) => h[i].status = "resolved"
                   /\ h[i].status = "resolved" <=> h[i].resolvedAt # Never
                   /\ h[i].resolvedAt <= now

Spaced(c, h) == \A i, j \in 1..Len(h) :
                    i < j => h[j].createdAt >= h[i].resolvedAt + Cooldown[c]

IInv == /\ TypeOK
        /\ FinishedDated
        /\ TaskRunsDated
        /\ \A c \in Conds : Episodes(alertEvent[c]) /\ Spaced(c, alertEvent[c])

-----------------------------------------------------------------------------
(***************************************************************************)
(* What the three statements of the procedure do to one history.           *)
(***************************************************************************)
LEMMA NewEventType ==
    ASSUME TypeOK, NEW r \in Runs, collectionRun[r].finishedAt # Never
    PROVE  NewEvent(r) \in AlertEvent
BY DEF TypeOK, NewEvent, AlertEvent, CollectionRun, Time, Never

LEMMA SeenType ==
    ASSUME TypeOK, NEW r \in Runs, collectionRun[r].finishedAt # Never,
           NEW e \in AlertEvent
    PROVE  /\ Seen(r, e) \in AlertEvent
           /\ Seen(r, e).status = e.status
           /\ Seen(r, e).resolvedAt = e.resolvedAt
           /\ Seen(r, e).createdAt = e.createdAt
           /\ Seen(r, e).firstSeenAt = e.firstSeenAt
           /\ Seen(r, e).lastSeenAt = collectionRun[r].finishedAt
           /\ Seen(r, e).acknowledgedAt = e.acknowledgedAt
           /\ Seen(r, e).occurrenceCount = e.occurrenceCount + 1
<1> DEFINE t == collectionRun[r].finishedAt
           n == e.occurrenceCount + 1
<1>1. t \in Time
    BY DEF TypeOK, CollectionRun, Time, Never
<1>2. n \in Nat \ {0}
    BY DEF AlertEvent
<1>3. Seen(r, e) = [e EXCEPT !.lastSeenAt = t, !.occurrenceCount = n]
    BY DEF Seen
<1> HIDE DEF t
<1>4. [e EXCEPT !.lastSeenAt = t, !.occurrenceCount = n] \in AlertEvent
    <2> HIDE DEF n
    <2> QED BY <1>1, <1>2 DEF AlertEvent
<1>5. Seen(r, e).lastSeenAt = t
    BY <1>3 DEF AlertEvent
<1> QED BY <1>3, <1>4, <1>5 DEF AlertEvent, t

LEMMA ResolveType ==
    ASSUME TypeOK, NEW e \in AlertEvent
    PROVE  /\ Resolve(e) \in AlertEvent
           /\ Resolve(e).status = "resolved"
           /\ Resolve(e).resolvedAt = now
           /\ Resolve(e).createdAt = e.createdAt
           /\ Resolve(e).firstSeenAt = e.firstSeenAt
           /\ Resolve(e).lastSeenAt = e.lastSeenAt
           /\ Resolve(e).acknowledgedAt = e.acknowledgedAt
           /\ Resolve(e).occurrenceCount = e.occurrenceCount
BY DEF TypeOK, Resolve, AlertEvent, Time, Never

\* The INSERT appends at most one event.
LEMMA InsertedShape ==
    ASSUME TypeOK, NEW c \in Conds, NEW r \in Runs,
           collectionRun[r].finishedAt # Never,
           NEW h \in Seq(AlertEvent)
    PROVE  /\ Inserted(c, r, h) \in Seq(AlertEvent)
           /\ Len(Inserted(c, r, h)) = Len(h) + (IF Opens(c, r, h) THEN 1 ELSE 0)
           /\ \A i \in 1..Len(h) : Inserted(c, r, h)[i] = h[i]
           /\ Opens(c, r, h) => Inserted(c, r, h)[Len(h) + 1] = NewEvent(r)
<1>1. CASE Opens(c, r, h)
    <2>1. NewEvent(r) \in AlertEvent BY NewEventType
    <2>2. Inserted(c, r, h) = Append(h, NewEvent(r)) BY <1>1 DEF Inserted
    <2> QED BY <1>1, <2>1, <2>2
<1>2. CASE ~Opens(c, r, h)
    <2>1. Inserted(c, r, h) = h BY <1>2 DEF Inserted
    <2> QED BY <1>2, <2>1
<1> QED BY <1>1, <1>2

\* The two UPDATEs keep the rows and change only active ones.
LEMMA UpdatedShape ==
    ASSUME TypeOK, NEW c \in Conds, NEW r \in Runs,
           collectionRun[r].finishedAt # Never,
           NEW h \in Seq(AlertEvent)
    PROVE  /\ Updated(c, r, h) \in Seq(AlertEvent)
           /\ Len(Updated(c, r, h)) = Len(h)
           /\ \A i \in 1..Len(h) :
                 Updated(c, r, h)[i] = IF Triggered(c, r) /\ Active(h[i])
                                       THEN Seen(r, h[i]) ELSE h[i]
<1>1. \A i \in 1..Len(h) : h[i] \in AlertEvent /\ Seen(r, h[i]) \in AlertEvent
    BY SeenType
<1>2. Updated(c, r, h) \in [1..Len(h) -> AlertEvent] BY <1>1 DEF Updated
<1>3. Len(h) \in Nat OBVIOUS
<1>4. Updated(c, r, h) \in Seq(AlertEvent) BY <1>2, <1>3
<1>5. Len(Updated(c, r, h)) = Len(h) BY <1>2, <1>3, <1>4
<1> QED BY <1>4, <1>5 DEF Updated

LEMMA ResolvedShape ==
    ASSUME TypeOK, NEW c \in Conds, NEW r \in Runs, NEW h \in Seq(AlertEvent)
    PROVE  /\ Resolved(c, r, h) \in Seq(AlertEvent)
           /\ Len(Resolved(c, r, h)) = Len(h)
           /\ \A i \in 1..Len(h) :
                 Resolved(c, r, h)[i] = IF Clear(c, r) /\ Active(h[i])
                                        THEN Resolve(h[i]) ELSE h[i]
<1>1. \A i \in 1..Len(h) : h[i] \in AlertEvent /\ Resolve(h[i]) \in AlertEvent
    BY ResolveType
<1>2. Resolved(c, r, h) \in [1..Len(h) -> AlertEvent] BY <1>1 DEF Resolved
<1>3. Len(h) \in Nat OBVIOUS
<1>4. Resolved(c, r, h) \in Seq(AlertEvent) BY <1>2, <1>3
<1>5. Len(Resolved(c, r, h)) = Len(h) BY <1>2, <1>3, <1>4
<1> QED BY <1>4, <1>5 DEF Resolved

LEMMA AcknowledgedType ==
    ASSUME TypeOK, NEW e \in AlertEvent
    PROVE  /\ Acknowledged(e) \in AlertEvent
           /\ Acknowledged(e).status = "acknowledged"
           /\ Acknowledged(e).acknowledgedAt =
                  (IF e.acknowledgedAt = Never THEN now ELSE e.acknowledgedAt)
           /\ Acknowledged(e).resolvedAt = e.resolvedAt
           /\ Acknowledged(e).createdAt = e.createdAt
           /\ Acknowledged(e).firstSeenAt = e.firstSeenAt
           /\ Acknowledged(e).lastSeenAt = e.lastSeenAt
           /\ Acknowledged(e).occurrenceCount = e.occurrenceCount
<1> DEFINE t == IF e.acknowledgedAt = Never THEN now ELSE e.acknowledgedAt
<1>1. t \in Nat
    BY DEF TypeOK, AlertEvent, Time
<1>2. Acknowledged(e) = [e EXCEPT !.status = "acknowledged", !.acknowledgedAt = t]
    BY DEF Acknowledged
<1>3. [e EXCEPT !.status = "acknowledged", !.acknowledgedAt = t] \in AlertEvent
    <2> HIDE DEF t
    <2> QED BY <1>1 DEF AlertEvent
<1> QED BY <1>2, <1>3 DEF AlertEvent

\* The transaction on one history, row by row.
LEMMA ProcessedShape ==
    ASSUME TypeOK, NEW c \in Conds, NEW r \in Runs,
           collectionRun[r].finishedAt # Never
    PROVE  LET h == alertEvent[c]
               p == ProcessAlerts(c, r)
           IN  /\ p \in Seq(AlertEvent)
               /\ Len(p) = Len(h) + (IF Opens(c, r, h) THEN 1 ELSE 0)
               /\ \A i \in 1..Len(h) :
                     p[i] = IF ~Active(h[i]) THEN h[i]
                            ELSE IF Triggered(c, r) THEN Seen(r, h[i])
                            ELSE IF Clear(c, r) THEN Resolve(h[i])
                            ELSE h[i]
               /\ Opens(c, r, h) => p[Len(h) + 1] = Seen(r, NewEvent(r))
<1> DEFINE h == alertEvent[c]
           h1 == Inserted(c, r, h)
           h2 == Updated(c, r, h1)
           p == ProcessAlerts(c, r)
<1>0. p = Resolved(c, r, h2)
    BY DEF ProcessAlerts
<1>1. h \in Seq(AlertEvent)
    BY DEF TypeOK
<1> HIDE DEF h, p
<1>2. /\ h1 \in Seq(AlertEvent)
      /\ Len(h1) = Len(h) + (IF Opens(c, r, h) THEN 1 ELSE 0)
      /\ \A i \in 1..Len(h) : h1[i] = h[i]
      /\ Opens(c, r, h) => h1[Len(h) + 1] = NewEvent(r)
    BY <1>1, InsertedShape
<1> HIDE DEF h1
<1>3. /\ h2 \in Seq(AlertEvent)
      /\ Len(h2) = Len(h1)
      /\ \A i \in 1..Len(h1) :
            h2[i] = IF Triggered(c, r) /\ Active(h1[i]) THEN Seen(r, h1[i]) ELSE h1[i]
    BY <1>2, UpdatedShape
<1> HIDE DEF h2
<1>4. /\ p \in Seq(AlertEvent)
      /\ Len(p) = Len(h2)
      /\ \A i \in 1..Len(h2) :
            p[i] = IF Clear(c, r) /\ Active(h2[i]) THEN Resolve(h2[i]) ELSE h2[i]
    BY <1>0, <1>3, ResolvedShape
<1>5. ~(Triggered(c, r) /\ Clear(c, r))
    BY DEF Triggered, Clear
<1>6. Len(h) \in Nat /\ Len(p) = Len(h) + (IF Opens(c, r, h) THEN 1 ELSE 0)
    BY <1>1, <1>2, <1>3, <1>4
<1>7. ASSUME NEW i \in 1..Len(h)
      PROVE  p[i] = IF ~Active(h[i]) THEN h[i]
                    ELSE IF Triggered(c, r) THEN Seen(r, h[i])
                    ELSE IF Clear(c, r) THEN Resolve(h[i])
                    ELSE h[i]
    <2>1. i \in 1..Len(h1) /\ i \in 1..Len(h2)
        BY <1>2, <1>3, <1>6
    <2>2. h1[i] = h[i]
        BY <1>2
    <2>3. h2[i] = IF Triggered(c, r) /\ Active(h[i]) THEN Seen(r, h[i]) ELSE h[i]
        BY <1>3, <2>1, <2>2
    <2> QED BY <1>4, <1>5, <2>1, <2>3
<1>8. ASSUME Opens(c, r, h)
      PROVE  p[Len(h) + 1] = Seen(r, NewEvent(r))
    <2> DEFINE k == Len(h) + 1
    <2>1. k \in 1..Len(h1) /\ k \in 1..Len(h2)
        BY <1>2, <1>3, <1>6, <1>8
    <2>2. h1[k] = NewEvent(r)
        BY <1>2, <1>8
    <2>3. Triggered(c, r)
        BY <1>8 DEF Opens
    <2>4. Active(NewEvent(r))
        BY DEF Active, NewEvent
    <2> HIDE DEF k
    <2>5. h2[k] = Seen(r, NewEvent(r))
        BY <1>3, <2>1, <2>2, <2>3, <2>4
    <2>6. p[k] = h2[k]
        BY <1>4, <1>5, <2>1, <2>3
    <2> QED BY <2>5, <2>6 DEF k
<1> QED BY <1>4, <1>6, <1>7, <1>8 DEF h, p

\* The transaction keeps the shape of a history: only the youngest event can be
\* active, and a new one respects the cooldown of every older one.
LEMMA ProcessedHistory ==
    ASSUME TypeOK, NEW c \in Conds, NEW r \in Runs,
           collectionRun[r].finishedAt # Never,
           Episodes(alertEvent[c]), Spaced(c, alertEvent[c])
    PROVE  Episodes(ProcessAlerts(c, r)) /\ Spaced(c, ProcessAlerts(c, r))
<1> DEFINE h == alertEvent[c]
           p == ProcessAlerts(c, r)
           n == Len(h)
<1>1. h \in Seq(AlertEvent) /\ n \in Nat
    BY DEF TypeOK
<1>2. /\ Len(p) = n + (IF Opens(c, r, h) THEN 1 ELSE 0)
      /\ \A i \in 1..n :
            p[i] = IF ~Active(h[i]) THEN h[i]
                   ELSE IF Triggered(c, r) THEN Seen(r, h[i])
                   ELSE IF Clear(c, r) THEN Resolve(h[i])
                   ELSE h[i]
      /\ Opens(c, r, h) => p[n + 1] = Seen(r, NewEvent(r))
    BY ProcessedShape
<1>3. Episodes(h) /\ Spaced(c, h)
    OBVIOUS
<1>4. \A i \in 1..n : h[i] \in AlertEvent
    BY <1>1
<1>5. now \in Nat /\ now # Never /\ Cooldown[c] \in Nat
    BY ConstantsAssumption DEF TypeOK, Time
<1> HIDE DEF h, p, n
<1>6. ASSUME NEW i \in 1..n
      PROVE  /\ i # Len(p) => p[i] = h[i] /\ p[i].status = "resolved"
             /\ p[i].createdAt = h[i].createdAt
             /\ p[i].status = "resolved" <=> p[i].resolvedAt # Never
             /\ p[i].resolvedAt <= now
    <2>1. /\ h[i] \in AlertEvent
          /\ i # n => h[i].status = "resolved"
          /\ h[i].status = "resolved" <=> h[i].resolvedAt # Never
          /\ h[i].resolvedAt <= now
        BY <1>3, <1>4 DEF Episodes, n
    <2>2. ~Active(h[i]) <=> h[i].status = "resolved"
        BY <2>1 DEF Active, AlertEvent
    <2>3. i # Len(p) => ~Active(h[i])
        BY <1>1, <1>2, <2>1, <2>2 DEF Opens, n
    <2>4. CASE ~Active(h[i])
        BY <1>2, <2>1, <2>2, <2>4
    <2>5. CASE Active(h[i]) /\ Triggered(c, r)
        <3>1. p[i] = Seen(r, h[i])
            BY <1>2, <2>5
        <3>2. /\ p[i].status = h[i].status
              /\ p[i].resolvedAt = h[i].resolvedAt
              /\ p[i].createdAt = h[i].createdAt
            BY <2>1, <3>1, SeenType
        <3> QED BY <2>1, <2>3, <2>5, <3>2
    <2>6. CASE Active(h[i]) /\ ~Triggered(c, r) /\ Clear(c, r)
        <3>1. p[i] = Resolve(h[i])
            BY <1>2, <2>6
        <3>2. /\ p[i].status = "resolved"
              /\ p[i].resolvedAt = now
              /\ p[i].createdAt = h[i].createdAt
            BY <2>1, <3>1, ResolveType
        <3> QED BY <1>5, <2>3, <2>6, <3>2
    <2>7. CASE Active(h[i]) /\ ~Triggered(c, r) /\ ~Clear(c, r)
        BY <1>2, <2>1, <2>3, <2>7
    <2> QED BY <2>4, <2>5, <2>6, <2>7
<1>7. ASSUME Opens(c, r, h)
      PROVE  /\ p[n + 1].status = "open"
             /\ p[n + 1].resolvedAt = Never
             /\ p[n + 1].createdAt = now
    <2>1. NewEvent(r) \in AlertEvent
        BY NewEventType
    <2> QED BY <1>2, <1>7, <2>1, SeenType DEF NewEvent
<1>8. \A i \in 1..Len(p) : i \in 1..n \/ (Opens(c, r, h) /\ i = n + 1 /\ i = Len(p))
    BY <1>1, <1>2
<1>9. Episodes(p)
    <2> SUFFICES ASSUME NEW i \in 1..Len(p)
                 PROVE  /\ i # Len(p) => p[i].status = "resolved"
                        /\ p[i].status = "resolved" <=> p[i].resolvedAt # Never
                        /\ p[i].resolvedAt <= now
        BY DEF Episodes
    <2>1. CASE i \in 1..n
        BY <1>6, <2>1
    <2>2. CASE Opens(c, r, h) /\ i = n + 1 /\ i = Len(p)
        BY <1>5, <1>7, <2>2 DEF Never
    <2> QED BY <1>8, <2>1, <2>2
<1>10. Spaced(c, p)
    <2> SUFFICES ASSUME NEW i \in 1..Len(p), NEW j \in 1..Len(p), i < j
                 PROVE  p[j].createdAt >= p[i].resolvedAt + Cooldown[c]
        BY DEF Spaced
    <2>1. i \in 1..n /\ i # Len(p)
        BY <1>1, <1>2, <1>8
    <2>2. p[i] = h[i] /\ p[i].status = "resolved" /\ h[i] \in AlertEvent
        BY <1>4, <1>6, <2>1
    <2>3. CASE j \in 1..n
        BY <1>3, <1>6, <2>1, <2>2, <2>3 DEF Spaced, n
    <2>4. CASE Opens(c, r, h) /\ j = n + 1
        <3>1. ~InCooldown(c, h[i]) /\ h[i].resolvedAt # Never
            BY <1>3, <2>1, <2>2, <2>4 DEF Opens, Episodes, n
        <3>2. h[i].resolvedAt \in Nat
            BY <2>2 DEF AlertEvent
        <3> QED BY <1>5, <1>7, <2>2, <2>4, <3>1, <3>2 DEF InCooldown
    <2> QED BY <1>8, <2>3, <2>4
<1> QED BY <1>9, <1>10 DEF h, p

\* Episodes and Spaced look at three fields of the rows.
SameDates(g, h) ==
    /\ Len(g) = Len(h)
    /\ \A k \in 1..Len(h) : /\ g[k].resolvedAt = h[k].resolvedAt
                            /\ g[k].createdAt = h[k].createdAt
                            /\ g[k].status = "resolved" <=> h[k].status = "resolved"

LEMMA SameHistory ==
    ASSUME NEW c, NEW h, NEW g, SameDates(g, h), Episodes(h), Spaced(c, h)
    PROVE  Episodes(g) /\ Spaced(c, g)
<1>1. Episodes(g)
    BY DEF Episodes, SameDates
<1>2. Spaced(c, g)
    BY DEF Spaced, SameDates
<1> QED BY <1>1, <1>2

\* An acknowledgement changes one row, in its status and its date only.
LEMMA AcknowledgedHistory ==
    ASSUME TypeOK, NEW c \in Conds, NEW i \in 1..Len(alertEvent[c]),
           alertEvent[c][i].status = "open"
    PROVE  LET h == alertEvent[c]
               g == [h EXCEPT ![i] = Acknowledged(h[i])]
           IN  g \in Seq(AlertEvent) /\ SameDates(g, h)
<1> DEFINE h == alertEvent[c]
           a == Acknowledged(h[i])
           g == [h EXCEPT ![i] = a]
<1>1. h \in Seq(AlertEvent) /\ h[i] \in AlertEvent
    BY DEF TypeOK
<1>2. /\ a \in AlertEvent
      /\ a.status = "acknowledged"
      /\ a.resolvedAt = h[i].resolvedAt
      /\ a.createdAt = h[i].createdAt
    BY <1>1, AcknowledgedType
<1>3. i \in 1..Len(h) /\ h[i].status = "open"
    OBVIOUS
<1> HIDE DEF a, h
<1>4. g \in Seq(AlertEvent) /\ Len(g) = Len(h)
    BY <1>1, <1>2, <1>3
<1>5. \A k \in 1..Len(h) : g[k] = IF k = i THEN a ELSE h[k]
    BY <1>1
<1> HIDE DEF g
<1>6. SameDates(g, h)
    BY <1>2, <1>3, <1>4, <1>5 DEF SameDates
<1> QED BY <1>4, <1>6 DEF g, a, h

-----------------------------------------------------------------------------
LEMMA InitIInv == Init => IInv
<1> SUFFICES ASSUME Init PROVE IInv
    OBVIOUS
<1>1. TypeOK
    BY DEF Init, TypeOK, Time, Never, CollectionRun, Verdicts, Task, IdleTask
<1>2. FinishedDated /\ TaskRunsDated
    BY DEF Init, FinishedDated, TaskRunsDated, IdleTask
<1>3. \A c \in Conds : Episodes(alertEvent[c]) /\ Spaced(c, alertEvent[c])
    BY DEF Init, Episodes, Spaced
<1> QED BY <1>1, <1>2, <1>3 DEF IInv

\* A run is evaluated only after it finished.
LEMMA VisitedDated ==
    ASSUME IInv, NEW r \in Runs, NextInBatch(r)
    PROVE  collectionRun[r].finishedAt # Never
BY DEF IInv, TaskRunsDated, NextInBatch

LEMMA RetryOrStopType ==
    ASSUME IInv, RetryOrStop
    PROVE  task' \in Task /\ task'.left \subseteq task'.batch
           /\ task'.batch \subseteq task.batch
<1>1. task \in Task
    BY DEF IInv, TypeOK
<1>2. CASE task.retriesLeft > 0
    <2> DEFINE n == task.retriesLeft - 1
    <2>1. n \in Nat
        BY <1>1, <1>2 DEF Task
    <2>2. task' = [task EXCEPT !.left = task.batch, !.succeeded = FALSE,
                               !.retriesLeft = n]
        BY <1>2 DEF RetryOrStop
    <2> HIDE DEF n
    <2> QED BY <1>1, <2>1, <2>2 DEF Task
<1>3. CASE ~(task.retriesLeft > 0)
    BY <1>1, <1>3 DEF RetryOrStop, Task, IdleTask
<1> QED BY <1>2, <1>3

LEMMA NextIInv == IInv /\ [Next]_vars => IInv'
<1> SUFFICES ASSUME IInv, [Next]_vars PROVE IInv'
    OBVIOUS
<1> USE DEF IInv
<1>1. CASE Tick
    <2>1. now' \in Time /\ now <= now' /\ now \in Nat
        BY <1>1 DEF Tick, TypeOK, Time, Never
    <2>2. TypeOK'
        BY <1>1, <2>1 DEF Tick, TypeOK, Time
    <2>3. FinishedDated' /\ TaskRunsDated'
        BY <1>1 DEF Tick, FinishedDated, TaskRunsDated
    <2>4. ASSUME NEW c \in Conds PROVE (Episodes(alertEvent[c]) /\ Spaced(c, alertEvent[c]))'
        <3>1. \A i \in 1..Len(alertEvent[c]) : alertEvent[c][i].resolvedAt \in Nat
            <4>1. alertEvent[c] \in Seq(AlertEvent)
                BY DEF TypeOK
            <4>2. \A i \in 1..Len(alertEvent[c]) : alertEvent[c][i] \in AlertEvent
                BY <4>1
            <4> QED BY <4>2 DEF AlertEvent
        <3> QED BY <1>1, <2>1, <3>1 DEF Tick, Episodes, Spaced
    <2> QED BY <2>2, <2>3, <2>4
<1>2. ASSUME NEW r \in Runs, FinishRun(r)
      PROVE  IInv'
    <2>1. PICK s \in {"success", "partial", "failed"}, v \in [Conds -> Verdicts] :
              collectionRun' = [collectionRun EXCEPT ![r] =
                  [status |-> s, finishedAt |-> now, alertsProcessedAt |-> Never,
                   verdict |-> v]]
        BY <1>2 DEF FinishRun
    <2>2. now \in Nat /\ now # Never
        BY DEF TypeOK, Time
    <2>3. collectionRun' \in [Runs -> CollectionRun]
        BY <2>1, <2>2 DEF TypeOK, CollectionRun, Never
    <2>4. TypeOK'
        BY <1>2, <2>3 DEF FinishRun, TypeOK
    <2>5. \A q \in Runs : collectionRun'[q].finishedAt =
              IF q = r THEN now ELSE collectionRun[q].finishedAt
        BY <2>1 DEF TypeOK
    <2>6. \A q \in Runs : q # r => collectionRun'[q] = collectionRun[q]
        BY <2>1 DEF TypeOK
    <2>7. FinishedDated'
        BY <2>2, <2>5, <2>6 DEF FinishedDated
    <2>8. TaskRunsDated'
        BY <1>2, <2>2, <2>5 DEF FinishRun, TaskRunsDated, TypeOK, Task
    <2>9. \A c \in Conds : (Episodes(alertEvent[c]) /\ Spaced(c, alertEvent[c]))'
        BY <1>2 DEF FinishRun, Episodes, Spaced
    <2> QED BY <2>4, <2>7, <2>8, <2>9
<1>3. ASSUME NEW r \in Runs, EvaluateRun(r)
      PROVE  IInv'
    <2>1. NextInBatch(r) /\ r \in task.left
        BY <1>3 DEF EvaluateRun, NextInBatch
    <2>2. collectionRun[r].finishedAt # Never
        BY <2>1, VisitedDated
    <2>3. \A c \in Conds : alertEvent'[c] = ProcessAlerts(c, r)
        BY <1>3 DEF EvaluateRun
    <2>4. now' = now /\ faults' = faults
        BY <1>3 DEF EvaluateRun
    <2>5. \A c \in Conds : ProcessAlerts(c, r) \in Seq(AlertEvent)
        BY <2>2, ProcessedShape
    <2>6. alertEvent' \in [Conds -> Seq(AlertEvent)]
        BY <1>3, <2>5 DEF EvaluateRun
    <2>7. now \in Nat
        BY DEF TypeOK, Time
    <2>8. collectionRun' \in [Runs -> CollectionRun]
        BY <1>3, <2>7 DEF EvaluateRun, TypeOK, CollectionRun
    <2>9. /\ task' \in Task
          /\ task'.left \subseteq task.left
          /\ task'.batch = task.batch
        BY <1>3 DEF EvaluateRun, TypeOK, Task
    <2>10. TypeOK'
        BY <2>4, <2>6, <2>8, <2>9 DEF TypeOK
    <2>11. \A q \in Runs : /\ collectionRun'[q].finishedAt = collectionRun[q].finishedAt
                            /\ collectionRun'[q].status = collectionRun[q].status
        BY <1>3 DEF EvaluateRun, TypeOK, CollectionRun
    <2>12. FinishedDated'
        BY <2>11 DEF FinishedDated
    <2>13. TaskRunsDated'
        BY <2>9, <2>11 DEF TaskRunsDated, TypeOK, Task
    <2>14. ASSUME NEW c \in Conds
           PROVE  (Episodes(alertEvent[c]) /\ Spaced(c, alertEvent[c]))'
        <3>1. Episodes(ProcessAlerts(c, r)) /\ Spaced(c, ProcessAlerts(c, r))
            BY <2>2, ProcessedHistory
        <3> QED BY <2>3, <2>4, <3>1 DEF Episodes, Spaced
    <2> QED BY <2>10, <2>12, <2>13, <2>14
<1>4. ASSUME NEW r \in Runs, RollBackRun(r)
      PROVE  IInv'
    <2>1. /\ task' \in Task
          /\ task'.left \subseteq task.left
          /\ task'.batch = task.batch
        BY <1>4 DEF RollBackRun, TypeOK, Task
    <2>2. faults' \in Nat
        BY <1>4 DEF RollBackRun, TypeOK
    <2>3. TypeOK' /\ FinishedDated' /\ TaskRunsDated'
        BY <1>4, <2>1, <2>2 DEF RollBackRun, TypeOK, FinishedDated, TaskRunsDated
    <2>4. \A c \in Conds : (Episodes(alertEvent[c]) /\ Spaced(c, alertEvent[c]))'
        BY <1>4 DEF RollBackRun, Episodes, Spaced
    <2> QED BY <2>3, <2>4
<1>5. CASE FetchPendingRuns
    <2>1. PICK B \in Batches :
              task' = [state |-> "evaluating", batch |-> B, left |-> B,
                       succeeded |-> FALSE, retriesLeft |-> Retries]
        BY <1>5 DEF FetchPendingRuns
    <2>2. B \subseteq Runs /\ \A r \in B : collectionRun[r].finishedAt # Never
        BY DEF Batches, Pending, FinishedDated
    <2>3. task' \in Task
        BY <2>1, <2>2, ConstantsAssumption DEF Task
    <2>4. TypeOK' /\ FinishedDated'
        BY <1>5, <2>3 DEF FetchPendingRuns, TypeOK, FinishedDated
    <2>5. TaskRunsDated'
        BY <1>5, <2>1, <2>2 DEF FetchPendingRuns, TaskRunsDated
    <2>6. \A c \in Conds : (Episodes(alertEvent[c]) /\ Spaced(c, alertEvent[c]))'
        BY <1>5 DEF FetchPendingRuns, Episodes, Spaced
    <2> QED BY <2>4, <2>5, <2>6
<1>6. CASE FinishBatch
    <2>1. task' = IdleTask \/ RetryOrStop
        BY <1>6 DEF FinishBatch
    <2>2. /\ task' \in Task
          /\ task'.left \subseteq task'.batch
          /\ task'.batch \subseteq task.batch
        <3>1. CASE task' = IdleTask
            BY <3>1 DEF IdleTask, Task
        <3> QED BY <2>1, <3>1, RetryOrStopType
    <2>3. TypeOK' /\ FinishedDated' /\ TaskRunsDated'
        BY <1>6, <2>2 DEF FinishBatch, TypeOK, FinishedDated, TaskRunsDated
    <2>4. \A c \in Conds : (Episodes(alertEvent[c]) /\ Spaced(c, alertEvent[c]))'
        BY <1>6 DEF FinishBatch, Episodes, Spaced
    <2> QED BY <2>3, <2>4
<1>7. CASE LoseTask
    <2>1. /\ task' \in Task
          /\ task'.left \subseteq task'.batch
          /\ task'.batch \subseteq task.batch
        BY <1>7, RetryOrStopType DEF LoseTask
    <2>2. faults' \in Nat
        BY <1>7 DEF LoseTask, TypeOK
    <2>3. TypeOK' /\ FinishedDated' /\ TaskRunsDated'
        BY <1>7, <2>1, <2>2 DEF LoseTask, TypeOK, FinishedDated, TaskRunsDated
    <2>4. \A c \in Conds : (Episodes(alertEvent[c]) /\ Spaced(c, alertEvent[c]))'
        BY <1>7 DEF LoseTask, Episodes, Spaced
    <2> QED BY <2>3, <2>4
<1>8. ASSUME NEW c \in Conds, NEW i \in 1..Len(alertEvent[c]), Acknowledge(c, i)
      PROVE  IInv'
    <2> DEFINE g == [alertEvent[c] EXCEPT ![i] = Acknowledged(alertEvent[c][i])]
    <2>1. /\ alertEvent' = [alertEvent EXCEPT ![c] = g]
          /\ alertEvent[c][i].status = "open"
        BY <1>8 DEF Acknowledge
    <2>0. g \in Seq(AlertEvent) /\ SameDates(g, alertEvent[c])
        BY <2>1, AcknowledgedHistory
    <2> HIDE DEF g
    <2>2. g \in Seq(AlertEvent) /\ Episodes(g) /\ Spaced(c, g)
        BY <2>0, SameHistory
    <2>3. UNCHANGED <<now, collectionRun, task, faults>>
        BY <1>8 DEF Acknowledge
    <2>4. TypeOK'
        BY <2>1, <2>2, <2>3 DEF TypeOK
    <2>5. FinishedDated' /\ TaskRunsDated'
        BY <2>3 DEF FinishedDated, TaskRunsDated
    <2>6. ASSUME NEW d \in Conds
          PROVE  (Episodes(alertEvent[d]) /\ Spaced(d, alertEvent[d]))'
        <3>1. alertEvent'[d] = IF d = c THEN g ELSE alertEvent[d]
            BY <2>1 DEF TypeOK
        <3>2. Episodes(alertEvent'[d]) /\ Spaced(d, alertEvent'[d])
            BY <2>2, <3>1
        <3> QED BY <2>3, <3>2 DEF Episodes, Spaced
    <2> QED BY <2>4, <2>5, <2>6
<1>9. CASE UNCHANGED vars
    BY <1>9 DEF vars, TypeOK, FinishedDated, TaskRunsDated, Episodes, Spaced
<1> QED BY <1>1, <1>2, <1>3, <1>4, <1>5, <1>6, <1>7, <1>8, <1>9 DEF Next

LEMMA SpecIInv == Spec => []IInv
BY InitIInv, NextIInv, PTL DEF Spec

-----------------------------------------------------------------------------
\* The state of the alert engine keeps its types.
THEOREM TypeCorrect == Spec => []TypeOK
<1>1. IInv => TypeOK
    BY DEF IInv
<1> QED BY <1>1, SpecIInv, PTL

\* At most one event of a condition is active, whatever fails or is retried.
THEOREM OneActivePerCondition == Spec => []UniqueActive
<1>1. IInv => UniqueActive
    <2> SUFFICES ASSUME IInv, NEW c \in Conds,
                        NEW i \in 1..Len(alertEvent[c]), NEW j \in 1..Len(alertEvent[c]),
                        Active(alertEvent[c][i]), Active(alertEvent[c][j])
                 PROVE  i = j
        BY DEF UniqueActive
    <2>1. Episodes(alertEvent[c])
        BY DEF IInv
    <2>2. i = Len(alertEvent[c]) /\ j = Len(alertEvent[c])
        BY <2>1 DEF Episodes, Active
    <2> QED BY <2>2
<1> QED BY <1>1, SpecIInv, PTL

\* Two events of a condition are a cooldown apart, for every cooldown.
THEOREM CooldownAlwaysKept == Spec => []CooldownKept
<1>1. IInv => CooldownKept
    <2> SUFFICES ASSUME IInv, NEW c \in Conds,
                        NEW i \in 1..Len(alertEvent[c]), NEW j \in 1..Len(alertEvent[c]),
                        i < j
                 PROVE  /\ alertEvent[c][i].status = "resolved"
                        /\ alertEvent[c][j].createdAt >= alertEvent[c][i].resolvedAt + Cooldown[c]
        BY DEF CooldownKept
    <2>1. Episodes(alertEvent[c]) /\ Spaced(c, alertEvent[c])
        BY DEF IInv
    <2>2. alertEvent[c] \in Seq(AlertEvent)
        BY DEF IInv, TypeOK
    <2>3. i # Len(alertEvent[c])
        BY <2>2
    <2> QED BY <2>1, <2>3 DEF Episodes, Spaced
<1> QED BY <1>1, SpecIInv, PTL

-----------------------------------------------------------------------------
(***************************************************************************)
(* What a step may do to a history.                                        *)
(***************************************************************************)
RowsKept(h, g) ==
    /\ Len(g) >= Len(h)
    /\ \A i \in 1..Len(h) :
          /\ h[i].status = "resolved" => g[i] = h[i]
          /\ h[i].status = "acknowledged" =>
                /\ g[i].status # "open"
                /\ g[i].acknowledgedAt = h[i].acknowledgedAt
          /\ g[i].occurrenceCount >= h[i].occurrenceCount
          /\ g[i].firstSeenAt = h[i].firstSeenAt

LEMMA ProcessedKeepsRows ==
    ASSUME TypeOK, NEW c \in Conds, NEW r \in Runs,
           collectionRun[r].finishedAt # Never
    PROVE  RowsKept(alertEvent[c], ProcessAlerts(c, r))
<1> DEFINE h == alertEvent[c]
           p == ProcessAlerts(c, r)
           n == Len(h)
<1>1. h \in Seq(AlertEvent) /\ n \in Nat
    BY DEF TypeOK
<1>2. \A i \in 1..n : h[i] \in AlertEvent
    BY <1>1
<1>3. /\ Len(p) = n + (IF Opens(c, r, h) THEN 1 ELSE 0)
      /\ \A i \in 1..n :
            p[i] = IF ~Active(h[i]) THEN h[i]
                   ELSE IF Triggered(c, r) THEN Seen(r, h[i])
                   ELSE IF Clear(c, r) THEN Resolve(h[i])
                   ELSE h[i]
    BY ProcessedShape
<1> HIDE DEF h, p
<1>4. Len(p) >= Len(h)
    BY <1>1, <1>3 DEF n
<1>5. ASSUME NEW i \in 1..n
      PROVE  /\ h[i].status = "resolved" => p[i] = h[i]
             /\ h[i].status = "acknowledged" =>
                   /\ p[i].status # "open"
                   /\ p[i].acknowledgedAt = h[i].acknowledgedAt
             /\ p[i].occurrenceCount >= h[i].occurrenceCount
             /\ p[i].firstSeenAt = h[i].firstSeenAt
    <2>1. h[i] \in AlertEvent
        BY <1>2
    <2>2. h[i].occurrenceCount \in Nat
        BY <2>1 DEF AlertEvent
    <2>3. CASE p[i] = h[i]
        BY <2>2, <2>3
    <2>4. CASE p[i] = Seen(r, h[i]) /\ Active(h[i])
        <3>1. /\ p[i].status = h[i].status
              /\ p[i].acknowledgedAt = h[i].acknowledgedAt
              /\ p[i].firstSeenAt = h[i].firstSeenAt
              /\ p[i].occurrenceCount = h[i].occurrenceCount + 1
            BY <2>1, <2>4, SeenType
        <3> QED BY <2>2, <2>4, <3>1 DEF Active
    <2>5. CASE p[i] = Resolve(h[i]) /\ Active(h[i])
        <3>1. /\ p[i].status = "resolved"
              /\ p[i].acknowledgedAt = h[i].acknowledgedAt
              /\ p[i].firstSeenAt = h[i].firstSeenAt
              /\ p[i].occurrenceCount = h[i].occurrenceCount
            BY <2>1, <2>5, ResolveType
        <3> QED BY <2>2, <2>5, <3>1 DEF Active
    <2> QED BY <1>3, <2>3, <2>4, <2>5
<1>6. RowsKept(h, p)
    BY <1>4, <1>5 DEF RowsKept, n
<1> QED BY <1>6 DEF h, p

LEMMA AcknowledgedKeepsRows ==
    ASSUME TypeOK, NEW c \in Conds, NEW i \in 1..Len(alertEvent[c]),
           alertEvent[c][i].status = "open"
    PROVE  RowsKept(alertEvent[c],
                    [alertEvent[c] EXCEPT ![i] = Acknowledged(alertEvent[c][i])])
<1> DEFINE h == alertEvent[c]
           a == Acknowledged(h[i])
           g == [h EXCEPT ![i] = a]
<1>1. h \in Seq(AlertEvent) /\ h[i] \in AlertEvent
    BY DEF TypeOK
<1>2. \A k \in 1..Len(h) : h[k].occurrenceCount \in Nat
    <2>1. \A k \in 1..Len(h) : h[k] \in AlertEvent
        BY <1>1
    <2> QED BY <2>1 DEF AlertEvent
<1>3. /\ a.firstSeenAt = h[i].firstSeenAt
      /\ a.occurrenceCount = h[i].occurrenceCount
      /\ a \in AlertEvent
    BY <1>1, AcknowledgedType
<1>4. i \in 1..Len(h) /\ h[i].status = "open"
    OBVIOUS
<1> HIDE DEF a, h
<1>5. Len(g) = Len(h) /\ Len(h) \in Nat
    BY <1>1, <1>3, <1>4
<1>6. \A k \in 1..Len(h) : g[k] = IF k = i THEN a ELSE h[k]
    BY <1>1
<1> HIDE DEF g
<1>7. RowsKept(h, g)
    BY <1>2, <1>3, <1>4, <1>5, <1>6 DEF RowsKept
<1> QED BY <1>7 DEF g, a, h

LEMMA SameRowsKept ==
    ASSUME TypeOK, NEW c \in Conds
    PROVE  RowsKept(alertEvent[c], alertEvent[c])
<1>1. alertEvent[c] \in Seq(AlertEvent)
    BY DEF TypeOK
<1>2. \A k \in 1..Len(alertEvent[c]) : alertEvent[c][k] \in AlertEvent
    BY <1>1
<1> QED BY <1>1, <1>2 DEF RowsKept, AlertEvent

\* What a step of Next does to the histories: nothing, an evaluation, or an
\* acknowledgement.
LEMMA HistorySteps ==
    ASSUME IInv, [Next]_vars
    PROVE  \/ alertEvent' = alertEvent
           \/ \E r \in Runs : /\ EvaluateRun(r)
                              /\ collectionRun[r].finishedAt # Never
                              /\ alertEvent' = [c \in Conds |-> ProcessAlerts(c, r)]
           \/ \E c \in Conds : \E i \in 1..Len(alertEvent[c]) :
                 /\ alertEvent[c][i].status = "open"
                 /\ alertEvent' = [alertEvent EXCEPT ![c] =
                        [alertEvent[c] EXCEPT ![i] = Acknowledged(alertEvent[c][i])]]
<1>1. ASSUME NEW r \in Runs, EvaluateRun(r)
      PROVE  /\ collectionRun[r].finishedAt # Never
             /\ alertEvent' = [c \in Conds |-> ProcessAlerts(c, r)]
    BY <1>1, VisitedDated DEF EvaluateRun
<1>2. ASSUME NEW c \in Conds, NEW i \in 1..Len(alertEvent[c]), Acknowledge(c, i)
      PROVE  /\ alertEvent[c][i].status = "open"
             /\ alertEvent' = [alertEvent EXCEPT ![c] =
                    [alertEvent[c] EXCEPT ![i] = Acknowledged(alertEvent[c][i])]]
    BY <1>2 DEF Acknowledge
<1>3. CASE Tick
    BY <1>3 DEF Tick
<1>4. ASSUME NEW r \in Runs, FinishRun(r) \/ RollBackRun(r)
      PROVE  alertEvent' = alertEvent
    BY <1>4 DEF FinishRun, RollBackRun
<1>5. CASE FetchPendingRuns \/ FinishBatch \/ LoseTask
    BY <1>5 DEF FetchPendingRuns, FinishBatch, LoseTask
<1>6. CASE UNCHANGED vars
    BY <1>6 DEF vars
<1> QED BY <1>1, <1>2, <1>3, <1>4, <1>5, <1>6 DEF Next

\* No step changes a resolved event, or takes back an acknowledgement.
THEOREM HistoryAlwaysKept == Spec => HistoryKept
<1>1. ASSUME IInv, [Next]_vars
      PROVE  [HistoryKeptStep]_vars
    <2>1. TypeOK
        BY <1>1 DEF IInv
    <2>2. ASSUME NEW c \in Conds
          PROVE  RowsKept(alertEvent[c], alertEvent'[c])
        <3>1. CASE alertEvent' = alertEvent
            BY <2>1, <3>1, SameRowsKept
        <3>2. ASSUME NEW r \in Runs, collectionRun[r].finishedAt # Never,
                     alertEvent' = [d \in Conds |-> ProcessAlerts(d, r)]
              PROVE  RowsKept(alertEvent[c], alertEvent'[c])
            <4>1. alertEvent'[c] = ProcessAlerts(c, r)
                BY <3>2
            <4> QED BY <2>1, <3>2, <4>1, ProcessedKeepsRows
        <3>3. ASSUME NEW d \in Conds, NEW i \in 1..Len(alertEvent[d]),
                     alertEvent[d][i].status = "open",
                     alertEvent' = [alertEvent EXCEPT ![d] =
                        [alertEvent[d] EXCEPT ![i] = Acknowledged(alertEvent[d][i])]]
              PROVE  RowsKept(alertEvent[c], alertEvent'[c])
            <4> DEFINE g == [alertEvent[d] EXCEPT ![i] = Acknowledged(alertEvent[d][i])]
            <4>1. RowsKept(alertEvent[d], g)
                BY <2>1, <3>3, AcknowledgedKeepsRows
            <4>2. alertEvent' = [alertEvent EXCEPT ![d] = g]
                BY <3>3
            <4> HIDE DEF g
            <4>3. alertEvent'[c] = IF c = d THEN g ELSE alertEvent[c]
                BY <2>1, <4>2 DEF TypeOK
            <4> QED BY <2>1, <4>1, <4>3, SameRowsKept
        <3> QED BY <1>1, <3>1, <3>2, <3>3, HistorySteps
    <2> QED BY <2>2 DEF HistoryKeptStep, RowsKept
<1> QED BY <1>1, SpecIInv, PTL DEF Spec, HistoryKept

-----------------------------------------------------------------------------
(***************************************************************************)
(* The outcome of an evaluation.                                           *)
(***************************************************************************)
Outcome(c, r, g) ==
    CASE collectionRun[r].verdict[c] = "triggered" ->
             \E i \in 1..Len(g) : Active(g[i]) \/ g[i].resolvedAt + Cooldown[c] > now
      [] collectionRun[r].verdict[c] = "clear" -> \A i \in 1..Len(g) : ~Active(g[i])
      [] OTHER -> g = alertEvent[c]

LEMMA ProcessedOutcome ==
    ASSUME TypeOK, NEW c \in Conds, NEW r \in Runs,
           collectionRun[r].finishedAt # Never
    PROVE  Outcome(c, r, ProcessAlerts(c, r))
<1> DEFINE h == alertEvent[c]
           p == ProcessAlerts(c, r)
           n == Len(h)
           v == collectionRun[r].verdict[c]
<1>1. h \in Seq(AlertEvent) /\ n \in Nat
    BY DEF TypeOK
<1>2. \A i \in 1..n : h[i] \in AlertEvent
    BY <1>1
<1>3. /\ p \in Seq(AlertEvent)
      /\ Len(p) = n + (IF Opens(c, r, h) THEN 1 ELSE 0)
      /\ \A i \in 1..n :
            p[i] = IF ~Active(h[i]) THEN h[i]
                   ELSE IF Triggered(c, r) THEN Seen(r, h[i])
                   ELSE IF Clear(c, r) THEN Resolve(h[i])
                   ELSE h[i]
      /\ Opens(c, r, h) => p[n + 1] = Seen(r, NewEvent(r))
    BY ProcessedShape
<1> SUFFICES Outcome(c, r, p)
    OBVIOUS
<1> HIDE DEF p
<1>4. CASE v = "triggered"
    <2>1. Triggered(c, r)
        BY <1>4 DEF Triggered
    <2>2. CASE Opens(c, r, h)
        <3>1. NewEvent(r) \in AlertEvent /\ NewEvent(r).status = "open"
            BY NewEventType DEF NewEvent
        <3>2. Active(p[n + 1])
            BY <1>3, <2>2, <3>1, SeenType DEF Active
        <3>3. n + 1 \in 1..Len(p)
            BY <1>1, <1>3, <2>2 DEF n
        <3> QED BY <1>4, <3>2, <3>3 DEF Outcome
    <2>3. CASE ~Opens(c, r, h)
        <3>1. PICK i \in 1..n : Active(h[i]) \/ InCooldown(c, h[i])
            BY <2>1, <2>3 DEF Opens
        <3>2. i \in 1..Len(p) /\ h[i] \in AlertEvent
            BY <1>1, <1>2, <1>3, <2>3
        <3>3. CASE Active(h[i])
            <4>1. p[i] = Seen(r, h[i])
                BY <1>3, <2>1, <3>3
            <4>2. p[i].status = h[i].status
                BY <3>2, <4>1, SeenType
            <4> QED BY <1>4, <3>2, <3>3, <4>2 DEF Outcome, Active
        <3>4. CASE ~Active(h[i])
            <4>1. p[i] = h[i] /\ p[i].resolvedAt + Cooldown[c] > now
                BY <1>3, <3>1, <3>4 DEF InCooldown
            <4> QED BY <1>4, <3>2, <4>1 DEF Outcome
        <3> QED BY <3>3, <3>4
    <2> QED BY <2>2, <2>3
<1>5. CASE v = "clear"
    <2>1. Clear(c, r) /\ ~Triggered(c, r) /\ ~Opens(c, r, h)
        BY <1>5 DEF Clear, Triggered, Opens
    <2>2. ASSUME NEW i \in 1..Len(p)
          PROVE  ~Active(p[i])
        <3>1. i \in 1..n /\ h[i] \in AlertEvent
            BY <1>1, <1>2, <1>3, <2>1
        <3>2. CASE Active(h[i])
            BY <1>3, <2>1, <3>1, <3>2, ResolveType DEF Active
        <3>3. CASE ~Active(h[i])
            BY <1>3, <3>1, <3>3
        <3> QED BY <3>2, <3>3
    <2> QED BY <1>5, <2>2 DEF Outcome
<1>6. CASE v # "triggered" /\ v # "clear"
    <2>1. ~Clear(c, r) /\ ~Triggered(c, r) /\ ~Opens(c, r, h)
        BY <1>6 DEF Clear, Triggered, Opens
    <2>2. Len(p) = n /\ \A i \in 1..n : p[i] = h[i]
        BY <1>1, <1>3, <2>1
    <2>3. p = h
        BY <1>1, <1>3, <2>2, SeqEqual
    <2> QED BY <1>6, <2>3 DEF Outcome
<1> QED BY <1>4, <1>5, <1>6

\* The step that marks a run processed leaves every condition as its verdict says.
THEOREM OutcomeAlways == Spec => EvaluationOutcome
<1>1. ASSUME IInv, [Next]_vars
      PROVE  [OutcomeStep]_vars
    <2> SUFFICES ASSUME NEW r \in Runs, NEW c \in Conds,
                        collectionRun[r].alertsProcessedAt = Never,
                        collectionRun'[r].alertsProcessedAt # Never
                 PROVE  Outcome(c, r, alertEvent'[c])
        BY DEF OutcomeStep, Outcome
    <2>1. TypeOK
        BY <1>1 DEF IInv
    <2>2. \A q \in Runs : FinishRun(q) => collectionRun'[r].alertsProcessedAt = Never
        BY <2>1 DEF FinishRun, TypeOK
    <2>3. \A q \in Runs : EvaluateRun(q) => q = r
        BY <2>1 DEF EvaluateRun, TypeOK
    <2>4. ASSUME collectionRun' = collectionRun
          PROVE  FALSE
        BY <2>4
    <2>5. EvaluateRun(r)
        BY <1>1, <2>2, <2>3, <2>4
           DEF Next, vars, Tick, RollBackRun, FetchPendingRuns, FinishBatch, LoseTask,
               Acknowledge
    <2>6. collectionRun[r].finishedAt # Never
        BY <1>1, <2>5, VisitedDated DEF EvaluateRun
    <2>7. alertEvent'[c] = ProcessAlerts(c, r)
        BY <2>5 DEF EvaluateRun
    <2> QED BY <2>1, <2>6, <2>7, ProcessedOutcome
<1> QED BY <1>1, SpecIInv, PTL DEF Spec, EvaluationOutcome

-----------------------------------------------------------------------------
(***************************************************************************)
(* AlertEngine implements AlertLifecycle.                                  *)
(***************************************************************************)
Live(h)  == {i \in 1..Len(h) : Active(h[i])}
Acked(h) == {i \in 1..Len(h) : h[i].status = "acknowledged"}

\* One lifecycle step of a history h that becomes g.
Moves(h, g) ==
    \/ Len(g) = Len(h) /\ Live(g) = Live(h) /\ Acked(g) = Acked(h)
    \/ Live(h) = {} /\ Len(g) = Len(h) + 1 /\ Live(g) = {Len(g)} /\ Acked(g) = {}
    \/ Live(h) # {} /\ Len(g) = Len(h) /\ Live(g) = {} /\ Acked(g) = {}
    \/ /\ Live(h) # {} /\ Acked(h) = {}
       /\ Len(g) = Len(h) /\ Live(g) = Live(h) /\ Acked(g) = Live(h)

LEMMA ProcessedMoves ==
    ASSUME TypeOK, NEW c \in Conds, NEW r \in Runs,
           collectionRun[r].finishedAt # Never
    PROVE  Moves(alertEvent[c], ProcessAlerts(c, r))
<1> DEFINE h == alertEvent[c]
           p == ProcessAlerts(c, r)
           n == Len(h)
<1>1. h \in Seq(AlertEvent) /\ n \in Nat
    BY DEF TypeOK
<1>2. \A i \in 1..n : h[i] \in AlertEvent
    BY <1>1
<1>3. /\ Len(p) = n + (IF Opens(c, r, h) THEN 1 ELSE 0)
      /\ \A i \in 1..n :
            p[i] = IF ~Active(h[i]) THEN h[i]
                   ELSE IF Triggered(c, r) THEN Seen(r, h[i])
                   ELSE IF Clear(c, r) THEN Resolve(h[i])
                   ELSE h[i]
      /\ Opens(c, r, h) => p[n + 1] = Seen(r, NewEvent(r))
    BY ProcessedShape
<1> SUFFICES Moves(h, p)
    OBVIOUS
<1> HIDE DEF h, p
<1>4. CASE Opens(c, r, h)
    <2>1. \A i \in 1..n : ~Active(h[i]) /\ p[i] = h[i]
        BY <1>3, <1>4 DEF Opens, n
    <2>2. NewEvent(r) \in AlertEvent /\ NewEvent(r).status = "open"
        BY NewEventType DEF NewEvent
    <2>3. p[n + 1].status = "open"
        BY <1>3, <1>4, <2>2, SeenType
    <2>4. Live(h) = {} /\ Len(p) = n + 1
        BY <1>3, <1>4, <2>1 DEF Live, n
    <2>5. \A i \in 1..Len(p) : i \in 1..n \/ i = n + 1
        BY <1>1, <2>4
    <2>6. \A i \in 1..Len(p) : (Active(p[i]) <=> i = n + 1) /\ p[i].status # "acknowledged"
        BY <1>1, <2>1, <2>3, <2>5 DEF Active
    <2>7. Live(p) = {Len(p)} /\ Acked(p) = {}
        BY <1>1, <2>4, <2>6 DEF Live, Acked
    <2> QED BY <2>4, <2>7 DEF Moves, n
<1>5. CASE ~Opens(c, r, h) /\ ~Triggered(c, r) /\ Clear(c, r)
    <2>1. Len(p) = n
        BY <1>1, <1>3, <1>5
    <2>2. ASSUME NEW i \in 1..n
          PROVE  ~Active(p[i])
        BY <1>2, <1>3, <1>5, ResolveType DEF Active
    <2>3. Live(p) = {} /\ Acked(p) = {}
        BY <2>1, <2>2 DEF Live, Acked, Active
    <2>4. Live(h) = {} => Acked(h) = {}
        BY DEF Live, Acked, Active
    <2> QED BY <2>1, <2>3, <2>4 DEF Moves, n
<1>6. CASE ~Opens(c, r, h) /\ (Triggered(c, r) \/ ~Clear(c, r))
    <2>1. Len(p) = n
        BY <1>1, <1>3, <1>6
    <2>2. ASSUME NEW i \in 1..n
          PROVE  p[i].status = h[i].status
        <3>1. p[i] = h[i] \/ p[i] = Seen(r, h[i])
            BY <1>3, <1>6
        <3> QED BY <1>2, <3>1, SeenType
    <2>3. Live(p) = Live(h) /\ Acked(p) = Acked(h)
        BY <2>1, <2>2 DEF Live, Acked, Active, n
    <2> QED BY <2>1, <2>3 DEF Moves, n
<1>7. Triggered(c, r) => ~Clear(c, r)
    BY DEF Triggered, Clear
<1>8. Opens(c, r, h) => Triggered(c, r)
    BY DEF Opens
<1> QED BY <1>4, <1>5, <1>6

LEMMA AcknowledgedMoves ==
    ASSUME TypeOK, NEW c \in Conds, NEW i \in 1..Len(alertEvent[c]),
           Episodes(alertEvent[c]), alertEvent[c][i].status = "open"
    PROVE  Moves(alertEvent[c],
                 [alertEvent[c] EXCEPT ![i] = Acknowledged(alertEvent[c][i])])
<1> DEFINE h == alertEvent[c]
           a == Acknowledged(h[i])
           g == [h EXCEPT ![i] = a]
<1>1. h \in Seq(AlertEvent) /\ h[i] \in AlertEvent
    BY DEF TypeOK
<1>2. a.status = "acknowledged" /\ a \in AlertEvent
    BY <1>1, AcknowledgedType
<1>3. i \in 1..Len(h) /\ h[i].status = "open" /\ Episodes(h)
    OBVIOUS
<1> HIDE DEF a, h
<1>4. Len(g) = Len(h) /\ Len(h) \in Nat
    BY <1>1, <1>2, <1>3
<1>5. \A k \in 1..Len(h) : g[k] = IF k = i THEN a ELSE h[k]
    BY <1>1
<1> HIDE DEF g
<1>6. i = Len(h)
    BY <1>3 DEF Episodes
<1>7. \A k \in 1..Len(h) : k # i => h[k].status = "resolved"
    BY <1>3, <1>6 DEF Episodes
<1>8. Live(h) = {i} /\ Acked(h) = {}
    BY <1>3, <1>7 DEF Live, Acked, Active
<1>9. Live(g) = {i} /\ Acked(g) = {i}
    BY <1>2, <1>3, <1>4, <1>5, <1>7 DEF Live, Acked, Active
<1>10. Moves(h, g)
    BY <1>4, <1>8, <1>9 DEF Moves
<1> QED BY <1>10 DEF g, a, h

LEMMA LifecycleInit == Init => Lifecycle!Init
BY DEF Init, Lifecycle!Init, Active

LEMMA LifecycleStep ==
    ASSUME IInv, [Next]_vars
    PROVE  [Lifecycle!Next]_(Lifecycle!lifecycleVars)
<1>1. TypeOK
    BY DEF IInv
<1>2. ASSUME NEW c \in Conds
      PROVE  Moves(alertEvent[c], alertEvent'[c])
    <2>1. CASE alertEvent' = alertEvent
        BY <2>1 DEF Moves
    <2>2. ASSUME NEW r \in Runs, collectionRun[r].finishedAt # Never,
                 alertEvent' = [d \in Conds |-> ProcessAlerts(d, r)]
          PROVE  Moves(alertEvent[c], alertEvent'[c])
        <3>1. alertEvent'[c] = ProcessAlerts(c, r)
            BY <2>2
        <3> QED BY <1>1, <2>2, <3>1, ProcessedMoves
    <2>3. ASSUME NEW d \in Conds, NEW i \in 1..Len(alertEvent[d]),
                 alertEvent[d][i].status = "open",
                 alertEvent' = [alertEvent EXCEPT ![d] =
                    [alertEvent[d] EXCEPT ![i] = Acknowledged(alertEvent[d][i])]]
          PROVE  Moves(alertEvent[c], alertEvent'[c])
        <3> DEFINE g == [alertEvent[d] EXCEPT ![i] = Acknowledged(alertEvent[d][i])]
        <3>1. Moves(alertEvent[d], g)
            BY <1>1, <2>3, AcknowledgedMoves DEF IInv
        <3>2. alertEvent' = [alertEvent EXCEPT ![d] = g]
            BY <2>3
        <3> HIDE DEF g
        <3>3. alertEvent'[c] = IF c = d THEN g ELSE alertEvent[c]
            BY <1>1, <3>2 DEF TypeOK
        <3>4. Moves(alertEvent[c], alertEvent[c])
            BY DEF Moves
        <3> QED BY <3>1, <3>3, <3>4
    <2> QED BY <2>1, <2>2, <2>3, HistorySteps
<1>3. ASSUME NEW c \in Conds
      PROVE  Lifecycle!Stays(c) \/ Lifecycle!Opens(c) \/ Lifecycle!Closes(c)
             \/ Lifecycle!IsAcknowledged(c)
    BY <1>2 DEF Moves, Live, Acked, Active, Lifecycle!Stays, Lifecycle!Opens,
                Lifecycle!Closes, Lifecycle!IsAcknowledged
<1> QED BY <1>3 DEF Lifecycle!Next

\* The alert engine implements AlertLifecycle: whatever is retried, rolled back
\* or acknowledged, an operator sees numbered episodes, one live at a time.
THEOREM EngineImplementsLifecycle == Spec => ImplementsLifecycle
BY LifecycleInit, LifecycleStep, SpecIInv, PTL
   DEF Spec, ImplementsLifecycle, Lifecycle!Spec

-----------------------------------------------------------------------------
(***************************************************************************)
(* Order.  Until the first fault the runs are evaluated in the order they  *)
(* finished, across batches too, and no evaluation is rolled back, so the  *)
(* newest run with a verdict decides (ShowsLatest).  At any time the run   *)
(* evaluated last does (LastShown), and this is what is left after a fault.*)
(***************************************************************************)
Processed(r) == collectionRun[r].alertsProcessedAt # Never

RunsDated ==
    /\ \A r \in Runs : /\ collectionRun[r].finishedAt <= now
                       /\ collectionRun[r].alertsProcessedAt <= now
                       /\ collectionRun[r].status = "running" =>
                              collectionRun[r].finishedAt = Never /\ ~Processed(r)
    /\ \A r, q \in Runs : collectionRun[r].finishedAt = collectionRun[q].finishedAt
                              => r = q \/ collectionRun[r].finishedAt = Never

\* A row was last seen by a run.
RowDated(e) == TimesOrdered(e) /\ \E q \in Runs : e.lastSeenAt = collectionRun[q].finishedAt

\* The runs still to be evaluated are the newest, those of the batch before the
\* others; no event is as new as they are.
TaskInOrder == /\ task.left \subseteq Pending
               /\ \A r \in task.left : \A q \in Pending \ task.left : NoLaterThan(r, q)
               /\ task.state = "evaluating" => task.succeeded \/ task.left # {}

DoneBeforeWaiting == \A r, q \in Runs : Processed(r) /\ Waiting(q) =>
                         collectionRun[r].finishedAt < collectionRun[q].finishedAt

OlderThanWaiting(e) == \A q \in Runs : Waiting(q) => e.lastSeenAt < collectionRun[q].finishedAt

ShowsLatest(c, h) == \A r \in Evaluated(c) :
                         (\A q \in Evaluated(c) : NoLaterThan(q, r)) => Shown(c, r, h)

RowsInOrder == \A c \in Conds : \A i \in 1..Len(alertEvent[c]) :
                   OlderThanWaiting(alertEvent[c][i])

LastShown(c, h) == \A r \in Evaluated(c) :
                       (\A q \in Evaluated(c) \ {r} : EvaluatedBefore(q, r)) => Shown(c, r, h)

LatestShown == \A c \in Conds : ShowsLatest(c, alertEvent[c])

OrderInv ==
    /\ RunsDated
    /\ \A c \in Conds : LastShown(c, alertEvent[c])
    /\ \A c \in Conds : \A i \in 1..Len(alertEvent[c]) : /\ RowDated(alertEvent[c][i])
                                                         /\ Traced(c, alertEvent[c][i])
    /\ faults = 0 => TaskInOrder /\ DoneBeforeWaiting /\ RowsInOrder /\ LatestShown

\* What the transaction for r makes of one row.
Untouched(c, r, e, f) == f = e /\ (Active(e) => ~Triggered(c, r) /\ ~Clear(c, r))

SeenAgain(c, r, e, f) ==
    /\ Triggered(c, r) /\ Active(e) /\ Active(f)
    /\ f.firstSeenAt = e.firstSeenAt /\ f.lastSeenAt = collectionRun[r].finishedAt
    /\ f.resolvedAt = e.resolvedAt /\ f.createdAt = e.createdAt

Closed(c, r, e, f) ==
    /\ Clear(c, r) /\ Active(e) /\ ~Active(f)
    /\ f.firstSeenAt = e.firstSeenAt /\ f.lastSeenAt = e.lastSeenAt
    /\ f.resolvedAt = now /\ f.createdAt = e.createdAt

Created(c, r, f) ==
    /\ Triggered(c, r) /\ Active(f)
    /\ f.firstSeenAt = collectionRun[r].finishedAt
    /\ f.lastSeenAt = collectionRun[r].finishedAt
    /\ f.resolvedAt = Never /\ f.createdAt = now

LEMMA ProcessedRows ==
    ASSUME TypeOK, NEW c \in Conds, NEW r \in Runs,
           collectionRun[r].finishedAt # Never,
           NEW i \in 1..Len(ProcessAlerts(c, r))
    PROVE  LET h == alertEvent[c]
               f == ProcessAlerts(c, r)[i]
           IN  \/ /\ i \in 1..Len(h) /\ h[i] \in AlertEvent
                  /\ Untouched(c, r, h[i], f) \/ SeenAgain(c, r, h[i], f)
                     \/ Closed(c, r, h[i], f)
               \/ i = Len(h) + 1 /\ Opens(c, r, h) /\ Created(c, r, f)
<1> DEFINE h == alertEvent[c]
           p == ProcessAlerts(c, r)
           n == Len(h)
<1>1. h \in Seq(AlertEvent) /\ n \in Nat
    BY DEF TypeOK
<1>2. /\ Len(p) = n + (IF Opens(c, r, h) THEN 1 ELSE 0)
      /\ \A k \in 1..n :
            p[k] = IF ~Active(h[k]) THEN h[k]
                   ELSE IF Triggered(c, r) THEN Seen(r, h[k])
                   ELSE IF Clear(c, r) THEN Resolve(h[k])
                   ELSE h[k]
      /\ Opens(c, r, h) => p[n + 1] = Seen(r, NewEvent(r))
    BY ProcessedShape
<1>3. i \in 1..Len(p)
    OBVIOUS
<1> SUFFICES \/ /\ i \in 1..n /\ h[i] \in AlertEvent
                /\ Untouched(c, r, h[i], p[i]) \/ SeenAgain(c, r, h[i], p[i])
                   \/ Closed(c, r, h[i], p[i])
             \/ i = n + 1 /\ Opens(c, r, h) /\ Created(c, r, p[i])
    OBVIOUS
<1> HIDE DEF p, h
<1>4. CASE i \in 1..n
    <2>1. h[i] \in AlertEvent
        BY <1>1, <1>4 DEF n
    <2>2. CASE ~Active(h[i])
        BY <1>2, <1>4, <2>1, <2>2 DEF Untouched
    <2>3. CASE Active(h[i]) /\ Triggered(c, r)
        <3>1. p[i] = Seen(r, h[i])
            BY <1>2, <1>4, <2>3
        <3>2. SeenAgain(c, r, h[i], p[i])
            BY <2>1, <2>3, <3>1, SeenType DEF SeenAgain, Active
        <3> QED BY <1>4, <2>1, <3>2
    <2>4. CASE Active(h[i]) /\ ~Triggered(c, r) /\ Clear(c, r)
        <3>1. p[i] = Resolve(h[i])
            BY <1>2, <1>4, <2>4
        <3>2. Closed(c, r, h[i], p[i])
            BY <2>1, <2>4, <3>1, ResolveType DEF Closed, Active
        <3> QED BY <1>4, <2>1, <3>2
    <2>5. CASE ~Triggered(c, r) /\ ~Clear(c, r)
        BY <1>2, <1>4, <2>1, <2>5 DEF Untouched
    <2> QED BY <2>2, <2>3, <2>4, <2>5
<1>5. CASE i \notin 1..n
    <2>1. i = n + 1 /\ Opens(c, r, h)
        BY <1>1, <1>2, <1>3, <1>5
    <2>2. NewEvent(r) \in AlertEvent
        BY NewEventType
    <2>3. p[i] = Seen(r, NewEvent(r))
        BY <1>2, <2>1
    <2>4. Created(c, r, p[i])
        BY <2>1, <2>2, <2>3, SeenType DEF Created, NewEvent, Active, Opens
    <2> QED BY <2>1, <2>4
<1> QED BY <1>4, <1>5

\* Numbers.
LEMMA RunTypes ==
    ASSUME TypeOK
    PROVE  /\ now \in Nat
           /\ \A r \in Runs : /\ collectionRun[r].finishedAt \in Nat
                              /\ collectionRun[r].alertsProcessedAt \in Nat
                              /\ \A c \in Conds : collectionRun[r].verdict[c] \in Verdicts
BY DEF TypeOK, Time, CollectionRun

LEMMA RowTypes ==
    ASSUME TypeOK, NEW c \in Conds, NEW i \in 1..Len(alertEvent[c])
    PROVE  /\ alertEvent[c][i] \in AlertEvent
           /\ alertEvent[c][i].firstSeenAt \in Nat
           /\ alertEvent[c][i].lastSeenAt \in Nat \ {Never}
           /\ alertEvent[c][i].resolvedAt \in Nat
           /\ alertEvent[c][i].createdAt \in Nat
<1>1. alertEvent[c] \in Seq(AlertEvent)
    BY DEF TypeOK
<1>2. alertEvent[c][i] \in AlertEvent
    BY <1>1
<1> QED BY <1>2 DEF AlertEvent, Time

LEMMA WaitingIsPending ==
    ASSUME NEW r
    PROVE  r \in Pending <=> r \in Runs /\ Waiting(r)
BY DEF Pending, Waiting

\* The run the task visits is older than all that are left.
LEMMA VisitedOldest ==
    ASSUME IInv, OrderInv, faults = 0, NEW r \in Runs, NextInBatch(r)
    PROVE  /\ Waiting(r) /\ ~Processed(r)
           /\ \A q \in Runs \ {r} : Waiting(q) =>
                  collectionRun[r].finishedAt < collectionRun[q].finishedAt
           /\ \A q \in Runs : Processed(q) =>
                  collectionRun[q].finishedAt < collectionRun[r].finishedAt
<1>1. TypeOK /\ TaskInOrder /\ DoneBeforeWaiting /\ RunsDated
    BY DEF IInv, OrderInv
<1>2. r \in Pending
    BY <1>1 DEF NextInBatch, TaskInOrder
<1>3. Waiting(r)
    BY <1>2, WaitingIsPending
<1>4. \A q \in Runs : Waiting(q) => NoLaterThan(r, q)
    BY <1>1, WaitingIsPending DEF NextInBatch, TaskInOrder
<1>5. collectionRun[r].finishedAt # Never
    BY VisitedDated
<1>6. ASSUME NEW q \in Runs \ {r}, Waiting(q)
      PROVE  collectionRun[r].finishedAt < collectionRun[q].finishedAt
    BY <1>1, <1>4, <1>5, <1>6, RunTypes DEF NoLaterThan, RunsDated
<1> QED BY <1>1, <1>3, <1>6 DEF DoneBeforeWaiting, Waiting, Processed

\* Until a fault, the constraint on the times of an event rolls no evaluation
\* back.
LEMMA AcceptedInOrder ==
    ASSUME IInv, OrderInv, faults = 0, NEW r \in Runs, NextInBatch(r)
    PROVE  Accepted(r)
<1>1. TypeOK /\ collectionRun[r].finishedAt # Never /\ Waiting(r)
    BY VisitedDated, VisitedOldest DEF IInv
<1> SUFFICES ASSUME NEW c \in Conds, NEW i \in 1..Len(ProcessAlerts(c, r))
             PROVE  TimesOrdered(ProcessAlerts(c, r)[i])
    BY DEF Accepted
<1> DEFINE h == alertEvent[c]
           f == ProcessAlerts(c, r)[i]
<1>2. \/ /\ i \in 1..Len(h) /\ h[i] \in AlertEvent
         /\ Untouched(c, r, h[i], f) \/ SeenAgain(c, r, h[i], f) \/ Closed(c, r, h[i], f)
      \/ i = Len(h) + 1 /\ Opens(c, r, h) /\ Created(c, r, f)
    BY <1>1, ProcessedRows
<1>3. now \in Nat /\ collectionRun[r].finishedAt \in Nat
    BY <1>1, RunTypes
<1>7. \A q \in Runs : collectionRun[q].finishedAt \in Nat /\ collectionRun[q].finishedAt <= now
    BY <1>1, RunTypes DEF OrderInv, RunsDated
<1> SUFFICES TimesOrdered(f)
    OBVIOUS
<1> HIDE DEF f
<1>4. CASE i = Len(h) + 1 /\ Created(c, r, f)
    BY <1>3, <1>4 DEF Created, TimesOrdered
<1>5. CASE i \in 1..Len(h)
    <2>1. /\ h[i].firstSeenAt \in Nat /\ h[i].lastSeenAt \in Nat /\ h[i].resolvedAt \in Nat
          /\ RowDated(h[i]) /\ OlderThanWaiting(h[i])
        BY <1>1, <1>5, RowTypes DEF OrderInv, RowsInOrder
    <2>2. /\ h[i].firstSeenAt <= collectionRun[r].finishedAt /\ h[i].firstSeenAt <= now
          /\ TimesOrdered(h[i])
        BY <1>1, <1>3, <1>7, <2>1 DEF RowDated, TimesOrdered, OlderThanWaiting
    <2>3. CASE Untouched(c, r, h[i], f)
        BY <2>2, <2>3 DEF Untouched
    <2>4. CASE SeenAgain(c, r, h[i], f)
        BY <2>2, <2>4 DEF SeenAgain, TimesOrdered
    <2>5. CASE Closed(c, r, h[i], f)
        BY <2>2, <2>5 DEF Closed, TimesOrdered
    <2>6. CASE i = Len(h) + 1 /\ Created(c, r, f)
        BY <1>4, <2>6
    <2> QED BY <1>2, <2>3, <2>4, <2>5, <2>6
<1> QED BY <1>2, <1>4, <1>5

\* Rows that differ at most in an acknowledgement.
SameFacts(g, h) ==
    /\ Len(g) = Len(h)
    /\ \A k \in 1..Len(h) : /\ Active(g[k]) <=> Active(h[k])
                            /\ g[k].firstSeenAt = h[k].firstSeenAt
                            /\ g[k].lastSeenAt = h[k].lastSeenAt
                            /\ g[k].resolvedAt = h[k].resolvedAt
                            /\ g[k].createdAt = h[k].createdAt

LEMMA AcknowledgedFacts ==
    ASSUME TypeOK, NEW c \in Conds, NEW i \in 1..Len(alertEvent[c]), Acknowledge(c, i)
    PROVE  \A d \in Conds : SameFacts(alertEvent'[d], alertEvent[d])
<1> DEFINE h == alertEvent[c]
           a == Acknowledged(h[i])
           g == [h EXCEPT ![i] = a]
<1>1. h \in Seq(AlertEvent) /\ h[i] \in AlertEvent /\ i \in 1..Len(h) /\ h[i].status = "open"
    BY DEF TypeOK, Acknowledge
<1>2. /\ a \in AlertEvent /\ Active(a) /\ Active(h[i])
      /\ a.firstSeenAt = h[i].firstSeenAt /\ a.lastSeenAt = h[i].lastSeenAt
      /\ a.resolvedAt = h[i].resolvedAt /\ a.createdAt = h[i].createdAt
    BY <1>1, AcknowledgedType DEF Active
<1>3. alertEvent' = [alertEvent EXCEPT ![c] = g]
    BY DEF Acknowledge
<1> HIDE DEF a
<1>4. SameFacts(g, h)
    <2> HIDE DEF h
    <2>1. Len(g) = Len(h) /\ \A k \in 1..Len(h) : g[k] = IF k = i THEN a ELSE h[k]
        BY <1>1, <1>2
    <2> QED BY <1>2, <2>1 DEF SameFacts
<1> HIDE DEF g
<1>5. \A d \in Conds : alertEvent'[d] = IF d = c THEN g ELSE alertEvent[d]
    BY <1>3 DEF TypeOK
<1> QED BY <1>4, <1>5 DEF SameFacts

\* What is said of the rows stays said while no run is evaluated.
LEMMA RowsStayTrue ==
    ASSUME TypeOK, NEW c \in Conds, SameFacts(alertEvent'[c], alertEvent[c]),
           \A q \in Runs : /\ Processed(q)' <=> Processed(q)
                           /\ Processed(q) => collectionRun'[q] = collectionRun[q]
    PROVE  /\ ShowsLatest(c, alertEvent[c]) => ShowsLatest(c, alertEvent[c])'
           /\ LastShown(c, alertEvent[c]) => LastShown(c, alertEvent[c])'
           /\ \A i \in 1..Len(alertEvent'[c]) :
                  Traced(c, alertEvent[c][i]) => Traced(c, alertEvent[c][i])'
<1> DEFINE h == alertEvent[c]
           g == alertEvent'[c]
<1>1. SameFacts(g, h)
    OBVIOUS
<1>2. Evaluated(c)' = Evaluated(c)
    BY DEF Evaluated, Processed
<1>3. \A r, q \in Evaluated(c) : /\ NoLaterThan(q, r)' <=> NoLaterThan(q, r)
                                 /\ EvaluatedBefore(q, r)' <=> EvaluatedBefore(q, r)
    BY DEF Evaluated, Processed, NoLaterThan, EvaluatedBefore
<1>4. \A r \in Evaluated(c) : Shown(c, r, h) => Shown(c, r, h)'
    <2> SUFFICES ASSUME NEW r \in Evaluated(c), Shown(c, r, h) PROVE Shown(c, r, h)'
        OBVIOUS
    <2>1. collectionRun'[r] = collectionRun[r]
        BY DEF Evaluated, Processed
    <2> QED BY <1>1, <2>1 DEF Shown, Clear, SameFacts
<1>5. ShowsLatest(c, h) => ShowsLatest(c, h)'
    BY <1>2, <1>3, <1>4 DEF ShowsLatest
<1>6. LastShown(c, h) => LastShown(c, h)'
    BY <1>2, <1>3, <1>4 DEF LastShown
<1>7. ASSUME NEW i \in 1..Len(g), Traced(c, h[i])
      PROVE  Traced(c, h[i])'
    <2>1. i \in 1..Len(h) /\ h[i].createdAt \in Nat /\ h[i].resolvedAt \in Nat
        BY <1>1, <1>7, RowTypes DEF SameFacts
    <2>2. /\ Active(g[i]) <=> Active(h[i])
          /\ g[i].firstSeenAt = h[i].firstSeenAt /\ g[i].lastSeenAt = h[i].lastSeenAt
          /\ g[i].createdAt = h[i].createdAt /\ g[i].resolvedAt = h[i].resolvedAt
        BY <1>1, <2>1 DEF SameFacts
    <2>3. ASSUME NEW r \in Runs, NEW at, Marked(r, at)
          PROVE  /\ Marked(r, at)' /\ (Triggered(c, r)' <=> Triggered(c, r))
                 /\ (Clear(c, r)' <=> Clear(c, r))
                 /\ collectionRun'[r].finishedAt = collectionRun[r].finishedAt
        BY <2>3 DEF Marked, Processed, Triggered, Clear
    <2> QED BY <1>7, <2>2, <2>3 DEF Traced
<1> QED BY <1>5, <1>6, <1>7

\* Steps that leave the runs alone.
LEMMA QuietStep ==
    ASSUME IInv, OrderInv, collectionRun' = collectionRun, now' \in Nat, now <= now',
           \A c \in Conds : SameFacts(alertEvent'[c], alertEvent[c]),
           faults' = 0 => faults = 0 /\ TaskInOrder'
    PROVE  OrderInv'
<1>1. TypeOK
    BY DEF IInv
<1>2. RunsDated'
    BY <1>1, RunTypes DEF OrderInv, RunsDated, Processed
<1>3. ASSUME NEW c \in Conds, NEW i \in 1..Len(alertEvent'[c])
      PROVE  RowDated(alertEvent[c][i])' /\ Traced(c, alertEvent[c][i])'
    <2>1. i \in 1..Len(alertEvent[c])
        BY <1>3 DEF SameFacts
    <2>2. RowDated(alertEvent[c][i]) /\ alertEvent[c][i].firstSeenAt \in Nat /\ now \in Nat
        BY <1>1, <2>1, RunTypes, RowTypes DEF OrderInv
    <2>3. /\ alertEvent'[c][i].firstSeenAt = alertEvent[c][i].firstSeenAt
          /\ alertEvent'[c][i].lastSeenAt = alertEvent[c][i].lastSeenAt
          /\ alertEvent'[c][i].resolvedAt = alertEvent[c][i].resolvedAt
        BY <2>1 DEF SameFacts
    <2>4. Traced(c, alertEvent[c][i])'
        BY <1>1, <1>3, <2>1, RowsStayTrue DEF OrderInv, Processed
    <2> QED BY <2>2, <2>3, <2>4 DEF RowDated, TimesOrdered
<1>5. \A c \in Conds : LastShown(c, alertEvent[c])'
    BY <1>1, RowsStayTrue DEF OrderInv, Processed
<1>4. ASSUME faults' = 0
      PROVE  (DoneBeforeWaiting /\ RowsInOrder /\ LatestShown)'
    <2>1. faults = 0 /\ DoneBeforeWaiting /\ RowsInOrder /\ LatestShown
        BY <1>4 DEF OrderInv
    <2>2. DoneBeforeWaiting'
        BY <2>1 DEF DoneBeforeWaiting, Processed, Waiting
    <2>3. RowsInOrder'
        BY <2>1 DEF RowsInOrder, OlderThanWaiting, Waiting, SameFacts
    <2>4. LatestShown'
        BY <1>1, <2>1, RowsStayTrue DEF Processed, LatestShown
    <2> QED BY <2>2, <2>3, <2>4
<1> QED BY <1>2, <1>3, <1>4, <1>5 DEF OrderInv

\* A run that finishes is newer than all that were evaluated.
LEMMA FinishRunOrder ==
    ASSUME IInv, OrderInv, NEW r \in Runs, FinishRun(r)
    PROVE  OrderInv'
<1>1. TypeOK /\ RunsDated
    BY DEF IInv, OrderInv
<1>2. /\ collectionRun[r].status = "running" /\ ~Processed(r) /\ ~Waiting(r)
      /\ \A q \in Runs : collectionRun[q].finishedAt # now
      /\ UNCHANGED <<now, alertEvent, task, faults>>
    BY <1>1 DEF FinishRun, RunsDated, Waiting
<1>3. /\ \A q \in Runs \ {r} : collectionRun'[q] = collectionRun[q]
      /\ collectionRun'[r].finishedAt = now /\ collectionRun'[r].alertsProcessedAt = Never
      /\ collectionRun'[r].status # "running"
    BY <1>1 DEF FinishRun, TypeOK
<1>4. now \in Nat /\ \A q \in Runs : /\ collectionRun[q].finishedAt \in Nat
                                      /\ collectionRun[q].finishedAt < now
    <2>1. now \in Nat /\ \A q \in Runs : collectionRun[q].finishedAt \in Nat
        BY <1>1, RunTypes
    <2> QED BY <1>1, <1>2, <2>1 DEF RunsDated
<1>5. \A q \in Runs : Processed(q)' <=> Processed(q)
    BY <1>2, <1>3 DEF Processed
<1>6. \A q \in Runs \ {r} : Waiting(q)' <=> Waiting(q)
    BY <1>3 DEF Waiting
<1>7. RunsDated'
    BY <1>1, <1>2, <1>3, <1>4 DEF RunsDated, Processed
<1>8. ASSUME NEW c \in Conds, NEW i \in 1..Len(alertEvent[c])
      PROVE  RowDated(alertEvent[c][i])' /\ alertEvent[c][i].lastSeenAt < now
    <2>1. alertEvent[c][i].lastSeenAt # Never
        BY <1>1, RowTypes
    <2>2. TimesOrdered(alertEvent[c][i])
        BY DEF OrderInv, RowDated
    <2>3. PICK q \in Runs : alertEvent[c][i].lastSeenAt = collectionRun[q].finishedAt
        BY DEF OrderInv, RowDated
    <2>4. q # r
        BY <1>1, <1>2, <2>1, <2>3 DEF RunsDated
    <2>5. TimesOrdered(alertEvent[c][i])'
        BY <1>2, <2>2 DEF TimesOrdered
    <2> QED BY <1>2, <1>3, <1>4, <2>3, <2>4, <2>5 DEF RowDated
<1>10. \A c \in Conds :
           /\ ShowsLatest(c, alertEvent[c]) => ShowsLatest(c, alertEvent[c])'
           /\ LastShown(c, alertEvent[c])'
           /\ \A i \in 1..Len(alertEvent[c]) : Traced(c, alertEvent[c][i])'
    <2> SUFFICES ASSUME NEW c \in Conds
                 PROVE  /\ ShowsLatest(c, alertEvent[c]) => ShowsLatest(c, alertEvent[c])'
                        /\ LastShown(c, alertEvent[c])'
                        /\ \A i \in 1..Len(alertEvent[c]) : Traced(c, alertEvent[c][i])'
        OBVIOUS
    <2>1. SameFacts(alertEvent'[c], alertEvent[c])
        BY <1>2 DEF SameFacts
    <2> QED BY <1>1, <1>2, <1>3, <1>5, <2>1, RowsStayTrue DEF OrderInv
<1>9. ASSUME faults = 0
      PROVE  (TaskInOrder /\ DoneBeforeWaiting /\ RowsInOrder /\ LatestShown)'
    <2>1. TaskInOrder /\ DoneBeforeWaiting /\ RowsInOrder /\ LatestShown
        BY <1>9 DEF OrderInv
    <2>2. DoneBeforeWaiting'
        BY <1>2, <1>3, <1>4, <1>5, <1>6, <2>1 DEF DoneBeforeWaiting
    <2>3. TaskInOrder'
        <3>1. \A q \in Runs \ {r} : q \in Pending' <=> q \in Pending
            BY <1>3 DEF Pending
        <3>2. r \notin Pending /\ Pending' \subseteq Runs /\ Pending \subseteq Runs
            BY <1>2 DEF Pending
        <3>3. task.left \subseteq Pending' /\ r \notin task.left
            BY <2>1, <3>1, <3>2 DEF TaskInOrder
        <3>4. ASSUME NEW q \in task.left, NEW p \in Pending' \ task.left
              PROVE  NoLaterThan(q, p)'
            <4>1. q \in Runs \ {r} /\ p \in Runs
                BY <3>2, <3>3
            <4>2. CASE p = r
                BY <1>3, <1>4, <4>1, <4>2 DEF NoLaterThan
            <4>3. CASE p # r
                BY <1>3, <2>1, <3>1, <3>4, <4>1, <4>3 DEF NoLaterThan, TaskInOrder
            <4> QED BY <4>2, <4>3
        <3> QED BY <1>2, <2>1, <3>3, <3>4 DEF TaskInOrder
    <2>4. RowsInOrder'
        <3> SUFFICES ASSUME NEW c \in Conds, NEW i \in 1..Len(alertEvent[c]), NEW q \in Runs,
                            Waiting(q)'
                     PROVE  alertEvent[c][i].lastSeenAt < collectionRun'[q].finishedAt
            BY <1>2 DEF RowsInOrder, OlderThanWaiting
        <3>1. CASE q # r
            BY <1>3, <1>6, <2>1, <3>1 DEF RowsInOrder, OlderThanWaiting
        <3>2. CASE q = r
            BY <1>3, <1>8, <3>2
        <3> QED BY <3>1, <3>2
    <2>5. LatestShown'
        BY <1>10, <2>1 DEF LatestShown
    <2> QED BY <2>2, <2>3, <2>4, <2>5
<1> QED BY <1>2, <1>7, <1>8, <1>9, <1>10 DEF OrderInv

\* What an evaluation writes.
LEMMA EvaluatedRows ==
    ASSUME IInv, NEW r \in Runs, EvaluateRun(r)
    PROVE  /\ TypeOK /\ NextInBatch(r) /\ collectionRun[r].finishedAt # Never
           /\ \A c \in Conds : alertEvent'[c] = ProcessAlerts(c, r)
           /\ \A q \in Runs : /\ collectionRun'[q].status = collectionRun[q].status
                              /\ collectionRun'[q].finishedAt = collectionRun[q].finishedAt
                              /\ collectionRun'[q].verdict = collectionRun[q].verdict
                              /\ Processed(q)' <=> Processed(q) \/ q = r
                              /\ q # r => collectionRun'[q] = collectionRun[q]
           /\ collectionRun'[r].alertsProcessedAt = now
           /\ now' = now /\ faults' = faults
<1>1. TypeOK /\ NextInBatch(r) /\ collectionRun[r].finishedAt # Never
    BY VisitedDated DEF IInv, EvaluateRun
<1>2. /\ collectionRun' = [collectionRun EXCEPT ![r].alertsProcessedAt = now]
      /\ now # Never /\ now' = now /\ faults' = faults
      /\ \A c \in Conds : alertEvent'[c] = ProcessAlerts(c, r)
    BY <1>1 DEF EvaluateRun, TypeOK, Time
<1>3. /\ collectionRun'[r].status = collectionRun[r].status
      /\ collectionRun'[r].finishedAt = collectionRun[r].finishedAt
      /\ collectionRun'[r].verdict = collectionRun[r].verdict
      /\ collectionRun'[r].alertsProcessedAt = now
      /\ \A q \in Runs : q # r => collectionRun'[q] = collectionRun[q]
    BY <1>1, <1>2 DEF TypeOK, CollectionRun
<1> QED BY <1>1, <1>2, <1>3 DEF Processed

\* The newest run decides: an evaluation in order leaves the history of each
\* condition as its verdict says.
LEMMA EvaluationShows ==
    ASSUME IInv, OrderInv, faults = 0, NEW r \in Runs, EvaluateRun(r), NEW c \in Conds
    PROVE  ShowsLatest(c, alertEvent[c])'
<1> DEFINE h == alertEvent[c]
           v == collectionRun[r].verdict[c]
<1>1. TypeOK /\ NextInBatch(r) /\ collectionRun[r].finishedAt # Never
    BY EvaluatedRows
<1>2. \A q \in Runs : Processed(q) => collectionRun[q].finishedAt < collectionRun[r].finishedAt
    BY <1>1, VisitedOldest
<1>3. \A q \in Runs : collectionRun[q].finishedAt \in Nat
    BY <1>1, RunTypes
<1>4. Evaluated(c)' = IF v = "absent" THEN Evaluated(c) ELSE Evaluated(c) \cup {r}
    <2>1. r \notin Evaluated(c)
        BY <1>1, VisitedOldest DEF Evaluated, Processed
    <2> QED BY <2>1, EvaluatedRows DEF Evaluated, Processed
<1>5. Outcome(c, r, alertEvent'[c])
    BY <1>1, EvaluatedRows, ProcessedOutcome
<1> SUFFICES ASSUME NEW q \in Evaluated(c)', \A p \in Evaluated(c)' : NoLaterThan(p, q)'
             PROVE  Shown(c, q, h)'
    BY DEF ShowsLatest
<1>6. CASE v = "absent"
    <2>1. alertEvent'[c] = alertEvent[c]
        BY <1>5, <1>6 DEF Outcome
    <2>2. q \in Evaluated(c) /\ q \in Runs /\ Processed(q) /\ q # r
        BY <1>1, <1>4, <1>6, VisitedOldest DEF Evaluated, Processed
    <2>3. \A p \in Evaluated(c) : p \in Runs /\ NoLaterThan(p, q)
        BY <1>4, <1>6, <2>2, EvaluatedRows DEF NoLaterThan, Evaluated
    <2>4. Shown(c, q, h)
        BY <2>2, <2>3 DEF OrderInv, LatestShown, ShowsLatest
    <2>5. collectionRun'[q] = collectionRun[q]
        BY <2>2, EvaluatedRows
    <2> QED BY <2>1, <2>4, <2>5 DEF Shown, Clear
<1>7. CASE v # "absent"
    <2>1. NoLaterThan(r, q)'
        BY <1>4, <1>7
    <2>2. q \in Runs /\ (q = r \/ Processed(q))
        BY <1>4, <1>7 DEF Evaluated, Processed
    <2>3. collectionRun[r].finishedAt <= collectionRun[q].finishedAt
        BY <2>1, <2>2, EvaluatedRows DEF NoLaterThan
    <2>4. q = r
        BY <1>2, <1>3, <2>2, <2>3
    <2>5. v \in {"clear", "triggered"}
        BY <1>1, <1>7, RunTypes DEF Verdicts
    <2>6. /\ Clear(c, r)' <=> v = "clear"
          /\ collectionRun'[r].alertsProcessedAt = now
        BY EvaluatedRows DEF Clear
    <2> QED BY <1>5, <2>4, <2>5, <2>6 DEF Shown, Outcome
<1> QED BY <1>6, <1>7

\* The run evaluated last decides, whatever the order and the faults before.
LEMMA EvaluationShowsLast ==
    ASSUME IInv, OrderInv, NEW r \in Runs, EvaluateRun(r), NEW c \in Conds
    PROVE  LastShown(c, alertEvent[c])'
<1> DEFINE h == alertEvent[c]
           v == collectionRun[r].verdict[c]
<1>1. TypeOK /\ NextInBatch(r) /\ collectionRun[r].finishedAt # Never
    BY EvaluatedRows
<1>2. Evaluated(c)' = IF v = "absent" THEN Evaluated(c) ELSE Evaluated(c) \cup {r}
    BY EvaluatedRows DEF Evaluated, Processed
<1>3. Outcome(c, r, alertEvent'[c])
    BY <1>1, EvaluatedRows, ProcessedOutcome
<1>4. now \in Nat /\ \A q \in Runs : /\ collectionRun[q].alertsProcessedAt \in Nat
                                      /\ collectionRun[q].alertsProcessedAt <= now
    BY <1>1, RunTypes DEF OrderInv, RunsDated
<1> SUFFICES ASSUME NEW q \in Evaluated(c)',
                    \A p \in Evaluated(c)' \ {q} : EvaluatedBefore(p, q)'
             PROVE  Shown(c, q, h)'
    BY DEF LastShown
<1>5. q \in Runs
    BY DEF Evaluated
<1>6. CASE v = "absent"
    <2>1. alertEvent'[c] = alertEvent[c]
        BY <1>3, <1>6 DEF Outcome
    <2>2. q \in Evaluated(c) /\ \A p \in Evaluated(c) : p \in Runs /\ p # r
        BY <1>2, <1>6 DEF Evaluated
    <2>3. \A p \in Evaluated(c) : collectionRun'[p] = collectionRun[p]
        BY <2>2, EvaluatedRows
    <2>4. \A p \in Evaluated(c) \ {q} : EvaluatedBefore(p, q)
        BY <1>2, <1>6, <2>2, <2>3 DEF EvaluatedBefore
    <2>5. Shown(c, q, h)
        BY <2>2, <2>4 DEF OrderInv, LastShown
    <2> QED BY <2>1, <2>2, <2>3, <2>5 DEF Shown, Clear
<1>7. CASE v # "absent"
    <2>1. q = r
        <3> SUFFICES ASSUME q # r PROVE FALSE
            OBVIOUS
        <3>1. collectionRun'[r].alertsProcessedAt < collectionRun'[q].alertsProcessedAt
            BY <1>2, <1>7 DEF EvaluatedBefore
        <3>2. now < collectionRun[q].alertsProcessedAt
            BY <1>5, <3>1, EvaluatedRows
        <3> QED BY <1>4, <1>5, <3>2
    <2>2. v \in {"clear", "triggered"}
        BY <1>1, <1>7, RunTypes DEF Verdicts
    <2>3. /\ Clear(c, r)' <=> v = "clear"
          /\ collectionRun'[r].alertsProcessedAt = now
        BY EvaluatedRows DEF Clear
    <2> QED BY <1>3, <2>1, <2>2, <2>3 DEF Shown, Outcome
<1> QED BY <1>6, <1>7

\* Whatever an evaluation writes, it marks the run it writes it for.
LEMMA EvaluationTraces ==
    ASSUME IInv, OrderInv, NEW r \in Runs, EvaluateRun(r), NEW c \in Conds,
           NEW i \in 1..Len(alertEvent'[c])
    PROVE  Traced(c, alertEvent[c][i])'
<1> DEFINE h == alertEvent[c]
           e == h[i]
           f == alertEvent'[c][i]
           M(q, at) == /\ collectionRun'[q].alertsProcessedAt # Never
                       /\ collectionRun'[q].alertsProcessedAt >= at
           T(q, first) == Triggered(c, q) /\ collectionRun[q].finishedAt = first
<1>1. TypeOK /\ collectionRun[r].finishedAt # Never /\ f = ProcessAlerts(c, r)[i]
    BY EvaluatedRows
<1>2. \/ /\ i \in 1..Len(h) /\ e \in AlertEvent
         /\ Untouched(c, r, e, f) \/ SeenAgain(c, r, e, f) \/ Closed(c, r, e, f)
      \/ Opens(c, r, h) /\ Created(c, r, f)
    BY <1>1, ProcessedRows, EvaluatedRows
<1>3. now \in Nat \ {Never} /\ \A q \in Runs : /\ collectionRun[q].alertsProcessedAt \in Nat
                                                /\ collectionRun[q].alertsProcessedAt <= now
    BY <1>1, RunTypes DEF OrderInv, RunsDated, TypeOK, Time
<1>4. \A q \in Runs : /\ Triggered(c, q)' <=> Triggered(c, q)
                      /\ Clear(c, q)' <=> Clear(c, q)
                      /\ collectionRun'[q].finishedAt = collectionRun[q].finishedAt
    BY EvaluatedRows DEF Triggered, Clear
<1>5. ASSUME NEW q \in Runs, NEW at \in Nat, Marked(q, at)
      PROVE  M(q, at) /\ at <= now
    <2>1. collectionRun'[q].alertsProcessedAt = IF q = r THEN now
                                                ELSE collectionRun[q].alertsProcessedAt
        BY EvaluatedRows
    <2> QED BY <1>3, <1>5, <2>1 DEF Marked
<1>6. ASSUME NEW at \in Nat, at <= now
      PROVE  M(r, at)
    BY <1>3, <1>6, EvaluatedRows
<1>7. Traced(c, h[i])' <=>
          /\ \E q \in Runs : T(q, f.firstSeenAt) /\ M(q, f.createdAt)
          /\ \E q \in Runs : T(q, f.lastSeenAt) /\ M(q, f.createdAt)
          /\ Active(f) \/ \E q \in Runs : Clear(c, q) /\ M(q, f.resolvedAt)
    BY <1>4 DEF Traced, Marked, Active
<1> HIDE DEF f, M
<1>8. CASE Created(c, r, f)
    <2>1. M(r, f.createdAt) /\ Active(f) /\ T(r, f.firstSeenAt) /\ T(r, f.lastSeenAt)
        BY <1>3, <1>6, <1>8 DEF Created
    <2> QED BY <1>7, <2>1
<1>9. CASE i \in 1..Len(h)
    <2>1. Traced(c, e) /\ e.createdAt \in Nat /\ e.resolvedAt \in Nat
        BY <1>1, <1>9, RowTypes DEF OrderInv
    <2>2. /\ \E q \in Runs : T(q, e.firstSeenAt) /\ M(q, e.createdAt)
          /\ \E q \in Runs : T(q, e.lastSeenAt) /\ M(q, e.createdAt)
          /\ Active(e) \/ \E q \in Runs : Clear(c, q) /\ M(q, e.resolvedAt)
          /\ e.createdAt <= now
        BY <1>5, <2>1 DEF Traced
    <2>3. CASE Untouched(c, r, e, f)
        BY <1>7, <2>2, <2>3 DEF Untouched
    <2>4. CASE SeenAgain(c, r, e, f)
        <3>1. T(r, f.lastSeenAt) /\ M(r, f.createdAt) /\ Active(f)
            BY <1>6, <2>1, <2>2, <2>4 DEF SeenAgain
        <3>2. f.firstSeenAt = e.firstSeenAt /\ f.createdAt = e.createdAt
            BY <2>4 DEF SeenAgain
        <3> QED BY <1>7, <2>2, <3>1, <3>2
    <2>5. CASE Closed(c, r, e, f)
        <3>1. Clear(c, r) /\ M(r, f.resolvedAt)
            BY <1>3, <1>6, <2>5 DEF Closed
        <3>2. f.firstSeenAt = e.firstSeenAt /\ f.lastSeenAt = e.lastSeenAt
              /\ f.createdAt = e.createdAt
            BY <2>5 DEF Closed
        <3> QED BY <1>7, <2>2, <3>1, <3>2
    <2> QED BY <1>2, <1>8, <2>3, <2>4, <2>5
<1> QED BY <1>2, <1>8, <1>9

LEMMA EvaluateRunOrder ==
    ASSUME IInv, OrderInv, NEW r \in Runs, EvaluateRun(r)
    PROVE  OrderInv'
<1>1. TypeOK /\ NextInBatch(r) /\ collectionRun[r].finishedAt # Never
    BY EvaluatedRows
<1>2. RunsDated'
    BY <1>1, RunTypes, EvaluatedRows DEF OrderInv, RunsDated
<1>3. ASSUME NEW c \in Conds, NEW i \in 1..Len(alertEvent'[c])
      PROVE  RowDated(alertEvent[c][i])'
    <2> DEFINE f == alertEvent'[c][i]
               h == alertEvent[c]
    <2>1. f = ProcessAlerts(c, r)[i] /\ i \in 1..Len(ProcessAlerts(c, r)) /\ TimesOrdered(f)
        BY <1>3, EvaluatedRows DEF EvaluateRun, Accepted
    <2>2. \/ i \in 1..Len(h) /\ f.lastSeenAt = h[i].lastSeenAt
          \/ f.lastSeenAt = collectionRun[r].finishedAt
        BY <1>1, <2>1, ProcessedRows DEF Untouched, SeenAgain, Closed, Created
    <2>3. \E q \in Runs : f.lastSeenAt = collectionRun[q].finishedAt
        BY <2>2 DEF OrderInv, RowDated
    <2>4. TimesOrdered(alertEvent[c][i])'
        BY <2>1 DEF TimesOrdered
    <2> QED BY <2>3, <2>4, EvaluatedRows DEF RowDated
<1>4. ASSUME faults = 0
      PROVE  (TaskInOrder /\ DoneBeforeWaiting /\ RowsInOrder /\ LatestShown)'
    <2>1. TaskInOrder /\ DoneBeforeWaiting /\ RowsInOrder /\ LatestShown
        BY <1>4 DEF OrderInv
    <2>2. /\ Waiting(r)
          /\ \A q \in Runs \ {r} : Waiting(q) =>
                 collectionRun[r].finishedAt < collectionRun[q].finishedAt
          /\ \A q \in Runs : Processed(q) =>
                 collectionRun[q].finishedAt < collectionRun[r].finishedAt
        BY <1>1, <1>4, VisitedOldest
    <2>3. \A q \in Runs : Waiting(q)' <=> Waiting(q) /\ q # r
        BY EvaluatedRows DEF Waiting, Processed
    <2>4. Pending' = Pending \ {r}
        BY <2>3 DEF Pending, Waiting
    <2>5. task'.left = task.left \ {r} /\ task'.succeeded
        BY <1>1 DEF EvaluateRun, TypeOK, Task
    <2>6. TaskInOrder'
        <3>1. task'.left \subseteq Pending'
            BY <2>1, <2>4, <2>5 DEF TaskInOrder
        <3>2. \A q \in task'.left, p \in Pending' \ task'.left : NoLaterThan(q, p)'
            <4> SUFFICES ASSUME NEW q \in task'.left, NEW p \in Pending' \ task'.left
                         PROVE  NoLaterThan(q, p)'
                OBVIOUS
            <4>1. q \in task.left /\ p \in Pending \ task.left /\ q \in Runs /\ p \in Runs
                BY <2>1, <2>4, <2>5 DEF TaskInOrder, Pending
            <4> QED BY <2>1, <4>1, EvaluatedRows DEF TaskInOrder, NoLaterThan
        <3> QED BY <2>5, <3>1, <3>2 DEF TaskInOrder
    <2>7. DoneBeforeWaiting'
        BY <2>1, <2>2, <2>3, EvaluatedRows DEF DoneBeforeWaiting
    <2>8. RowsInOrder'
        <3> SUFFICES ASSUME NEW c \in Conds, NEW i \in 1..Len(alertEvent'[c]), NEW q \in Runs,
                            Waiting(q)'
                     PROVE  alertEvent'[c][i].lastSeenAt < collectionRun'[q].finishedAt
            BY DEF RowsInOrder, OlderThanWaiting
        <3> DEFINE f == alertEvent'[c][i]
                   h == alertEvent[c]
        <3>1. f = ProcessAlerts(c, r)[i] /\ i \in 1..Len(ProcessAlerts(c, r))
            BY EvaluatedRows
        <3>2. \/ i \in 1..Len(h) /\ f.lastSeenAt = h[i].lastSeenAt
              \/ f.lastSeenAt = collectionRun[r].finishedAt
            BY <1>1, <3>1, ProcessedRows DEF Untouched, SeenAgain, Closed, Created
        <3>3. Waiting(q) /\ q # r
            BY <2>3
        <3> QED BY <2>1, <2>2, <3>2, <3>3, EvaluatedRows DEF RowsInOrder, OlderThanWaiting
    <2>9. LatestShown'
        BY <1>4, EvaluationShows DEF LatestShown
    <2> QED BY <2>6, <2>7, <2>8, <2>9
<1> QED BY <1>2, <1>3, <1>4, EvaluatedRows, EvaluationShowsLast, EvaluationTraces DEF OrderInv

LEMMA InitOrder == Init => OrderInv
<1> SUFFICES ASSUME Init PROVE OrderInv
    OBVIOUS
<1>1. RunsDated
    BY DEF Init, RunsDated, Processed, Never
<1>2. \A c \in Conds : alertEvent[c] = <<>>
    BY DEF Init
<1>3. \A r \in Runs : ~Processed(r) /\ ~Waiting(r)
    BY DEF Init, Processed, Waiting
<1>4. TaskInOrder
    BY DEF Init, IdleTask, TaskInOrder
<1>5. DoneBeforeWaiting /\ RowsInOrder
    BY <1>2, <1>3 DEF DoneBeforeWaiting, RowsInOrder
<1>6. LatestShown /\ \A c \in Conds : LastShown(c, alertEvent[c])
    BY <1>2, <1>3 DEF LatestShown, ShowsLatest, LastShown, Evaluated, Processed
<1> QED BY <1>1, <1>2, <1>4, <1>5, <1>6 DEF OrderInv

LEMMA StepOrder == IInv /\ OrderInv /\ [Next]_vars => OrderInv'
<1> SUFFICES ASSUME IInv, OrderInv, [Next]_vars PROVE OrderInv'
    OBVIOUS
<1>1. TypeOK /\ now \in Nat /\ faults \in Nat
    BY RunTypes DEF IInv, TypeOK
<1>2. faults = 0 => TaskInOrder
    BY DEF OrderInv
<1>3. alertEvent' = alertEvent => \A c \in Conds : SameFacts(alertEvent'[c], alertEvent[c])
    BY DEF SameFacts
<1>4. ASSUME UNCHANGED <<collectionRun, task>>
      PROVE  TaskInOrder' <=> TaskInOrder
    BY <1>4 DEF TaskInOrder, Pending, NoLaterThan
<1>5. CASE Tick
    BY <1>1, <1>2, <1>3, <1>4, <1>5, QuietStep DEF Tick
<1>6. ASSUME NEW c \in Conds, NEW i \in 1..Len(alertEvent[c]), Acknowledge(c, i)
      PROVE  OrderInv'
    <2>1. \A d \in Conds : SameFacts(alertEvent'[d], alertEvent[d])
        BY <1>1, <1>6, AcknowledgedFacts
    <2>2. UNCHANGED <<now, collectionRun, task, faults>>
        BY <1>6 DEF Acknowledge
    <2> QED BY <1>1, <1>2, <1>4, <2>1, <2>2, QuietStep
<1>7. ASSUME NEW r \in Runs, RollBackRun(r)
      PROVE  OrderInv'
    <2>1. faults' # 0
        BY <1>1, <1>7, AcceptedInOrder DEF RollBackRun
    <2> QED BY <1>1, <1>3, <1>7, <2>1, QuietStep DEF RollBackRun
<1>8. CASE FetchPendingRuns
    <2>1. PICK B \in Batches :
              task' = [state |-> "evaluating", batch |-> B, left |-> B,
                       succeeded |-> FALSE, retriesLeft |-> Retries]
        BY <1>8 DEF FetchPendingRuns
    <2>2. TaskInOrder'
        BY <1>8, <2>1 DEF FetchPendingRuns, Batches, TaskInOrder, Pending, NoLaterThan
    <2> QED BY <1>1, <1>3, <1>8, <2>2, QuietStep DEF FetchPendingRuns
<1>9. CASE FinishBatch
    <2>1. ASSUME faults = 0 PROVE TaskInOrder'
        <3>1. task.succeeded
            BY <1>2, <1>9, <2>1 DEF FinishBatch, TaskInOrder
        <3> QED BY <1>9, <3>1 DEF FinishBatch, TaskInOrder, IdleTask
    <2> QED BY <1>1, <1>3, <1>9, <2>1, QuietStep DEF FinishBatch
<1>10. CASE LoseTask
    BY <1>1, <1>3, <1>10, QuietStep DEF LoseTask
<1>11. CASE UNCHANGED vars
    BY <1>1, <1>2, <1>3, <1>4, <1>11, QuietStep DEF vars
<1> QED BY <1>5, <1>6, <1>7, <1>8, <1>9, <1>10, <1>11, FinishRunOrder, EvaluateRunOrder DEF Next

LEMMA SpecOrder == Spec => [](IInv /\ OrderInv)
BY InitIInv, NextIInv, InitOrder, StepOrder, PTL DEF Spec

\* The newest evaluated run decides whether a condition is shown, whenever it was
\* evaluated before the first fault, and after one when no older run was evaluated
\* after it.
THEOREM LatestAlwaysWins == Spec => []LatestVerdictWins
<1>1. OrderInv => LatestVerdictWins
    BY DEF OrderInv, LatestShown, ShowsLatest, LastShown, LatestVerdictWins
<1> QED BY <1>1, SpecOrder, PTL

\* Every event was opened, last seen and resolved by runs that are marked processed:
\* no evaluation is in the table without its mark, through all faults and retries.
THEOREM EventsAlwaysTraced == Spec => []EventsTraced
<1>1. OrderInv => EventsTraced
    BY DEF OrderInv, EventsTraced
<1> QED BY <1>1, SpecOrder, PTL
=============================================================================
