----------------------- MODULE TargetScheduling_proofs -----------------------
(***************************************************************************)
(* Theorems about TargetScheduling, for any targets, schedules and number  *)
(* of retries.  A task that waits for its first attempt was due when the   *)
(* list was read, and being due does not wear off: no run of its target    *)
(* ends meanwhile, and time only goes on.                                  *)
(***************************************************************************)
EXTENDS TargetScheduling, Integers, TLAPS

FirstAttempt(t) == task[t].state = "queued" /\ task[t].retriesLeft = Retries

FirstAttemptsDue == \A t \in Targets : FirstAttempt(t) => Elapsed(t, task[t].readBy)

\* Attempts are not gained.
RetriesBounded == \A t \in Targets : task[t].retriesLeft <= Retries

IInv == TypeOK /\ RetriesBounded /\ FirstAttemptsDue

-----------------------------------------------------------------------------
\* What a period divides a later time into is no less.
LEMMA DivMonotone ==
    ASSUME NEW k \in Nat \ {0}, NEW a \in Nat, NEW b \in Nat, a <= b
    PROVE  a \div k <= b \div k
<1> DEFINE p == a \div k
           q == b \div k
<1>1. /\ p \in Nat /\ q \in Nat
      /\ k * p <= a /\ b < k * q + k
  BY SMT
<1>2. ASSUME q + 1 <= p PROVE FALSE
  <2> HIDE DEF p, q
  <2>1. k * (q + 1) <= k * p
    BY <1>1, <1>2, SMT
  <2>2. k * (q + 1) = k * q + k
    BY <1>1, SMT
  <2> QED
    BY <1>1, <2>1, <2>2, SMT
<1> HIDE DEF p, q
<1>3. p <= q
  BY <1>1, <1>2, SMT
<1> QED
  BY <1>3 DEF p, q

\* A cron firing after l and no later than n separates their periods.
LEMMA FiringDivides ==
    ASSUME NEW k \in Nat \ {0}, NEW l \in Nat, NEW n \in Nat,
           NEW u \in (l + 1)..n, u % k = 0
    PROVE  n \div k > l \div k
<1> DEFINE p == l \div k
           q == u \div k
<1>1. /\ p \in Nat /\ q \in Nat /\ u \in Nat
      /\ k * p <= l /\ u = k * q
  BY SMT
<1>2. ASSUME q <= p PROVE FALSE
  <2> HIDE DEF p, q
  <2>1. k * q <= k * p
    BY <1>1, <1>2, SMT
  <2> QED
    BY <1>1, <2>1, SMT
<1>3. q <= n \div k
  BY <1>1, DivMonotone
<1> HIDE DEF p, q
<1>4. p < q
  BY <1>1, <1>2, SMT
<1>5. n \div k \in Int
  BY SMT
<1> QED
  BY <1>1, <1>3, <1>4, <1>5 DEF p

-----------------------------------------------------------------------------
\* A schedule's time has come by now, and stays so when time goes on.
LEMMA ElapsedStays ==
    ASSUME TypeOK, NEW t \in Targets, NEW s \in Schedules, Elapsed(t, s),
           lastFinished'[t] = lastFinished[t], now' \in {now, now + 1}
    PROVE  Elapsed(t, s)'
<1> DEFINE l == lastFinished[t]
<1>1. /\ now \in Nat /\ now' \in Nat /\ now <= now' /\ l \in Nat
      /\ s.every \in Nat \ {0}
  BY ConstantsAssumption DEF TypeOK, Schedule
<1>2. CASE l = Never
  BY <1>2 DEF Elapsed
<1>3. CASE s.type = "interval" /\ now - l >= s.every
  BY <1>1, <1>3, SMT DEF Elapsed
<1>4. CASE s.type = "cron" /\ now \div s.every > l \div s.every
  <2>1. now \div s.every <= now' \div s.every
    BY <1>1, DivMonotone
  <2>2. now' \div s.every > l \div s.every
    BY <1>1, <1>4, <2>1, SMT
  <2> QED
    BY <1>4, <2>2 DEF Elapsed
<1> QED
  BY <1>2, <1>3, <1>4 DEF Elapsed

\* The due list holds targets whose time has come.
LEMMA DueIsElapsed ==
    ASSUME TypeOK, NEW t \in Targets, IsDue(t)
    PROVE  Elapsed(t, schedule[t])
<1> DEFINE s == schedule[t]
           l == lastFinished[t]
<1>1. /\ now \in Nat /\ l \in Nat /\ s.every \in Nat \ {0}
  BY ConstantsAssumption DEF TypeOK, Schedule
<1>2. CASE l = Never
  BY <1>2 DEF Elapsed
<1>3. CASE s.type = "interval" /\ now >= l + s.every
  BY <1>1, <1>3, SMT DEF Elapsed
<1>4. CASE s.type = "cron" /\ \E u \in (l + 1)..now : u % s.every = 0
  <2>1. PICK u \in (l + 1)..now : u % s.every = 0
    BY <1>4
  <2>2. now \div s.every > l \div s.every
    BY <1>1, <2>1, FiringDivides
  <2> QED
    BY <1>4, <2>2 DEF Elapsed
<1> QED
  BY <1>2, <1>3, <1>4 DEF IsDue

-----------------------------------------------------------------------------
LEMMA InitHolds == Init => IInv
BY ConstantsAssumption
   DEF Init, IInv, TypeOK, RetriesBounded, FirstAttemptsDue, FirstAttempt, NoTask, Task, Never

\* A step that leaves a target's task as it is, finishes none of its runs and
\* does not turn back the clock, or leaves it with no first attempt, keeps its
\* part of the invariant.
LEMMA FirstAttemptKept ==
    ASSUME IInv, NEW t \in Targets, now' \in {now, now + 1},
           \/ task'[t] = task[t] /\ lastFinished'[t] = lastFinished[t]
           \/ ~FirstAttempt(t)'
    PROVE  FirstAttempt(t)' => Elapsed(t, task[t].readBy)'
<1> SUFFICES ASSUME FirstAttempt(t)' PROVE Elapsed(t, task[t].readBy)'
  OBVIOUS
<1>1. /\ task'[t] = task[t] /\ lastFinished'[t] = lastFinished[t]
      /\ TypeOK /\ task[t].readBy \in Schedules
  BY DEF IInv, TypeOK, Task
<1>2. Elapsed(t, task[t].readBy)
  BY <1>1 DEF IInv, FirstAttemptsDue, FirstAttempt
<1> DEFINE s == task[t].readBy
<1>3. s \in Schedules /\ Elapsed(t, s) /\ s' = s
  BY <1>1, <1>2
<1> HIDE DEF s
<1>4. \A r \in Schedules : Elapsed(t, r) => Elapsed(t, r)'
  BY <1>1, ElapsedStays
<1> QED
  BY <1>1, <1>3, <1>4 DEF s, Elapsed

\* The clock and the configuration leave tasks and runs alone.
LEMMA SurroundingsStep ==
    ASSUME IInv,
           \/ Tick
           \/ \E t \in Targets : UpdateTarget(t) \/ Reschedule(t)
           \/ UNCHANGED vars
    PROVE  IInv'
<1>1. task' = task /\ lastFinished' = lastFinished /\ now' \in {now, now + 1}
  BY DEF Tick, UpdateTarget, Reschedule, vars, config
<1>2. TypeOK'
  <2>1. enabled' \in [Targets -> BOOLEAN]
    BY DEF IInv, TypeOK, Tick, UpdateTarget, Reschedule, vars, config
  <2>2. schedule' \in [Targets -> Schedules]
    BY DEF IInv, TypeOK, Tick, UpdateTarget, Reschedule, vars, config
  <2>3. faults' \in Nat /\ changes' \in Nat
    BY DEF IInv, TypeOK, Tick, UpdateTarget, Reschedule, vars, config
  <2> QED
    BY <1>1, <2>1, <2>2, <2>3 DEF IInv, TypeOK
<1>3. RetriesBounded'
  BY <1>1 DEF IInv, RetriesBounded
<1>4. FirstAttemptsDue'
  BY <1>1, FirstAttemptKept DEF FirstAttemptsDue
<1> QED
  BY <1>2, <1>3, <1>4 DEF IInv

\* A first attempt is made of a due target.
LEMMA FetchStep == IInv /\ FetchDueTargets => IInv'
<1> SUFFICES ASSUME IInv, FetchDueTargets PROVE IInv'
  OBVIOUS
<1>1. TypeOK /\ Retries \in Nat
  BY ConstantsAssumption DEF IInv
<1>2. \A t \in Targets :
        \/ IsDue(t) /\ task'[t].retriesLeft = Retries /\ task'[t].readBy = schedule[t]
        \/ task'[t].state = "none" /\ task'[t].retriesLeft = 0
  <2> TAKE t \in Targets
  <2>1. CASE enabled[t] /\ IsDue(t)
    <3>1. task'[t] = [state |-> "queued", retriesLeft |-> Retries, readBy |-> schedule[t]]
      BY <2>1 DEF FetchDueTargets
    <3> QED
      BY <2>1, <3>1
  <2>2. CASE ~(enabled[t] /\ IsDue(t))
    <3>1. task'[t] = NoTask(t)
      BY <2>2 DEF FetchDueTargets
    <3> QED
      BY <3>1 DEF NoTask
  <2> QED
    BY <2>1, <2>2
<1>3. TypeOK'
  <2>1. task' \in [Targets -> Task]
    BY <1>1 DEF FetchDueTargets, TypeOK, Task, NoTask
  <2> QED
    BY <1>1, <2>1 DEF FetchDueTargets, TypeOK, config
<1>4. RetriesBounded'
  BY <1>1, <1>2 DEF RetriesBounded
<1>5. FirstAttemptsDue'
  <2> SUFFICES ASSUME NEW t \in Targets, FirstAttempt(t)'
               PROVE  Elapsed(t, task[t].readBy)'
    BY DEF FirstAttemptsDue
  <2>1. IsDue(t) /\ task'[t].readBy = schedule[t]
    BY <1>2 DEF FirstAttempt
  <2>2. Elapsed(t, schedule[t])
    BY <1>1, <2>1, DueIsElapsed
  <2>3. now' = now /\ lastFinished' = lastFinished
    BY DEF FetchDueTargets
  <2> QED
    BY <2>1, <2>2, <2>3 DEF Elapsed
<1> QED
  BY <1>3, <1>4, <1>5 DEF IInv

\* A task that moves on or is lost is no first attempt any more, and only its
\* own target's runs may finish with it.
LEMMA TaskStep ==
    ASSUME IInv, NEW t \in Targets, Advance(t)
    PROVE  IInv'
<1>1. TypeOK /\ RetriesBounded /\ Retries \in Nat /\ task[t] \in Task
  BY ConstantsAssumption DEF IInv, TypeOK
<1>2. /\ now' = now /\ UNCHANGED config
      /\ lastFinished' \in {lastFinished, [lastFinished EXCEPT ![t] = now]}
      /\ faults' \in {faults, faults + 1}
  BY <1>1 DEF Advance, StartTask, FinishTask, LoseTask, HangTask, TypeOK
<1>3. PICK next \in Task :
        /\ task' = [task EXCEPT ![t] = next]
        /\ next.retriesLeft <= Retries
        /\ ~(next.state = "queued" /\ next.retriesLeft = Retries)
  <2>1. CASE StartTask(t) \/ FinishTask(t) \/ HangTask(t)
    <3>1. PICK st \in {"running", "done", "hung"} : task' = [task EXCEPT ![t].state = st]
      BY <2>1 DEF StartTask, FinishTask, HangTask
    <3>2. task' = [task EXCEPT ![t] = [task[t] EXCEPT !.state = st]]
      BY <3>1, <1>1 DEF TypeOK
    <3>3. [task[t] EXCEPT !.state = st] \in Task
      BY <1>1 DEF Task
    <3> QED
      BY <1>1, <3>2, <3>3 DEF RetriesBounded, Task
  <2>2. CASE LoseTask(t)
    <3>1. task' = [task EXCEPT ![t] = AfterLoss(t)]
      BY <2>2 DEF LoseTask
    <3>2. CASE task[t].retriesLeft > 0
      <4>1. AfterLoss(t) = [task[t] EXCEPT !.state = "queued", !.retriesLeft = @ - 1]
        BY <3>2 DEF AfterLoss
      <4>2. task[t].retriesLeft \in Nat /\ task[t].retriesLeft <= Retries
        BY <1>1 DEF RetriesBounded, Task
      <4> DEFINE next == [task[t] EXCEPT !.state = "queued", !.retriesLeft = @ - 1]
      <4>3. task[t].retriesLeft - 1 \in Nat /\ task[t].retriesLeft - 1 < Retries
        BY <1>1, <3>2, <4>2, SMT
      <4>4. next \in Task /\ next.retriesLeft = task[t].retriesLeft - 1
        BY <1>1, <4>3 DEF Task
      <4>5. next.retriesLeft < Retries
        BY <4>3, <4>4
      <4> HIDE DEF next
      <4>6. next.retriesLeft \in Nat
        BY <4>4 DEF Task
      <4>7. next.retriesLeft <= Retries /\ next.retriesLeft # Retries
        BY <1>1, <4>5, <4>6, SMT
      <4>8. task' = [task EXCEPT ![t] = next]
        BY <3>1, <4>1 DEF next
      <4> QED
        BY <4>4, <4>7, <4>8
    <3>3. CASE ~(task[t].retriesLeft > 0)
      <4>1. AfterLoss(t) = [task[t] EXCEPT !.state = "done"]
        BY <3>3 DEF AfterLoss
      <4> QED
        BY <1>1, <3>1, <4>1 DEF RetriesBounded, Task
    <3> QED
      BY <3>2, <3>3
  <2> QED
    BY <2>1, <2>2 DEF Advance
<1>4. \A u \in Targets : task'[u] = IF u = t THEN next ELSE task[u]
  BY <1>1, <1>3 DEF TypeOK
<1>5. TypeOK'
  <2>1. task' \in [Targets -> Task]
    BY <1>1, <1>3 DEF TypeOK
  <2>2. /\ lastFinished' \in [Targets -> Nat]
        /\ \A u \in Targets : lastFinished'[u] <= now'
    BY <1>1, <1>2 DEF TypeOK
  <2> QED
    BY <1>1, <1>2, <2>1, <2>2 DEF TypeOK, config
<1>6. RetriesBounded'
  BY <1>1, <1>3, <1>4 DEF RetriesBounded
<1>7. FirstAttemptsDue'
  <2> SUFFICES ASSUME NEW u \in Targets
               PROVE  FirstAttempt(u)' => Elapsed(u, task[u].readBy)'
    BY DEF FirstAttemptsDue
  <2>1. \/ task'[u] = task[u] /\ lastFinished'[u] = lastFinished[u]
        \/ ~FirstAttempt(u)'
    BY <1>1, <1>2, <1>3, <1>4 DEF FirstAttempt, TypeOK
  <2> QED
    BY <1>2, <2>1, FirstAttemptKept
<1> QED
  BY <1>5, <1>6, <1>7 DEF IInv

\* Between DAG runs there is no attempt.
LEMMA EndStep == IInv /\ EndDagRun => IInv'
<1> SUFFICES ASSUME IInv, EndDagRun PROVE IInv'
  OBVIOUS
<1>1. TypeOK /\ Retries \in Nat
  BY ConstantsAssumption DEF IInv
<1>2. task' = [t \in Targets |-> NoTask(t)]
  BY DEF EndDagRun
<1>3. task' \in [Targets -> Task]
  BY <1>1, <1>2 DEF NoTask, Task, TypeOK
<1>4. TypeOK'
  BY <1>1, <1>3 DEF EndDagRun, TypeOK, config
<1>5. RetriesBounded'
  BY <1>1, <1>2 DEF RetriesBounded, NoTask
<1>6. FirstAttemptsDue'
  BY <1>2 DEF FirstAttemptsDue, FirstAttempt, NoTask
<1> QED
  BY <1>4, <1>5, <1>6 DEF IInv

LEMMA StepHolds == IInv /\ [Next]_vars => IInv'
<1> SUFFICES ASSUME IInv, [Next]_vars PROVE IInv'
  OBVIOUS
<1>1. CASE Tick \/ (\E t \in Targets : UpdateTarget(t) \/ Reschedule(t)) \/ UNCHANGED vars
  BY <1>1, SurroundingsStep
<1>2. CASE FetchDueTargets
  BY <1>2, FetchStep
<1>3. CASE \E t \in Targets : Advance(t)
  BY <1>3, TaskStep
<1>4. CASE EndDagRun
  BY <1>4, EndStep
<1> QED
  BY <1>1, <1>2, <1>3, <1>4 DEF Next

LEMMA InvariantHolds == Spec => []IInv
BY InitHolds, StepHolds, PTL DEF Spec

-----------------------------------------------------------------------------
\* Types, and no run finishes in the future, in every reachable state of the
\* scheduler (fetch_due_targets and the tasks of its list).
THEOREM SchedulingTypeCorrect == Spec => []TypeOK
<1>1. IInv => TypeOK
  BY DEF IInv
<1> QED
  BY <1>1, InvariantHolds, PTL

\* However late the first attempt of a target starts after fetch_due_targets
\* listed it, whatever changes and time passes in between, the cadence it was
\* scheduled by has been kept.
THEOREM CadenceAlwaysKept == Spec => CadenceKept
<1> DEFINE Keeps == \A t \in Targets :
               /\ task[t].state = "queued" /\ task'[t].state = "running"
               /\ task[t].retriesLeft = Retries
               => Elapsed(t, task[t].readBy)
<1>1. IInv => Keeps
  BY DEF IInv, FirstAttemptsDue, FirstAttempt
<1>2. IInv => [Keeps]_vars
  BY <1>1
<1> QED
  BY <1>2, InvariantHolds, PTL DEF CadenceKept
=============================================================================
