------------------------- MODULE HealthProbe_proofs -------------------------
(***************************************************************************)
(* Theorems about HealthProbe, for any instances and any number of         *)
(* retries.  One invariant carries them all: the types, what the row of a  *)
(* target says next to what its tasks returned, and that a task belongs to *)
(* a DAG run (its upserts come after every time a row can hold).           *)
(***************************************************************************)
EXTENDS HealthProbe, FiniteSetTheorems, TLAPS

TasksHaveRun == \A i \in Instances : task[i].state # "none" => run > 0

IInv == TypeOK /\ ReturnedIsShown /\ TasksHaveRun

-----------------------------------------------------------------------------
\* An upsert of DAG run n makes a good row of a good one, or of none.
LEMMA UpsertedRowOK ==
    ASSUME NEW row, NEW res \in Result, row = NoRow \/ RowOK(row), run \in Nat, run > 0
    PROVE  /\ RowOK(Upserted(row, res))
           /\ Upserted(row, res).status = res
           /\ Upserted(row, res).heartbeat = run
           /\ Upserted(row, res).success >= row.success
           /\ Upserted(row, res).error >= row.error
<1>1. /\ row.success \in Nat /\ row.error \in Nat /\ row.failures \in Nat
      /\ row.success <= run /\ row.error <= run
    BY DEF RowOK, NoRow, SystemHealth, Never, Result
<1>2. NextFailures(row, res) = IF res = "healthy" THEN 0 ELSE row.failures + 1
    BY DEF NextFailures
<1>3. CASE res = "healthy"
    BY <1>1, <1>2, <1>3 DEF RowOK, Upserted, SystemHealth, Result
<1>4. CASE res = "unhealthy"
    BY <1>1, <1>2, <1>4 DEF RowOK, Upserted, SystemHealth, Result
<1> QED  BY <1>3, <1>4 DEF Result

\* What the upsert of one target leaves of the table.
LEMMA UpsertKeepsRows ==
    ASSUME TypeOK, TasksHaveRun, NEW i \in Instances, task[i].state # "none",
           UpsertHealth(i), run' = run
    PROVE  /\ DOMAIN health' = Instances
           /\ \A k \in Instances : health'[k] = NoRow \/ RowOK(health[k])'
           /\ \A k \in Instances \ {i} : health'[k] = health[k]
           /\ health'[i].status = task[i].result /\ health'[i].heartbeat = run
           /\ \A k \in Instances : /\ health'[k].success >= health[k].success
                                   /\ health'[k].error >= health[k].error
<1>1. run \in Nat /\ run > 0
    BY DEF TypeOK, TasksHaveRun
<1>2. health' = [health EXCEPT ![i] = Upserted(health[i], task[i].result)]
    BY DEF UpsertHealth
<1>3. /\ DOMAIN health' = Instances
      /\ health'[i] = Upserted(health[i], task[i].result)
      /\ \A k \in Instances \ {i} : health'[k] = health[k]
    BY <1>2 DEF TypeOK
<1>4. task[i].result \in Result /\ (health[i] = NoRow \/ RowOK(health[i]))
    BY DEF TypeOK, Task
<1>5. /\ RowOK(health'[i])
      /\ health'[i].status = task[i].result /\ health'[i].heartbeat = run
      /\ health'[i].success >= health[i].success /\ health'[i].error >= health[i].error
    BY <1>1, <1>3, <1>4, UpsertedRowOK
<1>6. \A k \in Instances : RowOK(health'[k]) => RowOK(health[k])'
    BY DEF RowOK
<1>7. \A k \in Instances \ {i} : health'[k] = NoRow \/ RowOK(health'[k])
    BY <1>3 DEF TypeOK
<1>8. \A k \in Instances : health[k].success \in Nat /\ health[k].error \in Nat
    BY DEF TypeOK, RowOK, NoRow, SystemHealth, Never
<1> QED  BY <1>3, <1>5, <1>6, <1>7, <1>8

\* A step that leaves the table alone keeps its rows good.
LEMMA RowsUnchanged ==
    ASSUME TypeOK, UNCHANGED health, run' \in Nat, run' >= run
    PROVE  /\ DOMAIN health' = Instances
           /\ \A k \in Instances : health'[k] = NoRow \/ RowOK(health[k])'
<1>1. \A k \in Instances : RowOK(health[k]) => RowOK(health[k])'
    BY DEF RowOK, TypeOK, SystemHealth
<1> QED  BY <1>1 DEF TypeOK

-----------------------------------------------------------------------------
LEMMA InitIInv == Init => IInv
<1> SUFFICES ASSUME Init PROVE IInv
    OBVIOUS
<1>1. TypeOK
    BY DEF Init, TypeOK, Task, NoTask, Result
<1>2. ReturnedIsShown /\ TasksHaveRun
    BY DEF Init, ReturnedIsShown, TasksHaveRun, NoTask
<1> QED  BY <1>1, <1>2 DEF IInv

\* A step of one task, that writes its row or leaves the table alone.
LEMMA TaskStep ==
    ASSUME IInv, NEW i \in Instances, task[i].state # "none",
           NEW t \in Task, t.state # "none",
           task' = [task EXCEPT ![i] = t],
           UNCHANGED health \/ UpsertHealth(i),
           t.state = "done" => UpsertHealth(i) /\ t.result = task[i].result,
           lost' \in [Instances -> Nat],
           UNCHANGED <<run, active, returned>>
    PROVE  IInv'
<1> USE DEF IInv
<1>1. /\ DOMAIN health' = Instances
      /\ \A k \in Instances : health'[k] = NoRow \/ RowOK(health[k])'
      /\ \A k \in Instances \ {i} : health'[k] = health[k]
  <2>1. CASE UNCHANGED health
      BY <2>1, RowsUnchanged DEF TypeOK
  <2>2. CASE UpsertHealth(i)
      BY <2>2, UpsertKeepsRows
  <2> QED  BY <2>1, <2>2
<1>2. /\ task' \in [Instances -> Task] /\ task'[i] = t
      /\ \A k \in Instances \ {i} : task'[k] = task[k]
    BY DEF TypeOK
<1>3. TypeOK'
    BY <1>1, <1>2 DEF TypeOK
<1>4. t.state = "done" => health'[i].status = t.result /\ health'[i].heartbeat = run
    BY UpsertKeepsRows
<1>5. ReturnedIsShown'
    BY <1>1, <1>2, <1>4 DEF ReturnedIsShown
<1>6. TasksHaveRun'
    BY <1>2 DEF TasksHaveRun
<1> QED  BY <1>3, <1>5, <1>6

LEMMA EndDagRunKeepsIInv == IInv /\ EndDagRun => IInv'
<1> SUFFICES ASSUME IInv, EndDagRun PROVE IInv'
    OBVIOUS
<1> USE DEF IInv
<1>1. task' \in [Instances -> Task] /\ \A k \in Instances : task'[k].state = "none"
    BY DEF EndDagRun, NoTask, Task, Result
<1>2. \A k \in Instances : Outcome(task[k]) \in Result \cup {"lost"}
    BY DEF Outcome, TypeOK, Task
<1>3. \A k \in Instances :
         /\ returned[k] \in Seq(Result \cup {"lost"})
         /\ task[k].state = "none" => returned'[k] = returned[k]
         /\ task[k].state # "none" => returned'[k] = Append(returned[k], Outcome(task[k]))
    BY DEF EndDagRun, TypeOK
<1>4. \A k \in Instances : task[k].state # "none" =>
          returned'[k][Len(returned'[k])] = Outcome(task[k])
    BY <1>2, <1>3
<1>5. returned' \in [Instances -> Seq(Result \cup {"lost"})]
  <2>1. \A k \in Instances : returned'[k] \in Seq(Result \cup {"lost"})
      BY <1>2, <1>3
  <2> QED  BY <2>1 DEF EndDagRun
<1>6. TypeOK'
    BY <1>1, <1>5, RowsUnchanged DEF EndDagRun, TypeOK
<1>7. ASSUME NEW k \in Instances, returned'[k] # <<>>
      PROVE  \/ health[k].status = returned'[k][Len(returned'[k])]
             \/ returned'[k][Len(returned'[k])] = "lost"
  <2>1. CASE task[k].state = "none"
      BY <2>1, <1>3, <1>7 DEF ReturnedIsShown
  <2>2. CASE task[k].state = "done"
      BY <2>2, <1>4 DEF ReturnedIsShown, Outcome
  <2>3. CASE task[k].state = "failed"
      BY <2>3, <1>4 DEF Outcome
  <2> QED  BY <2>1, <2>2, <2>3 DEF EndDagRun, Ended
<1>8. ReturnedIsShown'
    BY <1>1, <1>7 DEF ReturnedIsShown, EndDagRun
<1>9. TasksHaveRun'
    BY <1>1 DEF TasksHaveRun
<1> QED  BY <1>6, <1>8, <1>9

LEMMA StepIInv == IInv /\ [Next]_vars => IInv'
<1> SUFFICES ASSUME IInv, [Next]_vars PROVE IInv'
    OBVIOUS
<1> USE ConstantsAssumption DEF IInv
<1>1. ASSUME NEW i \in Instances, UpdateTarget(i) PROVE IInv'
    BY <1>1, RowsUnchanged DEF UpdateTarget, TypeOK, ReturnedIsShown, TasksHaveRun
<1>2. ASSUME NEW i \in Instances, Probe(i) PROVE IInv'
  <2>1. PICK res \in Result :
            task' = [task EXCEPT ![i] = [task[i] EXCEPT !.state = "probed", !.result = res]]
      BY <1>2 DEF Probe
  <2>2. /\ [task[i] EXCEPT !.state = "probed", !.result = res] \in Task
        /\ [task[i] EXCEPT !.state = "probed", !.result = res].state = "probed"
      BY DEF TypeOK, Task
  <2> QED  BY <1>2, <2>1, <2>2, TaskStep DEF Probe, TypeOK
<1>3. ASSUME NEW i \in Instances, FinishProbe(i) PROVE IInv'
  <2>1. /\ [task[i] EXCEPT !.state = "done"] \in Task
        /\ [task[i] EXCEPT !.state = "done"].state = "done"
        /\ [task[i] EXCEPT !.state = "done"].result = task[i].result
      BY DEF TypeOK, Task
  <2>2. task' = [task EXCEPT ![i] = [task[i] EXCEPT !.state = "done"]]
      BY <1>3 DEF FinishProbe
  <2> QED  BY <1>3, <2>1, <2>2, TaskStep DEF FinishProbe, TypeOK
<1>4. ASSUME NEW i \in Instances, LoseAttempt(i) PROVE IInv'
  <2>1. AfterLoss(i) \in Task /\ AfterLoss(i).state \in {"queued", "failed"}
    <3> DEFINE again == [task[i] EXCEPT !.state = "queued", !.retriesLeft = task[i].retriesLeft - 1]
               over  == [task[i] EXCEPT !.state = "failed"]
    <3>1. task[i] \in Task
        BY DEF TypeOK
    <3>2. over \in Task /\ over.state = "failed"
        BY <3>1 DEF Task
    <3>3. ASSUME task[i].retriesLeft > 0
          PROVE  again \in Task /\ again.state = "queued"
      <4>1. task[i].retriesLeft - 1 \in Nat
          BY <3>1, <3>3 DEF Task
      <4> DEFINE mid == [task[i] EXCEPT !.state = "queued"]
      <4>2. mid \in Task /\ mid.state = "queued"
          BY <3>1 DEF Task
      <4> HIDE DEF mid
      <4>3. /\ [mid EXCEPT !.retriesLeft = task[i].retriesLeft - 1] \in Task
            /\ [mid EXCEPT !.retriesLeft = task[i].retriesLeft - 1].state = "queued"
          BY <4>1, <4>2 DEF Task
      <4> QED  BY <4>3 DEF mid
    <3> QED  BY <3>2, <3>3 DEF AfterLoss
  <2>2. lost' \in [Instances -> Nat]
      BY <1>4 DEF LoseAttempt, TypeOK
  <2> QED  BY <1>4, <2>1, <2>2, TaskStep DEF LoseAttempt
<1>5. ASSUME FetchActiveInstances PROVE IInv'
  <2>1. task' \in [Instances -> Task]
      BY <1>5 DEF FetchActiveInstances, Mapped, NoTask, Task, Result
  <2>2. \A k \in Instances : task'[k].state \in {"none", "queued"}
      BY <1>5 DEF FetchActiveInstances, Mapped, NoTask
  <2>3. run' \in Nat /\ run' > 0 /\ run' >= run
      BY <1>5 DEF FetchActiveInstances, TypeOK
  <2>4. TypeOK'
      BY <1>5, <2>1, <2>3, RowsUnchanged DEF FetchActiveInstances, TypeOK
  <2>5. ReturnedIsShown'
      BY <1>5, <2>2 DEF FetchActiveInstances, ReturnedIsShown
  <2> QED  BY <2>3, <2>4, <2>5 DEF TasksHaveRun
<1>6. ASSUME EndDagRun PROVE IInv'
    BY <1>6, EndDagRunKeepsIInv
<1>7. CASE UNCHANGED vars
    BY <1>7, RowsUnchanged DEF vars, TypeOK, ReturnedIsShown, TasksHaveRun
<1> QED  BY <1>1, <1>2, <1>3, <1>4, <1>5, <1>6, <1>7 DEF Next, Advance

-----------------------------------------------------------------------------
LEMMA Inductive == Spec => []IInv
<1> QED  BY InitIInv, StepIInv, PTL DEF Spec

\* A health row keeps its types and its times their meaning: the last heartbeat
\* is the last success of a healthy row, the last error of an unhealthy one.
THEOREM HealthTypeCorrect == Spec => []TypeOK
<1>1. IInv => TypeOK
    BY DEF IInv
<1> QED  BY <1>1, Inductive, PTL

\* Whatever lost attempts wrote before it, a task that returned left the status
\* it returned in system_health, and only a lost task leaves another one.
THEOREM ReturnedAlwaysShown == Spec => []ReturnedIsShown
<1>1. IInv => ReturnedIsShown
    BY DEF IInv
<1> QED  BY <1>1, Inductive, PTL

\* The times of the last success and of the last error never go back.
THEOREM TimesAlwaysKept == Spec => LastTimesKept
<1>1. ASSUME IInv, [Next]_vars
      PROVE  [\A i \in Instances : /\ health'[i].success >= health[i].success
                                   /\ health'[i].error >= health[i].error]_vars
  <2> SUFFICES ASSUME Next, NEW i \in Instances
               PROVE  /\ health'[i].success >= health[i].success
                      /\ health'[i].error >= health[i].error
      BY <1>1
  <2>1. health[i].success \in Nat /\ health[i].error \in Nat
      BY <1>1 DEF IInv, TypeOK, RowOK, NoRow, SystemHealth, Never
  <2>2. CASE UNCHANGED health
      BY <2>1, <2>2
  <2>3. ASSUME NEW k \in Instances, UpsertHealth(k), task[k].state = "probed", run' = run
        PROVE  /\ health'[i].success >= health[i].success
               /\ health'[i].error >= health[i].error
      BY <1>1, <2>3, UpsertKeepsRows DEF IInv
  <2>4. \/ UNCHANGED health
        \/ \E k \in Instances : UpsertHealth(k) /\ task[k].state = "probed" /\ run' = run
      BY DEF Next, Advance, UpdateTarget, Probe, FinishProbe, LoseAttempt,
             FetchActiveInstances, EndDagRun
  <2> QED  BY <2>2, <2>3, <2>4
<1> QED  BY <1>1, Inductive, PTL DEF Spec, LastTimesKept

-----------------------------------------------------------------------------
(***************************************************************************)
(* The failure count.  While a DAG run is open the row is ahead of what    *)
(* Airflow has: Expected is the streak as it will be once the tasks that   *)
(* are done are recorded, and each lost attempt adds at most one to it.    *)
(***************************************************************************)
\* The failing checks at the end of s since the last good one.
Streak(s) == {k \in DOMAIN s : /\ s[k] = "unhealthy"
                               /\ \A j \in k..Len(s) : s[j] # "healthy"}

Expected(i) == IF task[i].state # "done" THEN Cardinality(Streak(returned[i]))
               ELSE IF task[i].result = "healthy" THEN 0
               ELSE Cardinality(Streak(returned[i])) + 1

CountOK(i) == /\ health[i].failures <= Expected(i) + lost[i]
              /\ lost[i] = 0 => health[i].failures = Expected(i)
              /\ task[i].state = "failed" => lost[i] > 0

CountInv == \A i \in Instances : CountOK(i)

\* One more outcome extends the streak, ends it, or leaves it alone.
LEMMA StreakAppended ==
    ASSUME NEW s \in Seq(Result \cup {"lost"}), NEW out \in Result \cup {"lost"}
    PROVE  /\ Cardinality(Streak(s)) \in Nat
           /\ Cardinality(Streak(Append(s, out))) =
                  IF out = "healthy" THEN 0
                  ELSE IF out = "unhealthy" THEN Cardinality(Streak(s)) + 1
                  ELSE Cardinality(Streak(s))
<1> DEFINE t == Append(s, out)
           n == Len(s) + 1
<1>1. /\ Len(s) \in Nat /\ DOMAIN s = 1..Len(s)
      /\ Len(t) = n /\ DOMAIN t = 1..n /\ t[n] = out
      /\ \A k \in 1..Len(s) : t[k] = s[k]
    OBVIOUS
<1> HIDE DEF t
<1>2. IsFiniteSet(Streak(s)) /\ Cardinality(Streak(s)) \in Nat /\ n \notin Streak(s)
  <2>1. Streak(s) \in SUBSET (1..Len(s)) /\ IsFiniteSet(1..Len(s))
      BY <1>1, FS_Interval DEF Streak
  <2> QED  BY <1>1, <2>1, FS_Subset, FS_CardinalityType
<1>3. CASE out = "healthy"
  <2>1. Streak(t) = {}
      BY <1>1, <1>3 DEF Streak
  <2> QED  BY <1>2, <1>3, <2>1, FS_EmptySet DEF t
<1>4. CASE out = "unhealthy"
  <2>1. Streak(t) = Streak(s) \cup {n}
      BY <1>1, <1>4 DEF Streak
  <2> QED  BY <1>2, <1>4, <2>1, FS_AddElement DEF t
<1>5. CASE out = "lost"
  <2>1. Streak(t) = Streak(s)
      BY <1>1, <1>5 DEF Streak
  <2> QED  BY <1>2, <1>5, <2>1 DEF t
<1> QED  BY <1>3, <1>4, <1>5 DEF Result

\* Numbers.
LEMMA CountTypes ==
    ASSUME TypeOK, NEW i \in Instances
    PROVE  /\ health[i].failures \in Nat /\ lost[i] \in Nat /\ Expected(i) \in Nat
           /\ Cardinality(Streak(returned[i])) \in Nat
<1>1. returned[i] \in Seq(Result \cup {"lost"})
    BY DEF TypeOK
<1>2. Cardinality(Streak(returned[i])) \in Nat
    BY <1>1, StreakAppended
<1> QED  BY <1>2 DEF TypeOK, Expected, RowOK, NoRow, SystemHealth

\* What an upsert makes of the count.
LEMMA UpsertedCount ==
    ASSUME TypeOK, NEW i \in Instances, UpsertHealth(i)
    PROVE  /\ health'[i].failures = IF task[i].result = "healthy" THEN 0
                                    ELSE health[i].failures + 1
           /\ \A k \in Instances \ {i} : health'[k] = health[k]
<1>1. health' = [health EXCEPT ![i] = Upserted(health[i], task[i].result)]
    BY DEF UpsertHealth
<1> QED  BY <1>1 DEF TypeOK, Upserted, NextFailures

\* A target about which a step changes nothing.
LEMMA CountUnmoved ==
    ASSUME NEW k \in Instances, CountOK(k), health'[k] = health[k],
           returned'[k] = returned[k], lost'[k] = lost[k],
           \/ task'[k] = task[k]
           \/ task[k].state \notin {"done", "failed"} /\ task'[k].state \notin {"done", "failed"}
    PROVE  CountOK(k)'
BY DEF CountOK, Expected

LEMMA FinishProbeCounts ==
    ASSUME IInv, CountInv, NEW i \in Instances, FinishProbe(i)
    PROVE  CountInv'
<1>1. TypeOK /\ task[i].state = "probed" /\ task[i].result \in Result
    BY DEF IInv, TypeOK, FinishProbe, Task
<1>2. /\ task' = [task EXCEPT ![i] = [task[i] EXCEPT !.state = "done"]]
      /\ UpsertHealth(i) /\ UNCHANGED <<returned, lost>>
    BY DEF FinishProbe
<1>3. /\ task'[i].state = "done" /\ task'[i].result = task[i].result
      /\ \A k \in Instances \ {i} : task'[k] = task[k]
    BY <1>1, <1>2 DEF TypeOK, Task
<1>4. CountOK(i)'
    BY <1>1, <1>2, <1>3, CountTypes, UpsertedCount DEF CountInv, CountOK, Expected, Result
<1>5. \A k \in Instances \ {i} : CountOK(k)'
    BY <1>1, <1>2, <1>3, UpsertedCount, CountUnmoved DEF CountInv
<1> QED  BY <1>4, <1>5 DEF CountInv

\* A lost attempt counts as one in lost, whether its upsert committed or not.
LEMMA LoseAttemptCounts ==
    ASSUME IInv, CountInv, NEW i \in Instances, LoseAttempt(i)
    PROVE  CountInv'
<1>1. /\ TypeOK /\ task[i].state \in {"queued", "probed"} /\ task[i] \in Task
      /\ returned' = returned /\ lost' = [lost EXCEPT ![i] = @ + 1]
      /\ task' = [task EXCEPT ![i] = AfterLoss(i)]
      /\ UNCHANGED health \/ UpsertHealth(i)
    BY DEF IInv, TypeOK, LoseAttempt
<1>2. AfterLoss(i).state \in {"queued", "failed"}
    BY <1>1 DEF AfterLoss, Task
<1>3. /\ task'[i].state \in {"queued", "failed"} /\ lost'[i] = lost[i] + 1
      /\ \A k \in Instances \ {i} : task'[k] = task[k] /\ lost'[k] = lost[k]
    BY <1>1, <1>2 DEF TypeOK
<1>4. /\ health'[i].failures \in {health[i].failures, 0, health[i].failures + 1}
      /\ \A k \in Instances \ {i} : health'[k] = health[k]
    BY <1>1, UpsertedCount
<1>5. CountOK(i)'
    BY <1>1, <1>3, <1>4, CountTypes DEF CountInv, CountOK, Expected
<1>6. \A k \in Instances \ {i} : CountOK(k)'
    BY <1>1, <1>3, <1>4, CountUnmoved DEF CountInv
<1> QED  BY <1>5, <1>6 DEF CountInv

\* Closing a DAG run records what was expected of it.
LEMMA EndDagRunCounts ==
    ASSUME IInv, CountInv, EndDagRun
    PROVE  CountInv'
<1> SUFFICES ASSUME NEW k \in Instances PROVE CountOK(k)'
    BY DEF CountInv
<1>1. /\ TypeOK /\ returned[k] \in Seq(Result \cup {"lost"}) /\ task[k] \in Task
      /\ health' = health /\ lost' = lost /\ task'[k].state = "none"
      /\ task[k].state \in {"none", "done", "failed"}
      /\ returned'[k] = IF task[k].state = "none" THEN returned[k]
                        ELSE Append(returned[k], Outcome(task[k]))
    BY DEF IInv, TypeOK, EndDagRun, Ended, NoTask
<1>2. Outcome(task[k]) = IF task[k].state = "done" THEN task[k].result ELSE "lost"
    BY DEF Outcome
<1>3. task[k].result \in Result
    BY <1>1 DEF Task
<1>4. Expected(k)' = Expected(k)
    BY <1>1, <1>2, <1>3, StreakAppended DEF Expected, Result
<1> QED  BY <1>1, <1>4 DEF CountInv, CountOK

LEMMA StepCounts == IInv /\ CountInv /\ [Next]_vars => CountInv'
<1> SUFFICES ASSUME IInv, CountInv, [Next]_vars PROVE CountInv'
    OBVIOUS
<1>1. ASSUME NEW i \in Instances, UpdateTarget(i) PROVE CountInv'
    BY <1>1, CountUnmoved DEF UpdateTarget, CountInv
<1>2. ASSUME NEW i \in Instances, Probe(i) PROVE CountInv'
  <2>1. PICK res \in Result :
            task' = [task EXCEPT ![i] = [task[i] EXCEPT !.state = "probed", !.result = res]]
      BY <1>2 DEF Probe
  <2>2. /\ task[i].state = "queued" /\ task'[i].state = "probed"
        /\ \A k \in Instances \ {i} : task'[k] = task[k]
      BY <1>2, <2>1 DEF IInv, TypeOK, Task, Probe
  <2> QED  BY <1>2, <2>2, CountUnmoved DEF Probe, CountInv
<1>3. ASSUME FetchActiveInstances PROVE CountInv'
  <2>1. \A k \in Instances : task[k].state = "none" /\ task'[k].state \in {"none", "queued"}
      BY <1>3 DEF FetchActiveInstances, Mapped, NoTask
  <2> QED  BY <1>3, <2>1, CountUnmoved DEF FetchActiveInstances, CountInv
<1>4. CASE UNCHANGED vars
    BY <1>4, CountUnmoved DEF vars, CountInv
<1> QED  BY <1>1, <1>2, <1>3, <1>4, FinishProbeCounts, LoseAttemptCounts, EndDagRunCounts
         DEF Next, Advance

\* consecutive_failures of system_health is the streak of failing checks that
\* Airflow has on record, raised by at most one for each lost attempt.
THEOREM FailuresAlwaysCounted == Spec => []FailuresCounted
<1>1. Init => CountInv
  <2> SUFFICES ASSUME Init, NEW i \in Instances PROVE CountOK(i)
      BY DEF CountInv
  <2>1. Streak(returned[i]) = {}
      BY DEF Init, Streak
  <2>2. task[i].state = "none" /\ health[i].failures = 0 /\ lost[i] = 0
      BY DEF Init, NoRow, NoTask
  <2>3. Expected(i) = 0
      BY <2>1, <2>2, FS_EmptySet DEF Expected
  <2> QED  BY <2>2, <2>3 DEF CountOK
<1>2. IInv /\ CountInv => FailuresCounted
  <2> SUFFICES ASSUME IInv, CountInv, NEW i \in Instances, task[i].state = "none"
               PROVE  /\ health[i].failures <= Cardinality(FailedChecks(i)) + lost[i]
                      /\ lost[i] = 0 => health[i].failures = Cardinality(FailedChecks(i))
      BY DEF FailuresCounted
  <2>1. FailedChecks(i) = Streak(returned[i])
      BY DEF FailedChecks, Streak
  <2> QED  BY <2>1 DEF CountInv, CountOK, Expected
<1> QED  BY <1>1, <1>2, StepCounts, Inductive, PTL DEF Spec
=============================================================================
