---------------------- MODULE CollectionPipeline_proofs ----------------------
(***************************************************************************)
(* Proofs about CollectionPipeline, for every set of runs, every registry, *)
(* every set of active metrics, and any number of faults.                  *)
(***************************************************************************)
EXTENDS CollectionPipeline, TLAPS

-----------------------------------------------------------------------------
(***************************************************************************)
(* The inductive invariant of one run.  That a run with status success     *)
(* loaded everything rests on the way it got there: while no error has     *)
(* been recorded or swallowed, every collector the loop has passed staged  *)
(* its summary (SummariesStaged), and finalize is reached without an error *)
(* only through a load that returned (CleanLoaded).  That a failure is     *)
(* explained rests on counting: every collector the loop has passed is     *)
(* either collected or an error (Counted).                                 *)
(***************************************************************************)
BeforeLoad == {"idle", "connect", "sync", "syncError", "collect", "summary",
               "collectorError"}

Errors(r) == collectionRun[r].errorCount + worker[r].swallowed

AllLoaded(r) ==
    \A t \in Staging :
        /\ staging[r][t] \in {"none", "loaded", "dropped"}
        /\ (\E i \in 1..Len(Collectors) : Collectors[i] = t) /\ t \in Summarized =>
               staging[r][t] = IF t \in ActiveMetrics THEN "loaded" ELSE "dropped"

InRegistry(r) ==
    /\ worker[r].next <= Len(Collectors) + 1
    /\ worker[r].pc \in {"idle", "connect", "sync", "syncError"} => worker[r].next = 1
    /\ worker[r].pc \in {"summary", "collectorError"} => worker[r].next <= Len(Collectors)
    /\ worker[r].pc = "summary" => Collectors[worker[r].next] \in Summarized \cup {"backup"}

StillStaged(r) ==
    worker[r].pc \in BeforeLoad => \A t \in Staging : staging[r][t] \in {"none", "staged"}

SummariesStaged(r) ==
    worker[r].pc \in BeforeLoad /\ Errors(r) = 0 =>
        \A i \in 1..Len(Collectors) :
            i < worker[r].next /\ Collectors[i] \in Summarized =>
                staging[r][Collectors[i]] = "staged"

CleanLoaded(r) ==
    (worker[r].pc = "finalize" \/ collectionRun[r].status = "success") /\ Errors(r) = 0
        => AllLoaded(r)

Counted(r) ==
    /\ worker[r].collected < worker[r].next
    /\ worker[r].pc \in BeforeLoad => worker[r].collected + Errors(r) >= worker[r].next - 1
    /\ worker[r].pc = "finalize" => \/ worker[r].collected + Errors(r) >= Len(Collectors)
                                    \/ Errors(r) > 0

Sealed(r) ==
    /\ Finished(r) => worker[r].pc \in {"done", "dead"}
    /\ collectionRun[r].status \in {"partial", "failed"} => Errors(r) > 0
    /\ collectionRun[r].status = "success" => collectionRun[r].errorCount = 0

Together(r) == \A t, u \in Staging :
                   staging[r][t] \in {"loaded", "dropped"} => staging[r][u] # "staged"

RunInv(r) == /\ InRegistry(r) /\ StillStaged(r) /\ SummariesStaged(r)
             /\ CleanLoaded(r) /\ Counted(r) /\ Sealed(r) /\ Together(r)

IInv == TypeOK /\ \A r \in Runs : RunInv(r)

-----------------------------------------------------------------------------
LEMMA RegistryType ==
    ASSUME NEW i \in 1..Len(Collectors)
    PROVE  Collectors[i] \in MetricTypes
BY ConstantsAssumption

LEMMA InitIInv == Init => IInv
<1> SUFFICES ASSUME Init
             PROVE  IInv
    OBVIOUS
<1>1. TypeOK
    BY DEF Init, TypeOK, CollectionRun, Worker, BatchStates
<1>2. ASSUME NEW r \in Runs
      PROVE  RunInv(r)
    BY <1>2, ConstantsAssumption
       DEF Init, RunInv, InRegistry, StillStaged, SummariesStaged, CleanLoaded, Counted,
           Sealed, Together, Finished, Errors, BeforeLoad
<1> QED BY <1>1, <1>2 DEF IInv

(***************************************************************************)
(* Types.                                                                  *)
(***************************************************************************)
LEMMA GotoType ==
    ASSUME TypeOK, NEW r \in Runs, NEW p \in {"connect", "sync", "syncError", "collect",
               "summary", "collectorError", "fatal", "finalize", "done", "dead"},
           Goto(r, p)
    PROVE  /\ worker' \in [Runs -> Worker]
           /\ worker'[r] = [worker[r] EXCEPT !.pc = p]
           /\ \A q \in Runs : q # r => worker'[q] = worker[q]
BY DEF TypeOK, Goto, Worker

LEMMA CollectedType ==
    ASSUME TypeOK, NEW r \in Runs, NEW n \in Nat, Collected(r, n)
    PROVE  /\ worker' \in [Runs -> Worker]
           /\ worker'[r] = [worker[r] EXCEPT !.pc = "collect", !.next = @ + 1,
                               !.ingested = 0, !.collected = @ + 1, !.records = @ + n]
           /\ \A q \in Runs : q # r => worker'[q] = worker[q]
BY DEF TypeOK, Collected, Worker

LEMMA SummarizeType ==
    ASSUME TypeOK, NEW r \in Runs, NEW n \in Nat, Summarize(r, n)
    PROVE  /\ worker' \in [Runs -> Worker]
           /\ worker'[r] = [worker[r] EXCEPT !.pc = "summary", !.ingested = n]
           /\ \A q \in Runs : q # r => worker'[q] = worker[q]
BY DEF TypeOK, Summarize, Worker

-----------------------------------------------------------------------------
(***************************************************************************)
(* One action at a time: it keeps the types and the invariant of its run,  *)
(* and leaves the other runs alone.                                        *)
(***************************************************************************)
Unmoved(q) == /\ worker'[q] = worker[q]
              /\ collectionRun'[q] = collectionRun[q]
              /\ staging'[q] = staging[q]
              /\ fact'[q] = fact[q]

Kept(r) == TypeOK' /\ RunInv(r)' /\ \A q \in Runs : q # r => Unmoved(q)

LEMMA UnmovedInv ==
    ASSUME NEW q \in Runs, RunInv(q), Unmoved(q)
    PROVE  RunInv(q)'
BY DEF Unmoved, RunInv, InRegistry, StillStaged, SummariesStaged, CleanLoaded, Counted,
       Sealed, Together, Finished, Errors, AllLoaded

LEMMA CreateRunStep ==
    ASSUME TypeOK, NEW r \in Runs, RunInv(r), CreateRun(r)
    PROVE  Kept(r)
<1>1. PICK p \in {"connect", "dead"} : Goto(r, p)
    BY DEF CreateRun
<1>2. /\ worker' \in [Runs -> Worker]
      /\ worker'[r] = [worker[r] EXCEPT !.pc = p]
      /\ \A q \in Runs : q # r => worker'[q] = worker[q]
    BY <1>1, GotoType
<1>3. /\ collectionRun' \in [Runs -> CollectionRun]
      /\ \A q \in Runs : q # r => collectionRun'[q] = collectionRun[q]
      /\ collectionRun'[r].errorCount = collectionRun[r].errorCount
      /\ collectionRun'[r].status \in {"running", collectionRun[r].status}
    BY DEF CreateRun, TypeOK, CollectionRun
<1>4. TypeOK'
    BY <1>2, <1>3 DEF CreateRun, TypeOK, Fault, NoFault
<1>5. worker[r] \in Worker /\ worker[r].pc = "idle"
    BY DEF TypeOK, CreateRun, At
<1>6. /\ worker'[r].pc = p
      /\ worker'[r].next = worker[r].next
      /\ worker'[r].collected = worker[r].collected
      /\ worker'[r].swallowed = worker[r].swallowed
    BY <1>2, <1>5 DEF Worker
<1>7. staging' = staging
    BY DEF CreateRun
<1>8. RunInv(r)'
    BY <1>3, <1>5, <1>6, <1>7
       DEF RunInv, InRegistry, StillStaged, SummariesStaged, CleanLoaded, Counted,
           Sealed, Together, Finished, Errors, AllLoaded, BeforeLoad
<1>9. fact' = fact
    BY DEF CreateRun
<1> QED BY <1>2, <1>3, <1>4, <1>7, <1>8, <1>9 DEF Kept, Unmoved

LEMMA ConnectStep ==
    ASSUME TypeOK, NEW r \in Runs, RunInv(r), Connect(r) \/ SyncDatabases(r)
    PROVE  Kept(r)
<1>1. PICK p \in {"sync", "fatal", "collect", "syncError"} : Goto(r, p)
    BY DEF Connect, SyncDatabases
<1>2. /\ worker' \in [Runs -> Worker]
      /\ worker'[r] = [worker[r] EXCEPT !.pc = p]
      /\ \A q \in Runs : q # r => worker'[q] = worker[q]
    BY <1>1, GotoType
<1>3. UNCHANGED <<collectionRun, staging, fact, faults>>
    BY DEF Connect, SyncDatabases
<1>4. worker[r] \in Worker /\ worker[r].pc \in {"connect", "sync"}
    BY DEF TypeOK, Connect, SyncDatabases, At
<1>5. /\ worker'[r].pc = p
      /\ worker'[r].next = worker[r].next
      /\ worker'[r].collected = worker[r].collected
      /\ worker'[r].swallowed = worker[r].swallowed
    BY <1>2, <1>4 DEF Worker
<1>6. RunInv(r)'
    BY <1>3, <1>4, <1>5
       DEF RunInv, InRegistry, StillStaged, SummariesStaged, CleanLoaded, Counted,
           Sealed, Together, Finished, Errors, AllLoaded, BeforeLoad
<1> QED BY <1>2, <1>3, <1>6 DEF Kept, Unmoved, TypeOK

\* What a collector's call may do to the rows of its run: nothing, or stage t.
Grown(r, t) ==
    /\ staging' \in [Runs -> [Staging -> BatchStates]]
    /\ fact' \in [Runs -> SUBSET Specialized]
    /\ \A q \in Runs : q # r => staging'[q] = staging[q] /\ fact'[q] = fact[q]
    /\ \A u \in Staging : \/ staging'[r][u] = staging[r][u]
                          \/ u = t /\ staging'[r][u] = "staged"

LEMMA StageRowsGrow ==
    ASSUME TypeOK, NEW r \in Runs, NEW t, StageRows(r, t)
    PROVE  Grown(r, t) /\ (t \in Staging => staging'[r][t] = "staged")
BY DEF TypeOK, StageRows, Grown, BatchStates

LEMMA PersistGrows ==
    ASSUME TypeOK, NEW r \in Runs, NEW t,
           NothingWritten \/ Persist(r, t) \/ Stage(r, t)
    PROVE  Grown(r, t)
<1>1. NothingWritten => Grown(r, t)
    BY DEF TypeOK, NothingWritten, Grown
<1>2. Stage(r, t) => Grown(r, t)
    BY <1>1, StageRowsGrow DEF Stage
<1>3. ASSUME t \in Specialized, fact' = [fact EXCEPT ![r] = @ \cup {t}], UNCHANGED staging
      PROVE  Grown(r, t)
    BY <1>3 DEF TypeOK, Grown
<1> QED BY <1>1, <1>2, <1>3 DEF Persist

LEMMA SummaryStaged ==
    ASSUME TypeOK, NEW r \in Runs, NEW t \in Summarized, Stage(r, t)
    PROVE  staging'[r][t] = "staged"
<1>1. StageRows(r, t) /\ t \in Staging
    BY DEF Stage, Summarized, Staging, ServerStaging
<1> QED BY <1>1, StageRowsGrow

\* What the run keeps when its collector is done, with every summary staged.
LEMMA CollectedKeeps ==
    ASSUME TypeOK, NEW r \in Runs, RunInv(r),
           worker[r].pc \in {"collect", "summary"},
           worker[r].next <= Len(Collectors),
           Grown(r, Current(r)),
           Current(r) \in Summarized => staging'[r][Current(r)] = "staged",
           UNCHANGED collectionRun, NoFault \/ Fault,
           NEW n \in Nat, Collected(r, n)
    PROVE  Kept(r)
<1>1. /\ worker' \in [Runs -> Worker]
      /\ worker'[r] = [worker[r] EXCEPT !.pc = "collect", !.next = @ + 1,
                          !.ingested = 0, !.collected = @ + 1, !.records = @ + n]
      /\ \A q \in Runs : q # r => worker'[q] = worker[q]
    BY CollectedType
<1>2. worker[r] \in Worker
    BY DEF TypeOK
<1>3. /\ worker'[r].pc = "collect"
      /\ worker'[r].next = worker[r].next + 1
      /\ worker'[r].collected = worker[r].collected + 1
      /\ worker'[r].swallowed = worker[r].swallowed
    BY <1>1, <1>2 DEF Worker
<1>4. TypeOK'
    BY <1>1 DEF TypeOK, Grown, Fault, NoFault
<1>5. /\ worker[r].next \in Nat \ {0} /\ worker[r].collected \in Nat
      /\ worker[r].swallowed \in Nat /\ collectionRun[r].errorCount \in Nat
      /\ Len(Collectors) \in Nat
    BY <1>2, ConstantsAssumption DEF TypeOK, Worker, CollectionRun
<1>6. worker[r].pc \in BeforeLoad /\ collectionRun'[r] = collectionRun[r]
    BY DEF BeforeLoad
<1>7. InRegistry(r)' /\ Counted(r)' /\ Sealed(r)' /\ CleanLoaded(r)'
    <2>1. InRegistry(r)'
        BY <1>3, <1>5 DEF RunInv, InRegistry
    <2>2. Counted(r)'
        <3>1. /\ worker[r].collected < worker[r].next
              /\ worker[r].collected + Errors(r) >= worker[r].next - 1
            BY <1>6 DEF RunInv, Counted
        <3>2. Errors(r) \in Nat /\ Errors(r)' = Errors(r)
            BY <1>3, <1>5, <1>6 DEF Errors
        <3> QED BY <1>3, <1>5, <3>1, <3>2 DEF Counted
    <2>3. Sealed(r)' /\ CleanLoaded(r)'
        BY <1>3, <1>6 DEF RunInv, Sealed, CleanLoaded, Finished, Errors
    <2> QED BY <2>1, <2>2, <2>3
<1>8. StillStaged(r)' /\ Together(r)'
    BY <1>3, <1>6 DEF RunInv, StillStaged, Together, Grown
<1>9. SummariesStaged(r)'
    <2> SUFFICES ASSUME Errors(r)' = 0, NEW i \in 1..Len(Collectors),
                        i < worker'[r].next, Collectors[i] \in Summarized
                 PROVE  staging'[r][Collectors[i]] = "staged"
        BY DEF SummariesStaged
    <2>1. Errors(r) = 0
        BY <1>3, <1>6 DEF Errors
    <2>2. i < worker[r].next \/ i = worker[r].next
        BY <1>3, <1>5
    <2>3. CASE i = worker[r].next
        BY <2>3 DEF Current
    <2>4. CASE i < worker[r].next
        <3>1. staging[r][Collectors[i]] = "staged" /\ Collectors[i] \in Staging
            BY <1>6, <2>1, <2>4 DEF RunInv, SummariesStaged, Summarized, Staging, ServerStaging
        <3> QED BY <3>1 DEF Grown
    <2> QED BY <2>2, <2>3, <2>4
<1> QED BY <1>1, <1>4, <1>7, <1>8, <1>9 DEF Kept, RunInv, Unmoved, Grown

\* What the run keeps when its collector goes on to its summary, or fails.
LEMMA MovedKeeps ==
    ASSUME TypeOK, NEW r \in Runs, RunInv(r),
           worker[r].pc \in {"collect", "summary"},
           worker[r].next <= Len(Collectors),
           Grown(r, Current(r)),
           UNCHANGED collectionRun, NoFault \/ Fault,
           \/ Goto(r, "collectorError")
           \/ /\ Current(r) \in Summarized \cup {"backup"}
              /\ \E n \in Nat : Summarize(r, n)
    PROVE  Kept(r)
<1>1. PICK w \in Worker :
         /\ w.pc \in {"summary", "collectorError"}
         /\ w.pc = "summary" => Current(r) \in Summarized \cup {"backup"}
         /\ w.next = worker[r].next
         /\ w.collected = worker[r].collected
         /\ w.swallowed = worker[r].swallowed
         /\ worker' \in [Runs -> Worker]
         /\ worker'[r] = w
         /\ \A q \in Runs : q # r => worker'[q] = worker[q]
    <2>1. worker[r] \in Worker
        BY DEF TypeOK
    <2>2. CASE Goto(r, "collectorError")
        <3> DEFINE w == [worker[r] EXCEPT !.pc = "collectorError"]
        <3>1. /\ w \in Worker /\ w.pc = "collectorError"
              /\ w.next = worker[r].next /\ w.collected = worker[r].collected
              /\ w.swallowed = worker[r].swallowed
            BY <2>1 DEF Worker
        <3>2. /\ worker' \in [Runs -> Worker] /\ worker'[r] = w
              /\ \A q \in Runs : q # r => worker'[q] = worker[q]
            BY <2>2, GotoType
        <3> HIDE DEF w
        <3> QED BY <3>1, <3>2
    <2>3. ASSUME NEW n \in Nat, Summarize(r, n), Current(r) \in Summarized \cup {"backup"}
          PROVE  \E w \in Worker :
                    /\ w.pc = "summary"
                    /\ w.next = worker[r].next
                    /\ w.collected = worker[r].collected
                    /\ w.swallowed = worker[r].swallowed
                    /\ worker' \in [Runs -> Worker]
                    /\ worker'[r] = w
                    /\ \A q \in Runs : q # r => worker'[q] = worker[q]
        <3> DEFINE w == [worker[r] EXCEPT !.pc = "summary", !.ingested = n]
        <3>1. /\ w \in Worker /\ w.pc = "summary"
              /\ w.next = worker[r].next /\ w.collected = worker[r].collected
              /\ w.swallowed = worker[r].swallowed
            BY <2>1 DEF Worker
        <3>2. /\ worker' \in [Runs -> Worker] /\ worker'[r] = w
              /\ \A q \in Runs : q # r => worker'[q] = worker[q]
            BY <2>3, SummarizeType
        <3> HIDE DEF w
        <3> QED BY <3>1, <3>2
    <2> QED BY <2>2, <2>3
<1>2. TypeOK'
    BY <1>1 DEF TypeOK, Grown, Fault, NoFault
<1>3. worker[r].pc \in BeforeLoad /\ collectionRun'[r] = collectionRun[r]
    BY DEF BeforeLoad
<1>4. InRegistry(r)' /\ Counted(r)' /\ Sealed(r)' /\ CleanLoaded(r)'
    BY <1>1, <1>3
       DEF RunInv, InRegistry, Counted, Sealed, CleanLoaded, Finished, Errors, Current
<1>5. StillStaged(r)' /\ Together(r)'
    BY <1>3 DEF RunInv, StillStaged, Together, Grown
<1>6. SummariesStaged(r)'
    BY <1>1, <1>3 DEF RunInv, SummariesStaged, Errors, Grown, Summarized, Staging, ServerStaging
<1> QED BY <1>1, <1>2, <1>4, <1>5, <1>6 DEF Kept, RunInv, Unmoved, Grown

\* The current type is one of the registry.
LEMMA CurrentType ==
    ASSUME TypeOK, NEW r \in Runs, worker[r].next <= Len(Collectors)
    PROVE  Current(r) \in MetricTypes
<1>1. worker[r].next \in 1..Len(Collectors)
    BY ConstantsAssumption DEF TypeOK, Worker
<1> QED BY <1>1, RegistryType DEF Current

LEMMA CollectStep ==
    ASSUME TypeOK, NEW r \in Runs, RunInv(r), Collect(r)
    PROVE  Kept(r)
<1> DEFINE t == Current(r)
<1>1. /\ worker[r].pc \in {"collect", "summary"} /\ worker[r].next <= Len(Collectors)
      /\ UNCHANGED collectionRun
    BY DEF Collect, At
<1>2. 0 \in Nat /\ 1 \in Nat
    OBVIOUS
<1>3. CASE Goto(r, "collectorError")
    BY <1>1, <1>3, PersistGrows, MovedKeeps DEF Collect
<1>4. CASE ~Goto(r, "collectorError")
    <2>1. Grown(r, t) /\ NoFault
        BY <1>4, PersistGrows DEF Collect
    <2>2. CASE t \notin Summarized /\ (Collected(r, 0) \/ Collected(r, 1))
        BY <1>1, <1>2, <2>1, <2>2, CollectedKeeps
    <2>3. CASE t \in Summarized \cup {"backup"} /\ (Summarize(r, 0) \/ Summarize(r, 1))
        BY <1>1, <1>2, <2>1, <2>3, MovedKeeps
    <2> QED BY <1>4, <2>2, <2>3 DEF Collect
<1> QED BY <1>3, <1>4

LEMMA CollectSummaryStep ==
    ASSUME TypeOK, NEW r \in Runs, RunInv(r), CollectSummary(r)
    PROVE  Kept(r)
<1>1. /\ worker[r].pc \in {"collect", "summary"} /\ worker[r].next <= Len(Collectors)
      /\ UNCHANGED collectionRun
    BY DEF CollectSummary, At, RunInv, InRegistry
<1>2. CASE Goto(r, "collectorError")
    BY <1>1, <1>2, PersistGrows, MovedKeeps DEF CollectSummary
<1>3. CASE ~Goto(r, "collectorError")
    <2>1. /\ Stage(r, Current(r)) /\ NoFault
          /\ Collected(r, worker[r].ingested + 1)
        BY <1>3 DEF CollectSummary
    <2>2. Grown(r, Current(r)) /\ worker[r].ingested + 1 \in Nat
        BY <2>1, PersistGrows DEF TypeOK, Worker
    <2>3. Current(r) \in Summarized => staging'[r][Current(r)] = "staged"
        BY <2>1, SummaryStaged
    <2> QED BY <1>1, <2>1, <2>2, <2>3, CollectedKeeps
<1> QED BY <1>2, <1>3

LEMMA LogCollectionErrorStep ==
    ASSUME TypeOK, NEW r \in Runs, RunInv(r), LogCollectionError(r)
    PROVE  Kept(r)
<1>1. worker[r] \in Worker /\ worker[r].pc \in {"syncError", "collectorError", "fatal"}
    BY DEF TypeOK, LogCollectionError
<1>2. AfterError(r) \in Worker
    <2>1. worker[r].next + 1 \in Nat \ {0}
        BY <1>1 DEF Worker
    <2> QED BY <1>1, <2>1 DEF AfterError, Worker
<1>3. PICK w \in Worker :
         /\ worker' = [worker EXCEPT ![r] = w]
         /\ w.pc = IF worker[r].pc = "fatal" THEN "finalize" ELSE "collect"
         /\ w.next = IF worker[r].pc = "collectorError" THEN worker[r].next + 1
                     ELSE worker[r].next
         /\ w.collected = worker[r].collected
         /\ \/ w.swallowed = worker[r].swallowed
            \/ w.swallowed = worker[r].swallowed + 1
    <2> DEFINE a == AfterError(r)
    <2>1. /\ a.pc = IF worker[r].pc = "fatal" THEN "finalize" ELSE "collect"
          /\ a.next = IF worker[r].pc = "collectorError" THEN worker[r].next + 1
                      ELSE worker[r].next
          /\ a.collected = worker[r].collected
          /\ a.swallowed = worker[r].swallowed
        BY <1>1 DEF AfterError, Worker, At
    <2> DEFINE n == a.swallowed + 1
               b == [a EXCEPT !.swallowed = n]
    <2>2. \/ worker' = [worker EXCEPT ![r] = a]
          \/ worker' = [worker EXCEPT ![r] = b]
        BY DEF LogCollectionError
    <2>3. n \in Nat
        BY <1>2 DEF Worker
    <2> HIDE DEF a, n
    <2>4. /\ b \in Worker /\ b.pc = a.pc /\ b.next = a.next
          /\ b.collected = a.collected /\ b.swallowed = n
        BY <1>2, <2>3 DEF a, Worker
    <2> HIDE DEF b
    <2> QED BY <1>2, <2>1, <2>2, <2>4 DEF a, n
<1>4. /\ worker' \in [Runs -> Worker]
      /\ worker'[r] = w
      /\ \A q \in Runs : q # r => worker'[q] = worker[q]
    BY <1>3 DEF TypeOK
<1>5. /\ collectionRun' \in [Runs -> CollectionRun]
      /\ \A q \in Runs : q # r => collectionRun'[q] = collectionRun[q]
      /\ collectionRun'[r].status = collectionRun[r].status
      /\ \/ collectionRun'[r].errorCount = collectionRun[r].errorCount + 1
         \/ /\ collectionRun'[r].errorCount = collectionRun[r].errorCount
            /\ w.swallowed = worker[r].swallowed + 1
    <2>1. collectionRun[r] \in CollectionRun
        BY DEF TypeOK
    <2> DEFINE n == collectionRun[r].errorCount + 1
               k == [collectionRun[r] EXCEPT !.errorCount = n]
    <2>2. n \in Nat
        BY <2>1 DEF CollectionRun
    <2>3. \/ collectionRun' = [collectionRun EXCEPT ![r] = k]
          \/ collectionRun' = collectionRun /\ w.swallowed # worker[r].swallowed
        BY <1>4 DEF LogCollectionError
    <2> HIDE DEF n
    <2>4. k \in CollectionRun /\ k.status = collectionRun[r].status /\ k.errorCount = n
        BY <2>1, <2>2 DEF CollectionRun
    <2> HIDE DEF k
    <2> QED BY <1>3, <2>3, <2>4 DEF TypeOK, n
<1>6. TypeOK'
    BY <1>4, <1>5 DEF LogCollectionError, TypeOK, Fault, NoFault
<1>7. /\ worker[r].next \in Nat \ {0} /\ worker[r].collected \in Nat
      /\ worker[r].swallowed \in Nat /\ collectionRun[r].errorCount \in Nat
      /\ Len(Collectors) \in Nat
    BY <1>1, ConstantsAssumption DEF TypeOK, Worker, CollectionRun
<1>8. Errors(r) \in Nat /\ Errors(r)' \in Nat /\ Errors(r)' > Errors(r)
    BY <1>3, <1>4, <1>5, <1>7 DEF Errors
<1>9. staging' = staging /\ fact' = fact
    BY DEF LogCollectionError
<1>10. InRegistry(r)'
    BY <1>1, <1>3, <1>4, <1>7 DEF RunInv, InRegistry
<1>11. Counted(r)'
    <2>1. worker[r].collected < worker[r].next
        BY DEF RunInv, Counted
    <2>2. worker[r].pc # "fatal" => worker[r].collected + Errors(r) >= worker[r].next - 1
        BY <1>1 DEF RunInv, Counted, BeforeLoad
    <2> QED BY <1>3, <1>4, <1>7, <1>8, <2>1, <2>2 DEF Counted, BeforeLoad
<1>12. Sealed(r)' /\ CleanLoaded(r)' /\ SummariesStaged(r)'
    BY <1>1, <1>3, <1>4, <1>5, <1>8
       DEF RunInv, Sealed, CleanLoaded, SummariesStaged, Finished
<1>13. StillStaged(r)' /\ Together(r)'
    BY <1>1, <1>3, <1>4, <1>9 DEF RunInv, StillStaged, Together, BeforeLoad
<1> QED BY <1>4, <1>5, <1>6, <1>9, <1>10, <1>11, <1>12, <1>13 DEF Kept, RunInv, Unmoved

LEMMA ExecuteLoadStep ==
    ASSUME TypeOK, NEW r \in Runs, RunInv(r), ExecuteLoad(r)
    PROVE  Kept(r)
<1>1. worker[r] \in Worker /\ worker[r].pc = "collect" /\ worker[r].next > Len(Collectors)
    BY DEF TypeOK, ExecuteLoad, At
<1>2. PICK p \in {"finalize", "fatal"} : Goto(r, p)
    BY DEF ExecuteLoad
<1>3. /\ worker' \in [Runs -> Worker]
      /\ worker'[r] = [worker[r] EXCEPT !.pc = p]
      /\ \A q \in Runs : q # r => worker'[q] = worker[q]
    BY <1>2, GotoType
<1>4. /\ worker'[r].pc = p
      /\ worker'[r].next = worker[r].next
      /\ worker'[r].collected = worker[r].collected
      /\ worker'[r].swallowed = worker[r].swallowed
    BY <1>1, <1>3 DEF Worker
<1>5. Loaded(r) \in [Staging -> BatchStates]
    BY DEF TypeOK, Loaded, BatchStates
<1>6. /\ staging' \in [Runs -> [Staging -> BatchStates]]
      /\ \A q \in Runs : q # r => staging'[q] = staging[q]
      /\ \/ staging'[r] = Loaded(r)
         \/ staging'[r] = staging[r] /\ p = "fatal"
    <2>1. CASE Load(r)
        BY <1>5, <2>1 DEF TypeOK, Load
    <2>2. CASE ~Load(r)
        <3>1. staging' = staging /\ Goto(r, "fatal")
            BY <2>2 DEF ExecuteLoad
        <3>2. worker'[r].pc = "fatal"
            BY <1>1, <3>1, GotoType DEF Worker
        <3> QED BY <1>4, <3>1, <3>2 DEF TypeOK
    <2> QED BY <2>1, <2>2
<1>7. UNCHANGED <<collectionRun, fact>> /\ (NoFault \/ Fault)
    BY DEF ExecuteLoad
<1>8. TypeOK'
    BY <1>3, <1>6, <1>7 DEF TypeOK, NoFault, Fault
<1>9. /\ worker[r].next = Len(Collectors) + 1
      /\ worker[r].collected \in Nat /\ Len(Collectors) \in Nat
      /\ Errors(r) \in Nat /\ Errors(r)' = Errors(r)
    BY <1>1, <1>4, <1>7, ConstantsAssumption
       DEF RunInv, InRegistry, TypeOK, Worker, CollectionRun, Errors
<1>10. InRegistry(r)' /\ StillStaged(r)' /\ SummariesStaged(r)'
    BY <1>4, <1>9 DEF RunInv, InRegistry, StillStaged, SummariesStaged, BeforeLoad
<1>11. Counted(r)'
    <2>1. worker[r].collected < worker[r].next
          /\ worker[r].collected + Errors(r) >= Len(Collectors)
        BY <1>1, <1>9 DEF RunInv, Counted, BeforeLoad
    <2> QED BY <1>4, <1>9, <2>1 DEF Counted, BeforeLoad
<1>12. Sealed(r)' /\ ~Finished(r)'
    BY <1>1, <1>4, <1>7 DEF RunInv, Sealed, Finished
<1>13. Together(r)'
    BY <1>6 DEF RunInv, Together, Loaded
<1>14. CleanLoaded(r)'
    <2> SUFFICES ASSUME p = "finalize", Errors(r) = 0, NEW t \in Staging
                 PROVE  /\ staging'[r][t] \in {"none", "loaded", "dropped"}
                        /\ (\E i \in 1..Len(Collectors) : Collectors[i] = t)
                              /\ t \in Summarized =>
                           staging'[r][t] = IF t \in ActiveMetrics THEN "loaded"
                                            ELSE "dropped"
        BY <1>4, <1>9, <1>12 DEF CleanLoaded, AllLoaded, Finished
    <2>1. staging'[r][t] = IF staging[r][t] # "staged" THEN staging[r][t]
                           ELSE IF t \in ActiveMetrics THEN "loaded" ELSE "dropped"
        BY <1>6 DEF Loaded
    <2>2. staging[r][t] \in {"none", "staged"}
        BY <1>1 DEF RunInv, StillStaged, BeforeLoad
    <2>3. ASSUME NEW i \in 1..Len(Collectors), Collectors[i] = t, t \in Summarized
          PROVE  staging[r][t] = "staged"
        <3>1. i < worker[r].next
            BY <1>9
        <3> QED BY <1>1, <2>3, <3>1 DEF RunInv, SummariesStaged, BeforeLoad
    <2> QED BY <2>1, <2>2, <2>3
<1> QED BY <1>3, <1>6, <1>7, <1>8, <1>10, <1>11, <1>12, <1>13, <1>14
        DEF Kept, RunInv, Unmoved

LEMMA FinalizeRunStep ==
    ASSUME TypeOK, NEW r \in Runs, RunInv(r), FinalizeRun(r)
    PROVE  Kept(r)
<1>1. worker[r] \in Worker /\ worker[r].pc = "finalize"
    BY DEF TypeOK, FinalizeRun, At
<1>2. PICK p \in {"done", "dead"} : Goto(r, p)
    BY DEF FinalizeRun
<1>3. /\ worker' \in [Runs -> Worker]
      /\ worker'[r] = [worker[r] EXCEPT !.pc = p]
      /\ \A q \in Runs : q # r => worker'[q] = worker[q]
    BY <1>2, GotoType
<1>4. /\ worker'[r].pc = p
      /\ worker'[r].next = worker[r].next
      /\ worker'[r].collected = worker[r].collected
      /\ worker'[r].swallowed = worker[r].swallowed
    BY <1>1, <1>3 DEF Worker
<1>5. /\ collectionRun' \in [Runs -> CollectionRun]
      /\ \A q \in Runs : q # r => collectionRun'[q] = collectionRun[q]
      /\ collectionRun'[r].errorCount = collectionRun[r].errorCount
      /\ collectionRun'[r].status \in {collectionRun[r].status, FinalStatus(r)}
    <2> DEFINE f == FinalStatus(r)
               k == [collectionRun[r] EXCEPT !.status = f,
                        !.metricsCollected = worker[r].collected,
                        !.recordsCollected = worker[r].records]
    <2>1. f \in {"success", "partial", "failed"}
        BY DEF FinalStatus
    <2>2. \/ collectionRun' = [collectionRun EXCEPT ![r] = k]
          \/ collectionRun' = collectionRun
        BY DEF FinalizeRun
    <2> HIDE DEF f
    <2>3. k \in CollectionRun /\ k.status = f
          /\ k.errorCount = collectionRun[r].errorCount
        BY <1>1, <2>1 DEF TypeOK, CollectionRun, Worker
    <2> HIDE DEF k
    <2> QED BY <2>2, <2>3 DEF TypeOK, f
<1>6. staging' = staging /\ fact' = fact /\ (NoFault \/ Fault)
    BY DEF FinalizeRun
<1>7. TypeOK'
    BY <1>3, <1>5, <1>6 DEF TypeOK, NoFault, Fault
<1>8. /\ worker[r].next \in Nat /\ worker[r].collected \in Nat /\ Len(Collectors) \in Nat
      /\ collectionRun[r].errorCount \in Nat /\ worker[r].swallowed \in Nat
      /\ Errors(r)' = Errors(r)
    BY <1>1, <1>4, <1>5, ConstantsAssumption DEF TypeOK, Worker, CollectionRun, Errors
<1>9. collectionRun[r].status \notin {"success", "partial", "failed"}
    BY <1>1 DEF RunInv, Sealed, Finished
<1>10. /\ FinalStatus(r) \in {"success", "partial", "failed"}
       /\ FinalStatus(r) = "success" => collectionRun[r].errorCount = 0
       /\ FinalStatus(r) # "success" => \/ collectionRun[r].errorCount # 0
                                        \/ worker[r].collected # Len(Collectors)
    BY DEF FinalStatus
<1>11. FinalStatus(r) # "success" => Errors(r) > 0
    <2>1. /\ worker[r].collected < worker[r].next
          /\ worker[r].next <= Len(Collectors) + 1
          /\ worker[r].collected + Errors(r) >= Len(Collectors) \/ Errors(r) > 0
        BY <1>1 DEF RunInv, Counted, InRegistry
    <2>2. Errors(r) \in Nat /\ (collectionRun[r].errorCount # 0 => Errors(r) > 0)
        BY <1>8 DEF Errors
    <2>3. worker[r].collected # Len(Collectors) => worker[r].collected < Len(Collectors)
        BY <1>8, <2>1
    <2> QED BY <1>8, <1>10, <2>1, <2>2, <2>3
<1>12. Sealed(r)'
    BY <1>4, <1>5, <1>8, <1>9, <1>10, <1>11 DEF Sealed, Finished
<1>13. AllLoaded(r)' <=> AllLoaded(r)
    BY <1>6 DEF AllLoaded
<1>14. CleanLoaded(r)'
    BY <1>1, <1>4, <1>8, <1>13 DEF RunInv, CleanLoaded
<1>15. InRegistry(r)' /\ StillStaged(r)' /\ SummariesStaged(r)' /\ Together(r)'
    BY <1>4, <1>6 DEF RunInv, InRegistry, StillStaged, SummariesStaged, Together, BeforeLoad
<1>16. Counted(r)'
    BY <1>4 DEF RunInv, Counted, BeforeLoad
<1> QED BY <1>3, <1>5, <1>6, <1>7, <1>12, <1>14, <1>15, <1>16 DEF Kept, RunInv, Unmoved

LEMMA CrashStep ==
    ASSUME TypeOK, NEW r \in Runs, RunInv(r), Crash(r)
    PROVE  Kept(r)
<1>1. worker[r] \in Worker /\ worker[r].pc \notin {"idle", "done", "dead"}
    BY DEF TypeOK, Crash
<1>2. /\ worker' \in [Runs -> Worker]
      /\ worker'[r] = [worker[r] EXCEPT !.pc = "dead"]
      /\ \A q \in Runs : q # r => worker'[q] = worker[q]
    BY GotoType DEF Crash
<1>3. /\ worker'[r].pc = "dead"
      /\ worker'[r].next = worker[r].next
      /\ worker'[r].collected = worker[r].collected
      /\ worker'[r].swallowed = worker[r].swallowed
    BY <1>1, <1>2 DEF Worker
<1>4. UNCHANGED <<collectionRun, staging, fact>> /\ Fault
    BY DEF Crash
<1>5. TypeOK'
    BY <1>2, <1>4 DEF TypeOK, Fault
<1>6. InRegistry(r)' /\ StillStaged(r)' /\ SummariesStaged(r)' /\ Together(r)' /\ Counted(r)'
    BY <1>3, <1>4
       DEF RunInv, InRegistry, StillStaged, SummariesStaged, Together, Counted, BeforeLoad
<1>7. CleanLoaded(r)' /\ Sealed(r)'
    BY <1>1, <1>3, <1>4 DEF RunInv, CleanLoaded, Sealed, Finished
<1> QED BY <1>2, <1>4, <1>5, <1>6, <1>7 DEF Kept, RunInv, Unmoved

LEMMA CleanupStagingStep ==
    ASSUME TypeOK, NEW r \in Runs, RunInv(r), CleanupStaging
    PROVE  TypeOK' /\ RunInv(r)'
<1>1. UNCHANGED <<collectionRun, worker, fact, faults>>
    BY DEF CleanupStaging
<1>2. PICK R \in SUBSET Purgeable :
         staging' = [q \in Runs |-> [t \in Staging |->
                        IF q \in R /\ staging[q][t] = "staged"
                        THEN "purged" ELSE staging[q][t]]]
    BY DEF CleanupStaging
<1>3. TypeOK'
    BY <1>1, <1>2 DEF TypeOK, BatchStates
<1>4. \A t \in Staging : staging'[r][t] = IF r \in R /\ staging[r][t] = "staged"
                                          THEN "purged" ELSE staging[r][t]
    BY <1>2
<1>5. r \in R => worker[r].pc \in {"done", "dead"}
    BY DEF Purgeable, Ended
<1>6. InRegistry(r)' /\ Counted(r)' /\ Sealed(r)'
    BY <1>1 DEF RunInv, InRegistry, Counted, Sealed, Finished, Errors
<1>7. StillStaged(r)' /\ Together(r)'
    BY <1>1, <1>4, <1>5 DEF RunInv, StillStaged, Together, BeforeLoad
<1>8. SummariesStaged(r)'
    <2>1. CASE r \in R
        BY <1>1, <1>5, <2>1 DEF SummariesStaged, BeforeLoad
    <2>2. CASE r \notin R
        <3>1. \A t \in Staging : staging'[r][t] = staging[r][t]
            BY <1>4, <2>2
        <3>2. Summarized \subseteq Staging
            BY DEF Summarized, Staging, ServerStaging
        <3> QED BY <1>1, <3>1, <3>2 DEF RunInv, SummariesStaged, Errors
    <2> QED BY <2>1, <2>2
<1>9. CleanLoaded(r)'
    <2>1. AllLoaded(r) => AllLoaded(r)'
        BY <1>4 DEF AllLoaded
    <2> QED BY <1>1, <2>1 DEF RunInv, CleanLoaded, Errors
<1> QED BY <1>3, <1>6, <1>7, <1>8, <1>9 DEF RunInv

LEMMA NextIInv ==
    ASSUME IInv, [Next]_vars
    PROVE  IInv'
<1>1. TypeOK /\ \A r \in Runs : RunInv(r)
    BY DEF IInv
<1>2. CASE UNCHANGED vars
    <2>1. TypeOK' /\ \A q \in Runs : Unmoved(q)
        BY <1>1, <1>2 DEF vars, TypeOK, Unmoved
    <2> QED BY <1>1, <2>1, UnmovedInv DEF IInv
<1>3. ASSUME NEW r \in Runs, CreateRun(r) \/ Step(r) \/ Crash(r)
      PROVE  IInv'
    <2>1. Kept(r)
        BY <1>1, <1>3, CreateRunStep, ConnectStep, CollectStep, CollectSummaryStep,
           LogCollectionErrorStep, ExecuteLoadStep, FinalizeRunStep, CrashStep DEF Step
    <2>2. ASSUME NEW q \in Runs
          PROVE  RunInv(q)'
        BY <1>1, <2>1, UnmovedInv DEF Kept
    <2> QED BY <2>1, <2>2 DEF Kept, IInv
<1>4. CASE CleanupStaging
    <2>1. CASE Runs = {}
        BY <1>1, <1>4, <2>1 DEF IInv, CleanupStaging, Purgeable
    <2>2. CASE Runs # {}
        BY <1>1, <1>4, <2>2, CleanupStagingStep DEF IInv
    <2> QED BY <2>1, <2>2
<1> QED BY <1>2, <1>3, <1>4 DEF Next

LEMMA SpecIInv == Spec => []IInv
BY InitIInv, NextIInv, PTL DEF Spec

-----------------------------------------------------------------------------
(***************************************************************************)
(* What the invariant says of runs that ended.                             *)
(***************************************************************************)
LEMMA SuccessLoaded == IInv => SuccessMeansLoaded
<1> SUFFICES ASSUME IInv, NEW r \in Runs, collectionRun[r].status = "success",
                    worker[r].swallowed = 0
             PROVE  AllLoaded(r)
    BY DEF SuccessMeansLoaded, AllLoaded
<1>1. Errors(r) = 0
    BY DEF IInv, RunInv, Sealed, Errors
<1> QED BY <1>1 DEF IInv, RunInv, CleanLoaded

\* No step but the purge does anything to a run that ended.
LEMMA EndedStays ==
    ASSUME IInv, [Next]_vars, NEW r \in Runs, Ended(r)
    PROVE  /\ worker'[r] = worker[r] /\ collectionRun'[r] = collectionRun[r]
           /\ fact'[r] = fact[r]
           /\ \A t \in Staging : staging'[r][t] = "loaded" <=> staging[r][t] = "loaded"
<1>1. TypeOK /\ \A q \in Runs : RunInv(q)
    BY DEF IInv
<1>2. CASE UNCHANGED vars
    BY <1>2 DEF vars
<1>3. ASSUME NEW q \in Runs, CreateRun(q) \/ Step(q) \/ Crash(q)
      PROVE  Unmoved(r)
    <2>1. q # r
        BY <1>3 DEF CreateRun, Step, Connect, SyncDatabases, Collect, CollectSummary,
                    LogCollectionError, ExecuteLoad, FinalizeRun, Crash, At, Ended
    <2>2. Kept(q)
        BY <1>1, <1>3, CreateRunStep, ConnectStep, CollectStep, CollectSummaryStep,
           LogCollectionErrorStep, ExecuteLoadStep, FinalizeRunStep, CrashStep DEF Step
    <2> QED BY <2>1, <2>2 DEF Kept
<1>4. CASE CleanupStaging
    <2>1. PICK R \in SUBSET Purgeable :
             staging' = [q \in Runs |-> [t \in Staging |->
                            IF q \in R /\ staging[q][t] = "staged"
                            THEN "purged" ELSE staging[q][t]]]
        BY <1>4 DEF CleanupStaging
    <2>2. \A t \in Staging : staging'[r][t] = "loaded" <=> staging[r][t] = "loaded"
        BY <2>1
    <2> QED BY <1>4, <2>2 DEF CleanupStaging
<1> QED BY <1>2, <1>3, <1>4 DEF Next, Unmoved

-----------------------------------------------------------------------------
\* The tables and counters keep their types.
THEOREM PipelineTypeCorrect == Spec => []TypeOK
BY SpecIInv, PTL DEF IInv

\* A run whose status is success, and none of whose error logging was swallowed,
\* left nothing in staging and has its summaries as facts.
THEOREM SuccessAlwaysLoaded == Spec => []SuccessMeansLoaded
BY SpecIInv, SuccessLoaded, PTL

\* A finished run that is not a success has an error, recorded or swallowed.
THEOREM FailureAlwaysExplained == Spec => []FailureExplained
<1>1. IInv => FailureExplained
    BY DEF IInv, RunInv, Sealed, FailureExplained, Errors
<1> QED BY <1>1, SpecIInv, PTL

\* A run's server and database metrics become facts together.
THEOREM LoadedAlwaysTogether == Spec => []LoadedTogether
<1>1. IInv => LoadedTogether
    BY DEF IInv, RunInv, Together, LoadedTogether
<1> QED BY <1>1, SpecIInv, PTL

\* A run loads its own rows only, and what a finished run counted and wrote stays.
THEOREM RunsAlwaysIsolated == Spec => RunsIsolated
<1>1. ASSUME IInv, [Next]_vars
      PROVE  [RunsIsolatedStep]_vars
    <2>1. TypeOK /\ \A q \in Runs : RunInv(q)
        BY <1>1 DEF IInv
    <2> DEFINE Isolated(r) ==
            /\ \A t \in Staging :
                  staging[r][t] = "staged" /\ staging'[r][t] \in {"loaded", "dropped"} =>
                      ~Ended(r) /\ worker'[r] # worker[r]
            /\ Finished(r) => /\ collectionRun'[r] = collectionRun[r]
                              /\ fact'[r] = fact[r]
    <2> SUFFICES ASSUME NEW r \in Runs, ~UNCHANGED vars
                 PROVE  Isolated(r)
        BY DEF RunsIsolatedStep
    <2>2. ASSUME Unmoved(r)
          PROVE  Isolated(r)
        BY <2>2 DEF Unmoved
    <2>3. CASE CleanupStaging
        BY <2>3 DEF CleanupStaging
    <2>4. ASSUME NEW q \in Runs, q # r, CreateRun(q) \/ Step(q) \/ Crash(q)
          PROVE  Isolated(r)
        <3>1. Kept(q)
            BY <2>1, <2>4, CreateRunStep, ConnectStep, CollectStep, CollectSummaryStep,
               LogCollectionErrorStep, ExecuteLoadStep, FinalizeRunStep, CrashStep DEF Step
        <3> QED BY <2>2, <2>4, <3>1 DEF Kept
    <2>5. CASE CreateRun(r) \/ Step(r) \/ Crash(r)
        <3>1. worker[r].pc \notin {"done", "dead"} /\ ~Ended(r) /\ ~Finished(r)
            BY <2>1, <2>5
               DEF CreateRun, Step, Connect, SyncDatabases, Collect, CollectSummary,
                   LogCollectionError, ExecuteLoad, FinalizeRun, Crash, At, RunInv,
                   Sealed, Ended
        <3>2. CASE ExecuteLoad(r)
            <4>1. worker[r].pc = "collect" /\ (Goto(r, "finalize") \/ Goto(r, "fatal"))
                BY <3>2 DEF ExecuteLoad, At
            <4>2. worker'[r] # worker[r]
                BY <2>1, <4>1, GotoType DEF TypeOK, Worker
            <4> QED BY <3>1, <4>2
        <3>3. CASE Collect(r) \/ CollectSummary(r)
            <4>1. Grown(r, Current(r))
                BY <2>1, <3>3, PersistGrows DEF Collect, CollectSummary
            <4> QED BY <3>1, <4>1 DEF Grown
        <3>4. CASE ~ExecuteLoad(r) /\ ~Collect(r) /\ ~CollectSummary(r)
            <4>1. staging' = staging
                BY <2>5, <3>4 DEF CreateRun, Step, Connect, SyncDatabases,
                                  LogCollectionError, FinalizeRun, Crash
            <4> QED BY <3>1, <4>1
        <3> QED BY <3>2, <3>3, <3>4
    <2> QED BY <1>1, <2>3, <2>4, <2>5 DEF Next
<1> QED BY <1>1, SpecIInv, PTL DEF Spec, RunsIsolated
=============================================================================
