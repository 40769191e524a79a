------------------------- MODULE TargetPolls_proofs -------------------------
(***************************************************************************)
(* Theorems about TargetPolls and their proofs.                            *)
(*                                                                         *)
(* That two rows of dim_database never claim one id rests on the target's  *)
(* catalog doing the same (IInv), and on every name being written by an    *)
(* upsert that is not rejected.                                            *)
(***************************************************************************)
EXTENDS TargetPolls, FiniteSetTheorems, TLAPS

\* database_id is unique in sys.databases.
CatalogUnique == \A n, m \in Names : catalog[n] = catalog[m] /\ catalog[n] # NoId => n = m

IInv == TypeOK /\ CatalogUnique /\ SummarizedAreStored

-----------------------------------------------------------------------------
\* What an upsert that is not rejected leaves has unique ids.
LEMMA UpsertedUnique ==
    ASSUME IInv, NEW o \in Orders, ~Rejected(o)
    PROVE  /\ Upserted \in [Names -> Ids \cup {NoId}]
           /\ \A n, m \in Names : Upserted[n] = Upserted[m] /\ Upserted[n] # NoId => n = m
<1>1. Upserted \in [Names -> Ids \cup {NoId}]
  BY DEF IInv, TypeOK, Upserted
<1>2. ASSUME NEW n \in Present, NEW m \in Names \ Present
      PROVE  dimDatabase[m] # catalog[n]
  <2>1. PICK i \in DOMAIN o : o[i] = n
    BY <1>2 DEF Orders
  <2>2. \A j \in 1..i : j \in DOMAIN o => o[j] \in Present
    BY DEF Orders
  <2>3. Cardinality(Present) \in Nat /\ DOMAIN o = 1..Cardinality(Present)
    BY ConstantsAssumption, FS_Subset, FS_CardinalityType DEF Orders, Present
  <2>4. \A j \in 1..i : j \in DOMAIN o
    BY <2>1, <2>3, SMT
  <2>5. m \in Names \ {o[j] : j \in 1..i}
    BY <1>2, <2>2, <2>4
  <2> QED
    BY <2>1, <2>5 DEF Rejected
<1>3. ASSUME NEW n \in Names, NEW m \in Names,
             Upserted[n] = Upserted[m], Upserted[n] # NoId
      PROVE  n = m
  <2>1. CASE n \in Present /\ m \in Present
    BY <1>3, <2>1 DEF Upserted, IInv, CatalogUnique
  <2>2. CASE n \in Present /\ m \notin Present
    BY <1>2, <1>3, <2>2 DEF Upserted
  <2>3. CASE n \notin Present /\ m \in Present
    BY <1>2, <1>3, <2>3 DEF Upserted
  <2>4. CASE n \notin Present /\ m \notin Present
    BY <1>3, <2>4 DEF Upserted, IInv, TypeOK
  <2> QED
    BY <2>1, <2>2, <2>3, <2>4
<1> QED
  BY <1>1, <1>3

\* A rejected batch has met an id that the row of another name holds.
LEMMA RejectedMeansTaken ==
    ASSUME NEW o \in Orders, Rejected(o)
    PROVE  IdTaken
<1>1. PICK i \in DOMAIN o : \E m \in Names \ {o[j] : j \in 1..i} : dimDatabase[m] = catalog[o[i]]
  BY DEF Rejected
<1>2. PICK m \in Names \ {o[j] : j \in 1..i} : dimDatabase[m] = catalog[o[i]]
  BY <1>1
<1>3. o[i] \in Present /\ i \in 1..i
  BY <1>1 DEF Orders
<1>4. m # o[i]
  BY <1>2, <1>3
<1> QED
  BY <1>2, <1>3, <1>4 DEF IdTaken

\* The target keeps the ids of its catalog unique, and changes no table.
LEMMA TargetStep ==
    ASSUME IInv, Target
    PROVE  IInv'
<1> USE DEF IInv, TypeOK, CatalogUnique, SummarizedAreStored, tables
<1>1. ASSUME NEW n \in Names, CreateDatabase(n), UNCHANGED <<tables, pc>>
      PROVE  IInv'
  <2>1. PICK id \in FreeIds : catalog' = [catalog EXCEPT ![n] = id]
    BY <1>1 DEF CreateDatabase
  <2>2. id \in Ids /\ \A m \in Names : catalog[m] # id
    BY DEF FreeIds
  <2>3. CatalogUnique'
    BY <2>1, <2>2
  <2>4. catalog' \in [Names -> Ids \cup {NoId}]
    BY <2>1, <2>2
  <2> QED
    BY <1>1, <2>3, <2>4 DEF CreateDatabase
<1>2. ASSUME NEW n \in Names, DropDatabase(n), UNCHANGED <<tables, pc>>
      PROVE  IInv'
  BY <1>2 DEF DropDatabase
<1>3. ASSUME NEW n \in Names, BackUp(n), UNCHANGED <<tables, pc>>
      PROVE  IInv'
  BY <1>3 DEF BackUp, BackupStates
<1>4. ASSUME NEW n \in Names, NEW m \in Names, RenameDatabase(n, m), UNCHANGED <<tables, pc>>
      PROVE  IInv'
  <2>1. n # m /\ catalog' = [catalog EXCEPT ![n] = NoId, ![m] = catalog[n]]
    BY <1>4 DEF RenameDatabase
  <2>2. catalog' \in [Names -> Ids \cup {NoId}]
    BY <2>1
  <2>3. CatalogUnique'
    BY <2>1
  <2> QED
    BY <1>4, <2>2, <2>3 DEF RenameDatabase
<1>5. ASSUME NEW j \in JobRuns, FinishJob(j), UNCHANGED <<tables, pc>>
      PROVE  IInv'
  BY <1>5 DEF FinishJob
<1>6. ASSUME Midnight, UNCHANGED <<tables, pc>>
      PROVE  IInv'
  BY <1>6 DEF Midnight
<1>7. ASSUME NEW d \in Deadlocks, ReportDeadlock(d) \/ EvictReport(d), UNCHANGED <<tables, pc>>
      PROVE  IInv'
  BY <1>7 DEF ReportDeadlock, EvictReport
<1> QED
  BY <1>1, <1>2, <1>3, <1>4, <1>5, <1>6, <1>7 DEF Target

LEMMA StepKeepsIInv == IInv /\ [Next]_vars => IInv'
<1> SUFFICES ASSUME IInv, [Next]_vars PROVE IInv'
  OBVIOUS
<1> USE DEF source
<1>1. CASE Target
  BY <1>1, TargetStep
<1>2. CASE SyncDatabases
  <2>1. PICK o \in Orders : dimDatabase' = IF Rejected(o) THEN dimDatabase ELSE Upserted
    BY <1>2 DEF SyncDatabases, Sync
  <2>2. /\ dimDatabase' \in [Names -> Ids \cup {NoId}]
        /\ \A n, m \in Names : dimDatabase'[n] = dimDatabase'[m] /\ dimDatabase'[n] # NoId => n = m
    <3>1. CASE Rejected(o)
      BY <2>1, <3>1 DEF IInv, TypeOK
    <3>2. CASE ~Rejected(o)
      BY <2>1, <3>2, UpsertedUnique
    <3> QED
      BY <3>1, <3>2
  <2> QED
    BY <1>2, <2>2 DEF SyncDatabases, IInv, TypeOK, CatalogUnique, SummarizedAreStored, Steps
<1>3. CASE CollectDeadlocks
  BY <1>3 DEF CollectDeadlocks, IInv, TypeOK, CatalogUnique,
              SummarizedAreStored, Steps
<1>4. CASE CollectAgent
  BY <1>4 DEF CollectAgent, Summarize, KnownJobRuns, Window, IInv, TypeOK, CatalogUnique,
              SummarizedAreStored, Steps
<1>5. CASE CollectBackups
  BY <1>5 DEF CollectBackups, StageAges, BackedUp, Present, IInv, TypeOK, CatalogUnique,
              SummarizedAreStored, Steps
<1>6. CASE StartRun
  BY <1>6 DEF StartRun, IInv, TypeOK, CatalogUnique, SummarizedAreStored, Steps
<1>7. CASE UNCHANGED vars
  BY <1>7 DEF vars, tables, IInv, TypeOK, CatalogUnique, SummarizedAreStored
<1> QED
  BY <1>1, <1>2, <1>3, <1>4, <1>5, <1>6, <1>7 DEF Next, Run

LEMMA InvariantHolds == Spec => []IInv
<1>1. Init => IInv
  BY DEF Init, IInv, TypeOK, CatalogUnique, SummarizedAreStored, Steps, BackupStates
<1> QED
  BY <1>1, StepKeepsIInv, PTL DEF Spec

-----------------------------------------------------------------------------
\* The catalog, the histories and the tables keep their types, and no two rows of
\* dim_database claim one database_id, whatever becomes of the databases.
THEOREM PollsTypeCorrect == Spec => []TypeOK
<1>1. IInv => TypeOK
  BY DEF IInv
<1> QED
  BY <1>1, InvariantHolds, PTL

\* SQL_AGENT_FAILURES is staged for job runs that are stored, and for no other.
THEOREM SummariesAlwaysStored == Spec => []SummarizedAreStored
<1>1. IInv => SummarizedAreStored
  BY DEF IInv
<1> QED
  BY <1>1, InvariantHolds, PTL

\* A synchronization records the whole catalog or changes nothing, the latter only
\* when an id of the catalog is held by the row of another name.
THEOREM SyncOutcomeAlways == Spec => SyncOutcome
<1>1. IInv /\ [Next]_vars => [SyncOutcomeStep]_vars
  <2> SUFFICES ASSUME IInv, Next, pc = "sync", pc' = "deadlocks"
               PROVE  \/ \A n \in Present : dimDatabase'[n] = catalog[n]
                      \/ dimDatabase' = dimDatabase /\ IdTaken
    BY DEF SyncOutcomeStep
  <2>1. Sync
    BY DEF Next, Target, Run, SyncDatabases, CollectDeadlocks, CollectAgent, CollectBackups, StartRun
  <2>2. PICK o \in Orders : dimDatabase' = IF Rejected(o) THEN dimDatabase ELSE Upserted
    BY <2>1 DEF Sync
  <2>3. CASE Rejected(o)
    BY <2>2, <2>3, RejectedMeansTaken
  <2>4. CASE ~Rejected(o)
    BY <2>2, <2>4 DEF Upserted, Present
  <2> QED
    BY <2>3, <2>4
<1> QED
  BY <1>1, InvariantHolds, PTL DEF Spec, SyncOutcome
=============================================================================
