----------------------------- MODULE QueryDeltas -----------------------------
(***************************************************************************)
(* Query statistics from the plan cache to the panel: QUERY_STATS_QUERY    *)
(* takes the top entries of sys.dm_exec_query_stats, each run stores them  *)
(* in fact.fact_query_stat, and grafana/queries/13_top_queries_by_delta.sql *)
(* turns the cumulative counters it finds there into increases.            *)
(*                                                                         *)
(* An entry's counters grow while it stays in the cache and start again    *)
(* when it is compiled anew.  The counter here is total_worker_time, which *)
(* the query orders by and the panel sorts by (cpu_seconds); the panel     *)
(* drops a sample when any counter went back, which they do together.  An  *)
(* entry without a database, whose row the collector skips, only takes a   *)
(* place of TOP, as an entry with other hashes does.                       *)
(* Several entries may have one pair of hashes in one database, which is   *)
(* what the table's UNIQUE constraint and the panel go by: KeyOf.          *)
(***************************************************************************)
EXTENDS Integers, Sequences, FiniteSetsExt, SequencesExt

CONSTANTS
    Entries,        \* entries of the plan cache
    KeyOf,          \* KeyOf[e]: database, query_hash and query_plan_hash of e
    Top,            \* rows the query takes: 20
    MaxWork,        \* bound: what the entries do in all
    MaxSnapshots    \* bound: runs that come to their query statistics

ASSUME PlanCacheAssumption == IsFiniteSet(Entries)

VARIABLES
    cached,         \* cached[e]: counter of e, 0 when it is not in the cache
    done,           \* done[e]: what e did in all, which the platform never sees
    queryStat,      \* fact.fact_query_stat, in the order of query_stat_key; done is not
                    \* a column of it but the truth the totals are compared with
    snapshots       \* runs that came to their query statistics

queryVars == <<cached, done, queryStat, snapshots>>

QueryInit == /\ cached = [e \in Entries |-> 0] /\ done = cached
             /\ queryStat = <<>> /\ snapshots = 0

Execute(e) == /\ FoldFunction(+, 0, done) < MaxWork
              /\ cached' = [cached EXCEPT ![e] = @ + 1]
              /\ done' = [done EXCEPT ![e] = @ + 1]
              /\ UNCHANGED <<queryStat, snapshots>>

\* Memory pressure, a recompilation, a restart: the counters are gone.
Evict(e) == /\ cached[e] > 0
            /\ cached' = [cached EXCEPT ![e] = 0]
            /\ UNCHANGED <<done, queryStat, snapshots>>

\* What the query may return: the top entries, those with the most work first.
IsResult(s) ==
    LET in == {e \in Entries : cached[e] > 0} IN
    /\ Len(s) = IF Cardinality(in) < Top THEN Cardinality(in) ELSE Top
    /\ ToSet(s) \subseteq in /\ Cardinality(ToSet(s)) = Len(s)
    /\ \A i \in 1..Len(s) : \A e \in in \ {s[j] : j \in 1..i} : cached[e] <= cached[s[i]]

Results == {s \in UNION {[1..n -> Entries] : n \in 1..Top} : IsResult(s)}

\* Mutant: the table without uq_fact_query_stat_snapshot.
NeverRepeats(s) == FALSE

\* Rows of one snapshot that meet uq_fact_query_stat_snapshot.
Repeats(s) == \E i, j \in DOMAIN s : i # j /\ KeyOf[s[i]] = KeyOf[s[j]]

\* collect_query_metrics and the INSERT of its rows: all of them, or none when two
\* have one key.  When the query returns none, nothing is stored and nothing changes.
CollectQueryStats ==
    /\ snapshots < MaxSnapshots /\ snapshots' = snapshots + 1
    /\ \E s \in Results :
           queryStat' = IF Repeats(s) THEN queryStat
                        ELSE queryStat \o
                             [i \in 1..Len(s) |-> [collectedAt |-> snapshots', entry |-> s[i],
                                                   total |-> cached[s[i]], done |-> done]]
    /\ UNCHANGED <<cached, done>>

QueryNext == (\E e \in Entries : Execute(e) \/ Evict(e)) \/ CollectQueryStats

QuerySpec == QueryInit /\ [][QueryNext]_queryVars

-----------------------------------------------------------------------------
(***************************************************************************)
(* The panel, for the range that begins at from and ends now.              *)
(***************************************************************************)
Keys == {KeyOf[e] : e \in Entries}

RowsOf(k) == {n \in DOMAIN queryStat : KeyOf[queryStat[n].entry] = k}

\* The CTEs in_range, previous (the last row before the range) and samples.
InRange(k, from)  == {n \in RowsOf(k) : queryStat[n].collectedAt >= from}
Previous(k, from) == LET before == RowsOf(k) \ InRange(k, from)
                     IN  {n \in before : \A m \in before : m <= n}

\* Mutant: no row from before the range.
SamplesInRange(k, from) == InRange(k, from)

Samples(k, from) == Previous(k, from) \cup InRange(k, from)

\* LAG over the samples S; a counter that went back is ignored.
Delta(S, n) ==
    LET before == {m \in S : m < n} IN
    IF before = {} \/ queryStat[n].total < queryStat[Max(before)].total THEN 0
    ELSE queryStat[n].total - queryStat[Max(before)].total

Reported(k, from) ==
    LET S == Samples(k, from) IN MapThenSumSet(LAMBDA n : Delta(S, n), InRange(k, from))

-----------------------------------------------------------------------------
(***************************************************************************)
(* Properties.                                                             *)
(***************************************************************************)
Work(k, n) == MapThenSumSet(LAMBDA e : queryStat[n].done[e], {e \in Entries : KeyOf[e] = k})

\* The rows of k from the one the range starts at.
Seen(k, from) == Previous(k, from) \cup InRange(k, from)

\* What the entries of k did between the first and the last of them.
Increase(k, from) == LET S == Seen(k, from)
                     IN  IF S = {} THEN 0 ELSE Work(k, Max(S)) - Work(k, Min(S))

Froms == 1..(snapshots + 1)

\* "counter increases over the selected time range" (13_top_queries_by_delta.sql):
\* the panel never shows more CPU time than was used since the sample it begins at,
\* whatever was evicted, reset, cut off by TOP, rejected, or replaced by another entry
\* with the same hashes, and wherever the range begins.
NeverOverstated ==
    \A k \in Keys : \A from \in Froms : Reported(k, from) <= Increase(k, from)

\* The rows S are of e, whose counter did not start again between two of them.
Steady(S, e) == /\ \A n \in S : queryStat[n].entry = e
                /\ \A m, n \in S : queryStat[n].total - queryStat[m].total
                                       = queryStat[n].done[e] - queryStat[m].done[e]

\* And it shows no less: of an entry that stays in the cache every unit of work is
\* in the sum, though snapshots in between missed it or were rejected.
SteadyIsExact ==
    \A k \in Keys : \A from \in Froms : \A e \in Entries :
        LET S == Seen(k, from) IN
        Steady(S, e) /\ S # {} =>
            Reported(k, from) = queryStat[Max(S)].done[e] - queryStat[Min(S)].done[e]
=============================================================================
