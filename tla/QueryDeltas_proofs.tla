------------------------- MODULE QueryDeltas_proofs -------------------------
(***************************************************************************)
(* Proofs about QueryDeltas, for every plan cache, TOP, range and number   *)
(* of snapshots.                                                           *)
(***************************************************************************)
EXTENDS QueryDeltas, FiniteSetTheorems, WellFoundedInduction, TLAPS

-----------------------------------------------------------------------------
(***************************************************************************)
(* Sums over finite sets.  An induction is an argument about the least     *)
(* counterexample, a set of the smallest size.                             *)
(***************************************************************************)
\* A set of natural numbers has a least one.
LEMMA Least ==
    ASSUME NEW T, T \subseteq Nat, T # {}
    PROVE  \E n \in T : \A m \in T : n <= m
<1>1. IsWellFoundedOn(OpToRel(<, Nat), Nat)
  BY NatLessThanWellFounded
<1>2. PICK n \in T : \A m \in T : ~(<<m, n>> \in OpToRel(<, Nat))
  BY <1>1, WFMin
<1>3. \A m \in T : ~(m < n)
  BY <1>2 DEF OpToRel
<1> QED
  BY <1>3

\* it is the sum of g over the subsets of S, as the fold MapThenSumSet defines it:
\* an element picked, and the sum over the others.
Pick(s) == CHOOSE x \in s : TRUE

SumOf(it, g, s) == IF s = {} THEN 0 ELSE g[Pick(s)] + it[s \ {Pick(s)}]

IsSum(it, g, S) == it = [s \in SUBSET S |-> SumOf(it, g, s)]

\* What remains after an element is taken out has one less.
LEMMA Picked ==
    ASSUME NEW S, IsFiniteSet(S), NEW s \in SUBSET S, s # {}
    PROVE  /\ Pick(s) \in s /\ s \ {Pick(s)} \in SUBSET S
           /\ IsFiniteSet(s) /\ Cardinality(s) \in Nat
           /\ \A y \in s : /\ s \ {y} \in SUBSET S /\ IsFiniteSet(s \ {y})
                           /\ Cardinality(s \ {y}) \in Nat
                           /\ Cardinality(s \ {y}) = Cardinality(s) - 1
<1>1. Pick(s) \in s
  BY DEF Pick
<1>2. IsFiniteSet(s) /\ Cardinality(s) \in Nat
  BY FS_Subset, FS_CardinalityType
<1>3. ASSUME NEW y \in s
      PROVE  /\ IsFiniteSet(s \ {y}) /\ Cardinality(s \ {y}) \in Nat
             /\ Cardinality(s \ {y}) = Cardinality(s) - 1
  BY <1>2, <1>3, FS_RemoveElement, FS_CardinalityType
<1> QED
  BY <1>1, <1>2, <1>3

\* The recursive definition of a sum defines a function.
LEMMA SumExists ==
    ASSUME NEW S, IsFiniteSet(S), NEW g
    PROVE  \E it : IsSum(it, g, S)
<1> DEFINE D(n) == {s \in SUBSET S : Cardinality(s) <= n}
           Defines(f, n) == f = [s \in D(n) |-> SumOf(f, g, s)]
           Bad == {n \in Nat : ~\E f : Defines(f, n)}
<1>1. \A s \in SUBSET S : IsFiniteSet(s) /\ Cardinality(s) \in Nat
  BY FS_Subset, FS_CardinalityType
<1>2. Bad = {}
  <2> SUFFICES ASSUME Bad # {} PROVE FALSE
    OBVIOUS
  <2>1. PICK n \in Bad : \A m \in Bad : n <= m
    BY Least
  <2>2. CASE n = 0
    <3> DEFINE f == [s \in D(0) |-> 0]
    <3>1. \A s \in D(0) : s = {}
      BY <1>1, FS_EmptySet
    <3>2. f = [s \in D(0) |-> SumOf(f, g, s)]
      BY <3>1 DEF SumOf
    <3> QED
      BY <2>2, <3>2
  <2>3. CASE n # 0
    <3>1. n \in Nat /\ n - 1 \in Nat /\ n - 1 \notin Bad
      <4>1. n \in Nat /\ \A m \in Bad : n <= m
        BY <2>1
      <4> HIDE DEF Bad
      <4> QED
        BY <2>3, <4>1
    <3>2. PICK f : Defines(f, n - 1)
      BY <3>1
    <3> DEFINE h == [s \in D(n) |-> SumOf(f, g, s)]
    <3>3. ASSUME NEW s \in D(n), s # {}
          PROVE  h[s \ {Pick(s)}] = f[s \ {Pick(s)}]
      <4> DEFINE t == s \ {Pick(s)}
      <4>1. /\ t \in SUBSET S /\ Cardinality(t) = Cardinality(s) - 1
            /\ Cardinality(s) \in Nat /\ Cardinality(s) <= n
        BY <3>3, Picked
      <4>2. t \in D(n - 1) /\ t \in D(n)
        BY <3>1, <4>1
      <4>3. h[t] = SumOf(f, g, t)
        BY <4>2
      <4>4. f[t] = SumOf(f, g, t)
        BY <3>2, <4>2
      <4> QED
        BY <4>3, <4>4
    <3>4. \A s \in D(n) : SumOf(f, g, s) = SumOf(h, g, s)
      <4> HIDE DEF h
      <4> QED
        BY <3>3 DEF SumOf
    <3>5. Defines(h, n)
      <4> DEFINE k == [s \in D(n) |-> SumOf(h, g, s)]
      <4>1. h = k
        BY <3>4
      <4> QED
        BY <4>1
    <3> QED
      BY <3>5
  <2> QED
    BY <2>2, <2>3
<1>3. Cardinality(S) \in Nat
  BY FS_CardinalityType
<1>4. D(Cardinality(S)) = SUBSET S
  BY <1>1, FS_Subset
<1>5. PICK f : Defines(f, Cardinality(S))
  BY <1>2, <1>3
<1>6. IsSum(f, g, S)
  BY <1>4, <1>5 DEF IsSum
<1> QED
  BY <1>6

Splits(it, g, s) == it[s] \in Int /\ \A y \in s : it[s] = g[y] + it[s \ {y}]

\* A sum of integers is one, and any element can be taken out first.
LEMMA SumSplits ==
    ASSUME NEW S, IsFiniteSet(S), NEW g \in [S -> Int], NEW it, IsSum(it, g, S)
    PROVE  \A s \in SUBSET S : Splits(it, g, s)
<1> DEFINE Bad == {s \in SUBSET S : ~Splits(it, g, s)}
           T == {Cardinality(s) : s \in Bad}
<1>1. \A s \in SUBSET S : it[s] = SumOf(it, g, s)
  BY DEF IsSum
<1>2. SUFFICES ASSUME Bad # {} PROVE FALSE
  OBVIOUS
<1>3. T \subseteq Nat /\ T # {}
  BY <1>2, FS_Subset, FS_CardinalityType
<1>4. PICK n \in T : \A m \in T : n <= m
  BY <1>3, Least
<1>5. PICK s \in Bad : n = Cardinality(s)
  OBVIOUS
<1>6. \A t \in SUBSET S : Cardinality(t) \in Nat /\ Cardinality(t) < n => Splits(it, g, t)
  BY <1>3, <1>4
<1> HIDE DEF Bad
<1>7. s \in SUBSET S /\ ~Splits(it, g, s)
  BY DEF Bad
<1>8. CASE s = {}
  <2>1. it[s] = 0
    BY <1>1, <1>7, <1>8 DEF SumOf
  <2> QED
    BY <1>7, <1>8, <2>1 DEF Splits
<1>9. CASE s # {}
  <2> DEFINE x == Pick(s)
  <2>1. x \in s /\ x \in S /\ it[s] = g[x] + it[s \ {x}]
    BY <1>1, <1>7, <1>9, Picked DEF SumOf
  <2> HIDE DEF x
  <2>2. \A y \in s : s \ {y} \in SUBSET S /\ Splits(it, g, s \ {y})
    BY <1>3, <1>5, <1>6, <1>7, <1>9, Picked
  <2>3. it[s] \in Int
    <3>1. g[x] \in Int /\ it[s \ {x}] \in Int
      BY <2>1, <2>2 DEF Splits
    <3> QED
      BY <2>1, <3>1
  <2>4. ASSUME NEW y \in s, y # x
        PROVE  it[s] = g[y] + it[s \ {y}]
    <3> DEFINE u == (s \ {x}) \ {y}
    <3>1. u = (s \ {y}) \ {x} /\ y \in s \ {x} /\ x \in s \ {y}
      BY <2>1, <2>4
    <3>2. it[s \ {x}] = g[y] + it[u] /\ it[s \ {y}] = g[x] + it[u]
      BY <2>1, <2>2, <3>1 DEF Splits
    <3>3. /\ it[s \ {x}] \in Int /\ it[s \ {y}] \in Int
          /\ g[x] \in Int /\ g[y] \in Int
      BY <1>7, <2>1, <2>2 DEF Splits
    <3>4. u \in SUBSET S /\ Cardinality(u) \in Nat /\ Cardinality(u) < n
      <4>1. s \ {x} \in SUBSET S /\ Cardinality(s \ {x}) = n - 1 /\ n \in Nat
        BY <1>3, <1>5, <1>7, <1>9, <2>1, Picked
      <4> DEFINE r == s \ {x}
      <4>2. r \in SUBSET S /\ r # {} /\ y \in r
        BY <3>1, <4>1
      <4> HIDE DEF r
      <4>3. /\ r \ {y} \in SUBSET S /\ Cardinality(r \ {y}) \in Nat
            /\ Cardinality(r \ {y}) = Cardinality(r) - 1
        BY <4>2, Picked
      <4> QED
        BY <4>1, <4>3 DEF r
    <3>5. it[u] \in Int
      BY <1>6, <3>4 DEF Splits
    <3> HIDE DEF u
    <3> QED
      BY <2>1, <3>2, <3>3, <3>5
  <2> QED
    BY <1>7, <2>1, <2>3, <2>4 DEF Splits
<1> QED
  BY <1>8, <1>9

\* A sum of larger numbers is larger.
LEMMA SumMonotone ==
    ASSUME NEW S, IsFiniteSet(S), NEW f \in [S -> Int], NEW g \in [S -> Int],
           \A x \in S : f[x] <= g[x],
           NEW i, IsSum(i, f, S), NEW j, IsSum(j, g, S)
    PROVE  \A s \in SUBSET S : i[s] <= j[s]
<1> DEFINE Bad == {s \in SUBSET S : ~(i[s] <= j[s])}
           T == {Cardinality(s) : s \in Bad}
<1>1. SUFFICES ASSUME Bad # {} PROVE FALSE
  OBVIOUS
<1>2. T \subseteq Nat /\ T # {}
  BY <1>1, FS_Subset, FS_CardinalityType
<1>3. PICK n \in T : \A m \in T : n <= m
  BY <1>2, Least
<1>4. PICK s \in Bad : n = Cardinality(s)
  OBVIOUS
<1>5. \A t \in SUBSET S : Cardinality(t) \in Nat /\ Cardinality(t) < n => i[t] <= j[t]
  BY <1>2, <1>3
<1> HIDE DEF Bad
<1>6. s \in SUBSET S /\ ~(i[s] <= j[s])
  BY DEF Bad
<1>7. CASE s = {}
  BY <1>6, <1>7 DEF IsSum, SumOf
<1>8. CASE s # {}
  <2>1. PICK x \in s : TRUE
    BY <1>8
  <2>2. /\ s \ {x} \in SUBSET S /\ Cardinality(s \ {x}) \in Nat
        /\ Cardinality(s \ {x}) < n
    <3>1. /\ s \ {x} \in SUBSET S /\ Cardinality(s) \in Nat
          /\ Cardinality(s \ {x}) \in Nat
          /\ Cardinality(s \ {x}) = Cardinality(s) - 1
      BY <1>6, <1>8, Picked
    <3> QED
      BY <1>4, <3>1
  <2>3. i[s \ {x}] <= j[s \ {x}]
    BY <1>5, <2>2
  <2>4. i[s] = f[x] + i[s \ {x}] /\ i[s \ {x}] \in Int
    <3>1. Splits(i, f, s) /\ Splits(i, f, s \ {x})
      BY <1>6, <2>2, SumSplits
    <3> QED
      BY <3>1 DEF Splits
  <2>5. j[s] = g[x] + j[s \ {x}] /\ j[s \ {x}] \in Int
    <3>1. Splits(j, g, s) /\ Splits(j, g, s \ {x})
      BY <1>6, <2>2, SumSplits
    <3> QED
      BY <3>1 DEF Splits
  <2>6. f[x] \in Int /\ g[x] \in Int /\ f[x] <= g[x]
    BY <1>6
  <2> QED
    BY <1>6, <2>3, <2>4, <2>5, <2>6
<1> QED
  BY <1>7, <1>8

-----------------------------------------------------------------------------
(***************************************************************************)
(* The rows.  Between two of them that the panel takes for one query the   *)
(* counter grew by no more than the entry of the later one did, though the *)
(* earlier one may be of another entry: the query takes the entries with   *)
(* the most work first and the table takes one row of each key, so a row   *)
(* is of the entry with the largest counter among those with its key.      *)
(***************************************************************************)
Row == [collectedAt : Nat, entry : Entries, total : Nat, done : [Entries -> Nat]]

TypeInv == /\ cached \in [Entries -> Nat] /\ done \in [Entries -> Nat]
           /\ snapshots \in Nat /\ queryStat \in Seq(Row)

\* What a row says of the entries with its key now.
Bounds(a) == /\ a.collectedAt <= snapshots
             /\ \A e \in Entries :
                   /\ a.done[e] <= done[e]
                   /\ KeyOf[e] = KeyOf[a.entry] =>
                          cached[e] - a.total <= done[e] - a.done[e]

\* What a row says of a later one.
Precedes(a, b) == /\ a.collectedAt <= b.collectedAt
                  /\ \A e \in Entries : a.done[e] <= b.done[e]
                  /\ KeyOf[a.entry] = KeyOf[b.entry] =>
                         b.total - a.total <= b.done[b.entry] - a.done[b.entry]

RowsBound   == \A n \in DOMAIN queryStat : Bounds(queryStat[n])
RowsOrdered == \A m, n \in DOMAIN queryStat :
                   m < n => Precedes(queryStat[m], queryStat[n])

RowsInv == TypeInv /\ RowsBound /\ RowsOrdered

LEMMA InitRows == QueryInit => RowsInv
<1> SUFFICES ASSUME QueryInit PROVE RowsInv
  OBVIOUS
<1>1. TypeInv
  BY DEF QueryInit, TypeInv
<1>2. DOMAIN queryStat = {}
  BY DEF QueryInit
<1> QED
  BY <1>1, <1>2 DEF RowsInv, RowsBound, RowsOrdered

LEMMA ExecuteRows ==
    ASSUME RowsInv, NEW e \in Entries, Execute(e)
    PROVE  RowsInv'
<1>1. /\ cached' = [cached EXCEPT ![e] = @ + 1] /\ done' = [done EXCEPT ![e] = @ + 1]
      /\ queryStat' = queryStat /\ snapshots' = snapshots
  BY DEF Execute
<1>2. TypeInv'
  BY <1>1 DEF RowsInv, TypeInv
<1>3. RowsOrdered'
  BY <1>1 DEF RowsInv, RowsOrdered, Precedes
<1>4. ASSUME NEW a \in Row, Bounds(a) PROVE Bounds(a)'
  <2>1. ASSUME NEW x \in Entries
        PROVE  /\ cached[x] \in Nat /\ done[x] \in Nat
               /\ a.done[x] \in Nat /\ a.total \in Nat
               /\ cached'[x] = IF x = e THEN cached[x] + 1 ELSE cached[x]
               /\ done'[x] = IF x = e THEN done[x] + 1 ELSE done[x]
    BY <1>1, <1>4 DEF RowsInv, TypeInv, Row
  <2> QED
    BY <1>1, <1>4, <2>1 DEF Bounds
<1>5. RowsBound'
  BY <1>1, <1>4 DEF RowsInv, TypeInv, RowsBound
<1> QED
  BY <1>2, <1>3, <1>5 DEF RowsInv

LEMMA EvictRows ==
    ASSUME RowsInv, NEW e \in Entries, Evict(e)
    PROVE  RowsInv'
<1>1. /\ cached' = [cached EXCEPT ![e] = 0]
      /\ done' = done /\ queryStat' = queryStat /\ snapshots' = snapshots
  BY DEF Evict
<1>2. TypeInv'
  BY <1>1 DEF RowsInv, TypeInv
<1>3. RowsOrdered'
  BY <1>1 DEF RowsInv, RowsOrdered, Precedes
<1>4. ASSUME NEW a \in Row, Bounds(a) PROVE Bounds(a)'
  <2>1. ASSUME NEW x \in Entries
        PROVE  /\ cached[x] \in Nat /\ done[x] \in Nat
               /\ a.done[x] \in Nat /\ a.total \in Nat
               /\ cached'[x] = IF x = e THEN 0 ELSE cached[x]
    BY <1>1, <1>4 DEF RowsInv, TypeInv, Row
  <2> QED
    BY <1>1, <1>4, <2>1 DEF Bounds
<1>5. RowsBound'
  BY <1>1, <1>4 DEF RowsInv, TypeInv, RowsBound
<1> QED
  BY <1>2, <1>3, <1>5 DEF RowsInv

\* No entry with the key of a returned one has a larger counter.
LEMMA ResultIsLargest ==
    ASSUME TypeInv, NEW s \in Results, ~Repeats(s)
    PROVE  /\ s \in Seq(Entries) /\ DOMAIN s = 1..Len(s)
           /\ \A i \in 1..Len(s) : \A e \in Entries :
                  KeyOf[e] = KeyOf[s[i]] => cached[e] <= cached[s[i]]
<1>1. s \in Seq(Entries) /\ DOMAIN s = 1..Len(s) /\ IsResult(s)
  BY DEF Results
<1>2. ASSUME NEW i \in 1..Len(s), NEW e \in Entries, KeyOf[e] = KeyOf[s[i]]
      PROVE  cached[e] <= cached[s[i]]
  <2> s[i] \in Entries
    BY <1>1
  <2>1. CASE cached[e] > 0 /\ e \notin {s[j] : j \in 1..i}
    <3>1. e \in {x \in Entries : cached[x] > 0} \ {s[j] : j \in 1..i}
      BY <2>1
    <3> QED
      BY <1>1, <3>1 DEF IsResult
  <2>2. CASE ~(cached[e] > 0)
    BY <2>2 DEF TypeInv
  <2>3. CASE e \in {s[j] : j \in 1..i}
    <3>1. PICK j \in 1..i : e = s[j]
      BY <2>3
    <3>2. j = i
      BY <1>1, <1>2, <3>1 DEF Repeats
    <3> QED
      BY <3>1, <3>2 DEF TypeInv
  <2> QED
    BY <2>1, <2>2, <2>3
<1> QED
  BY <1>1, <1>2

LEMMA CollectRows ==
    ASSUME RowsInv, CollectQueryStats
    PROVE  RowsInv'
<1> USE DEF RowsInv
<1>1. PICK s \in Results :
          queryStat' = IF Repeats(s) THEN queryStat
                       ELSE queryStat \o
                            [i \in 1..Len(s) |-> [collectedAt |-> snapshots', entry |-> s[i],
                                                  total |-> cached[s[i]], done |-> done]]
  BY DEF CollectQueryStats
<1>2. /\ snapshots' = snapshots + 1 /\ snapshots \in Nat
      /\ cached' = cached /\ done' = done /\ queryStat \in Seq(Row)
  BY DEF CollectQueryStats, TypeInv
<1>3. ASSUME NEW a \in Row, Bounds(a) PROVE Bounds(a)'
  BY <1>2, <1>3 DEF Bounds, Row
<1>4. CASE Repeats(s)
  <2>1. queryStat' = queryStat
    BY <1>1, <1>4
  <2>2. TypeInv'
    BY <1>2, <2>1 DEF TypeInv
  <2>3. RowsOrdered'
    BY <2>1 DEF RowsOrdered, Precedes
  <2>4. RowsBound'
    BY <1>2, <1>3, <2>1 DEF RowsBound
  <2> QED
    BY <2>2, <2>3, <2>4
<1>5. CASE ~Repeats(s)
  <2> DEFINE new == [i \in 1..Len(s) |-> [collectedAt |-> snapshots + 1, entry |-> s[i],
                                          total |-> cached[s[i]], done |-> done]]
             L == Len(queryStat)
  <2>1. /\ s \in Seq(Entries) /\ DOMAIN s = 1..Len(s)
        /\ \A i \in 1..Len(s) : \A e \in Entries :
               KeyOf[e] = KeyOf[s[i]] => cached[e] <= cached[s[i]]
    BY <1>5, ResultIsLargest
  <2>2. \A i \in 1..Len(s) :
            /\ new[i] \in Row /\ new[i].collectedAt = snapshots + 1
            /\ new[i].entry = s[i] /\ s[i] \in Entries
            /\ new[i].total = cached[s[i]] /\ new[i].done = done
    BY <1>2, <2>1 DEF TypeInv, Row
  <2>3. new \in Seq(Row) /\ Len(new) = Len(s) /\ queryStat' = queryStat \o new
    BY <1>1, <1>2, <1>5, <2>1, <2>2
  <2> HIDE DEF new
  <2>4. /\ queryStat' \in Seq(Row) /\ L \in Nat /\ DOMAIN queryStat = 1..L
        /\ DOMAIN queryStat' = 1..(L + Len(s)) /\ Len(s) \in Nat
        /\ \A n \in 1..L : queryStat'[n] = queryStat[n] /\ queryStat[n] \in Row
        /\ \A n \in 1..(L + Len(s)) :
               n \notin 1..L => n - L \in 1..Len(s) /\ queryStat'[n] = new[n - L]
    <3> HIDE DEF RowsInv
    <3>1. queryStat \in Seq(Row) /\ new \in Seq(Row) /\ Len(new) = Len(s)
      BY <1>2, <2>3
    <3>2. /\ queryStat \o new \in Seq(Row)
          /\ Len(queryStat \o new) = Len(queryStat) + Len(new)
          /\ \A n \in 1..(Len(queryStat) + Len(new)) :
                 (queryStat \o new)[n] = IF n <= Len(queryStat) THEN queryStat[n]
                                         ELSE new[n - Len(queryStat)]
      BY <3>1
    <3>3. Len(queryStat) \in Nat /\ Len(new) \in Nat
      BY <3>1
    <3> QED
      BY <2>3, <3>1, <3>2, <3>3
  <2> HIDE DEF L
  <2>5. TypeInv'
    BY <1>2, <2>4 DEF TypeInv
  <2>6. ASSUME NEW i \in 1..Len(s), NEW a, a = new[i] PROVE Bounds(a)'
    <3>1. ASSUME NEW e \in Entries
          PROVE  cached[e] \in Nat /\ done[e] \in Nat
      BY DEF TypeInv
    <3>2. cached[s[i]] \in Nat
      BY <2>2 DEF TypeInv
    <3> QED
      BY <1>2, <2>1, <2>2, <2>6, <3>1, <3>2 DEF Bounds
  <2>7. RowsBound'
    <3> SUFFICES ASSUME NEW n \in DOMAIN queryStat', NEW a, a = queryStat'[n]
                 PROVE  Bounds(a)'
      BY DEF RowsBound, Bounds
    <3>1. CASE n \in 1..L
      BY <1>3, <2>4, <3>1 DEF RowsBound
    <3>2. CASE n \notin 1..L
      BY <2>4, <2>6, <3>2
    <3> QED
      BY <3>1, <3>2
  <2>8. ASSUME NEW a \in Row, Bounds(a), NEW i \in 1..Len(s)
        PROVE  Precedes(a, new[i])
    <3>1. a.collectedAt \in Nat /\ a.collectedAt <= snapshots
      BY <2>8 DEF Bounds, Row
    <3> QED
      BY <1>2, <2>2, <2>8, <3>1 DEF Precedes, Bounds
  <2>9. ASSUME NEW i \in 1..Len(s), NEW j \in 1..Len(s), i < j
        PROVE  Precedes(new[i], new[j])
    <3>1. KeyOf[s[i]] # KeyOf[s[j]]
      BY <1>5, <2>1, <2>9 DEF Repeats
    <3>2. \A e \in Entries : done[e] \in Nat
      BY DEF TypeInv
    <3> QED
      BY <1>2, <2>2, <3>1, <3>2 DEF Precedes
  <2>10. RowsOrdered'
    <3> SUFFICES ASSUME NEW m \in DOMAIN queryStat', NEW n \in DOMAIN queryStat', m < n
                 PROVE  Precedes(queryStat'[m], queryStat'[n])
      BY DEF RowsOrdered, Precedes
    <3>1. CASE n \in 1..L
      BY <2>4, <3>1 DEF RowsOrdered
    <3>2. CASE m \in 1..L /\ n \notin 1..L
      BY <2>4, <2>8, <3>2 DEF RowsBound
    <3>3. CASE m \notin 1..L /\ n \notin 1..L
      BY <2>4, <2>9, <3>3
    <3> QED
      BY <2>4, <3>1, <3>2, <3>3
  <2> QED
    BY <2>5, <2>7, <2>10
<1> QED
  BY <1>4, <1>5

LEMMA StepRows == RowsInv /\ [QueryNext]_queryVars => RowsInv'
<1> SUFFICES ASSUME RowsInv, [QueryNext]_queryVars PROVE RowsInv'
  OBVIOUS
<1>1. ASSUME NEW e \in Entries, Execute(e) PROVE RowsInv'
  BY <1>1, ExecuteRows
<1>2. ASSUME NEW e \in Entries, Evict(e) PROVE RowsInv'
  BY <1>2, EvictRows
<1>3. CASE CollectQueryStats
  BY <1>3, CollectRows
<1>4. CASE UNCHANGED queryVars
  BY <1>4 DEF queryVars, RowsInv, TypeInv, RowsBound, RowsOrdered, Bounds, Precedes
<1> QED
  BY <1>1, <1>2, <1>3, <1>4 DEF QueryNext

LEMMA SpecRows == QuerySpec => []RowsInv
<1> QED
  BY InitRows, StepRows, PTL DEF QuerySpec

-----------------------------------------------------------------------------
(***************************************************************************)
(* The panel.  The increases it adds up are differences of neighbouring    *)
(* samples, each no larger than what the entries of the key did between    *)
(* the two, so their sum is no larger than what these did between the      *)
(* first and the last.                                                     *)
(***************************************************************************)
\* Min and Max of the numbers of rows are what their names say.
LEMMA MinIsLeast ==
    ASSUME NEW S, S \subseteq Nat, S # {}
    PROVE  Min(S) \in S /\ \A m \in S : Min(S) <= m
<1>1. \E n \in S : \A m \in S : n <= m
  BY Least
<1> QED
  BY <1>1, Zenon DEF Min

LEMMA MaxIsGreatest ==
    ASSUME NEW N \in Nat, NEW S, S \subseteq 0..N, S # {}
    PROVE  Max(S) \in S /\ \A m \in S : m <= Max(S)
<1> DEFINE T == {N - m : m \in S}
<1>1. T \subseteq Nat /\ T # {}
  <2>1. \A m \in S : N - m \in Nat
    OBVIOUS
  <2> QED
    BY <2>1
<1>2. PICK t \in T : \A u \in T : t <= u
  BY <1>1, Least
<1>3. PICK n \in S : t = N - n
  BY <1>2
<1>4. \A m \in S : n >= m
  <2> SUFFICES ASSUME NEW m \in S PROVE n >= m
    OBVIOUS
  <2>1. N - n <= N - m
    BY <1>2, <1>3
  <2>2. m \in Int /\ n \in Int
    OBVIOUS
  <2> QED
    BY <2>1, <2>2
<1>5. Max(S) \in S /\ \A m \in S : Max(S) >= m
  BY <1>3, <1>4, Zenon DEF Max
<1>6. \A m \in S : m \in Int
  OBVIOUS
<1> QED
  BY <1>5, <1>6

\* The numbers of T that a partial sum runs over.
UpTo(T, n) == {m \in T : m <= n}

\* T is S, or S without its first number.
LastOf(T, S) == /\ T \subseteq S
              /\ \A x \in S \ T : (\A y \in T : x < y) /\ (\A y \in S \ T : x = y)

\* Numbers that differences may be short by.
Slack(Z) == Z \subseteq Int /\ 0 \in Z /\ \A a, b \in Z : a + b \in Z

\* d are the differences of neighbouring values of w, each short by a number of Z.
Differences(d, w, T, S, Z) ==
    /\ d \in [T -> Int] /\ w \in [S -> Int]
    /\ \A n \in T : LET before == {m \in S : m < n} IN
           IF before = {} THEN d[n] = 0 ELSE (w[n] - w[Max(before)]) - d[n] \in Z

\* The least number of S, and the sum there.
LEMMA TelescopeFirst ==
    ASSUME NEW S, S \subseteq Nat, NEW T, T \subseteq S, NEW Z, Slack(Z),
           NEW d, NEW w, Differences(d, w, T, S, Z), NEW it, NEW n \in T,
           \A m \in S : ~(m < n), it[{}] = 0,
           it[UpTo(T, n)] = d[n] + it[UpTo(T, n) \ {n}]
    PROVE  (w[n] - w[Min(S)]) - it[UpTo(T, n)] \in Z
<1>1. Min(S) \in S /\ \A m \in S : Min(S) <= m
  BY MinIsLeast
<1>2. n = Min(S)
  <2>1. ~(Min(S) < n) /\ Min(S) <= n
    BY <1>1
  <2>2. n \in Nat /\ Min(S) \in Nat
    BY <1>1
  <2> QED
    BY <2>1, <2>2
<1>3. UpTo(T, n) \ {n} = {}
  <2>1. ASSUME NEW m \in T, m <= n PROVE m = n
    <3>1. ~(m < n) /\ m \in Nat /\ n \in Nat
      OBVIOUS
    <3> QED
      BY <2>1, <3>1
  <2> QED
    BY <2>1 DEF UpTo
<1>4. it[UpTo(T, n)] = 0 + 0
  <2>1. {m \in S : m < n} = {}
    OBVIOUS
  <2>2. d[n] = 0
    BY <2>1 DEF Differences
  <2> QED
    BY <1>3, <2>2
<1>5. (w[n] - w[Min(S)]) - it[UpTo(T, n)] = 0
  <2>1. w[n] \in Int
    BY DEF Differences
  <2> QED
    BY <1>2, <1>4, <2>1
<1> QED
  BY <1>5 DEF Slack

\* The sum up to n, from the sum up to the number before it.
LEMMA TelescopeNext ==
    ASSUME NEW N \in Nat, NEW S, S \subseteq 0..N, NEW T, LastOf(T, S), NEW Z, Slack(Z),
           NEW d, NEW w, Differences(d, w, T, S, Z), NEW it, NEW n \in T,
           {m \in S : m < n} # {}, it[{}] = 0,
           it[UpTo(T, n)] = d[n] + it[UpTo(T, n) \ {n}], it[UpTo(T, n) \ {n}] \in Int,
           \A m \in T : m < n => (w[m] - w[Min(S)]) - it[UpTo(T, m)] \in Z
    PROVE  (w[n] - w[Min(S)]) - it[UpTo(T, n)] \in Z
<1> DEFINE before == {m \in S : m < n}
           p == Max(before)
           U == UpTo(T, n)
<1>1. n \in S /\ S # {} /\ S \subseteq Nat /\ T \subseteq S
  BY DEF LastOf
<1>2. Min(S) \in S /\ \A m \in S : Min(S) <= m
  BY <1>1, MinIsLeast
<1>3. p \in before /\ \A m \in before : m <= p
  <2>1. before \subseteq 0..N
    OBVIOUS
  <2> HIDE DEF before
  <2> QED
    BY <2>1, MaxIsGreatest DEF before
<1>4. (w[n] - w[p]) - d[n] \in Z
  BY DEF Differences
<1> HIDE DEF p
<1>5. p \in S /\ p < n /\ p \in Nat /\ n \in Nat /\ \A m \in S : m < n => m <= p
  BY <1>1, <1>3
<1> HIDE DEF before
<1>6. w[n] \in Int /\ w[p] \in Int /\ w[Min(S)] \in Int /\ d[n] \in Int
  BY <1>1, <1>2, <1>5 DEF Differences
<1>7. CASE p \in T
  <2>1. U \ {n} = UpTo(T, p)
    <3>1. \A m \in T : m \in Nat /\ (m < n => m <= p)
      BY <1>1, <1>5
    <3> QED
      BY <1>5, <3>1 DEF UpTo
  <2>2. (w[p] - w[Min(S)]) - it[U \ {n}] \in Z
    BY <1>5, <1>7, <2>1
  <2> DEFINE a == (w[p] - w[Min(S)]) - it[U \ {n}]
             b == (w[n] - w[p]) - d[n]
  <2>3. a + b \in Z
    BY <1>4, <2>2 DEF Slack
  <2>4. a + b = (w[n] - w[Min(S)]) - it[U]
    BY <1>6
  <2> QED
    BY <2>3, <2>4
<1>8. CASE p \notin T
  <2>1. \A y \in T : p < y
    BY <1>5, <1>8 DEF LastOf
  <2>2. U \ {n} = {}
    <3> SUFFICES ASSUME NEW m \in T, m <= n, m # n PROVE FALSE
      BY DEF UpTo
    <3>1. m \in Nat /\ m <= p /\ p < m
      BY <1>1, <1>5, <2>1
    <3> QED
      BY <1>5, <3>1
  <2>3. p = Min(S)
    <3>1. Min(S) <= p
      BY <1>2, <1>5
    <3>2. Min(S) \notin T
      <4>1. Min(S) \in Nat
        BY <1>1, <1>2
      <4> QED
        BY <1>5, <2>1, <3>1, <4>1
    <3> QED
      BY <1>2, <1>5, <1>8, <3>2 DEF LastOf
  <2>4. it[U] = d[n]
    <3>1. it[U \ {n}] = 0
      BY <2>2
    <3> QED
      BY <1>6, <3>1
  <2>5. (w[n] - w[p]) - d[n] = (w[n] - w[Min(S)]) - it[U]
    BY <2>3, <2>4
  <2> QED
    BY <1>4, <2>5
<1> QED
  BY <1>7, <1>8

\* The differences add up to the difference of the last and the first.
LEMMA Telescope ==
    ASSUME NEW N \in Nat, NEW S, S \subseteq 0..N, S # {}, NEW T, LastOf(T, S),
           NEW Z, Slack(Z), NEW d, NEW w, Differences(d, w, T, S, Z),
           NEW it, IsSum(it, d, T)
    PROVE  (w[Max(S)] - w[Min(S)]) - it[T] \in Z
<1> DEFINE Holds(n) == (w[n] - w[Min(S)]) - it[UpTo(T, n)] \in Z
           Bad == {n \in T : ~Holds(n)}
<1>1. S \subseteq Nat /\ T \subseteq S /\ T \subseteq Nat
  BY DEF LastOf
<1>2. IsFiniteSet(T) /\ d \in [T -> Int]
  <2>1. IsFiniteSet(0..N)
    BY FS_Interval
  <2> QED
    BY <1>1, <2>1, FS_Subset DEF Differences
<1>3. it[{}] = 0
  BY DEF IsSum, SumOf
<1>4. Bad = {}
  <2> SUFFICES ASSUME Bad # {} PROVE FALSE
    OBVIOUS
  <2>1. Bad \subseteq Nat
    BY <1>1
  <2>2. PICK n \in Bad : \A m \in Bad : n <= m
    BY <2>1, Least
  <2>3. n \in T /\ ~Holds(n) /\ n \in Nat
    BY <1>1, <2>2
  <2>4. \A m \in T : m < n => Holds(m)
    <3> SUFFICES ASSUME NEW m \in T, m < n, ~Holds(m) PROVE FALSE
      OBVIOUS
    <3>1. n <= m /\ m \in Nat
      BY <1>1, <2>2
    <3> QED
      BY <2>3, <3>1
  <2> DEFINE U == UpTo(T, n)
  <2>5. it[U] = d[n] + it[U \ {n}] /\ it[U \ {n}] \in Int
    <3>1. U \in SUBSET T /\ U \ {n} \in SUBSET T /\ n \in U
      BY <2>3 DEF UpTo
    <3>2. Splits(it, d, U) /\ Splits(it, d, U \ {n})
      BY <1>2, <3>1, SumSplits
    <3> QED
      BY <3>1, <3>2 DEF Splits
  <2>6. Holds(n)
    <3> HIDE DEF Bad
    <3>1. CASE {m \in S : m < n} = {}
      <4>1. it[UpTo(T, n)] = d[n] + it[UpTo(T, n) \ {n}]
        BY <2>5
      <4>2. \A m \in S : ~(m < n)
        BY <3>1
      <4> QED
        BY <1>1, <1>3, <2>3, <4>1, <4>2, TelescopeFirst
    <3>2. CASE {m \in S : m < n} # {}
      BY <1>3, <2>3, <2>4, <2>5, <3>2, TelescopeNext
    <3> QED
      BY <3>1, <3>2
  <2> QED
    BY <2>3, <2>6
<1>5. Max(S) \in S /\ \A m \in S : m <= Max(S)
  BY MaxIsGreatest
<1>6. Min(S) \in S /\ \A m \in S : Min(S) <= m
  BY <1>1, MinIsLeast
<1>7. CASE Max(S) \in T
  <2>1. T = UpTo(T, Max(S))
    BY <1>1, <1>5 DEF UpTo
  <2>2. Holds(Max(S))
    BY <1>4, <1>7
  <2> QED
    BY <2>1, <2>2
<1>8. CASE Max(S) \notin T
  <2>1. T = {}
    <3> SUFFICES ASSUME NEW y \in T PROVE FALSE
      OBVIOUS
    <3>1. Max(S) < y
      BY <1>5, <1>8 DEF LastOf
    <3>2. y <= Max(S) /\ y \in Nat /\ Max(S) \in Nat
      BY <1>1, <1>5
    <3> QED
      BY <3>1, <3>2
  <2>2. Max(S) = Min(S)
    BY <1>5, <1>6, <1>8, <2>1 DEF LastOf
  <2>3. w[Min(S)] \in Int
    BY <1>6 DEF Differences
  <2>4. (w[Max(S)] - w[Min(S)]) - it[T] = 0
    BY <1>3, <2>1, <2>2, <2>3
  <2> QED
    BY <2>4 DEF Slack
<1> QED
  BY <1>7, <1>8

\* The entries with key k, and what each had done by row n.
EntriesOf(k) == {e \in Entries : KeyOf[e] = k}
DoneOf(k, n) == [e \in EntriesOf(k) |-> queryStat[n].done[e]]

\* The model's sums are sums in the sense above.
LEMMA WorkIsSum ==
    ASSUME NEW k, NEW n
    PROVE  \E it : IsSum(it, DoneOf(k, n), EntriesOf(k)) /\ Work(k, n) = it[EntriesOf(k)]
<1> DEFINE K == EntriesOf(k)
           Recurs(it) == it = [s \in SUBSET K |->
                               IF s = {} THEN 0
                               ELSE LET x == CHOOSE x \in s : TRUE
                                    IN  queryStat[n].done[x] + it[s \ {x}]]
<1>1. IsFiniteSet(K)
  BY PlanCacheAssumption, FS_Subset DEF EntriesOf
<1>2. ASSUME NEW it PROVE IsSum(it, DoneOf(k, n), K) <=> Recurs(it)
  <2>1. \A s \in SUBSET K : s # {} => DoneOf(k, n)[Pick(s)] = queryStat[n].done[Pick(s)]
    BY DEF DoneOf, Pick
  <2>2. \A s \in SUBSET K :
            SumOf(it, DoneOf(k, n), s) = IF s = {} THEN 0
                                         ELSE LET x == CHOOSE x \in s : TRUE
                                              IN  queryStat[n].done[x] + it[s \ {x}]
    BY <2>1 DEF SumOf, Pick
  <2> QED
    BY <2>2 DEF IsSum
<1>3. \E it : Recurs(it)
  <2>1. \E it : IsSum(it, DoneOf(k, n), K)
    BY <1>1, SumExists
  <2> HIDE DEF Recurs
  <2> QED
    BY <1>2, <2>1
<1>4. \E it : Recurs(it) /\ Work(k, n) = it[K]
  BY <1>3, Zenon DEF Work, MapThenSumSet, MapThenFoldSet, EntriesOf
<1> QED
  BY <1>2, <1>4

\* The increases the panel adds up.
Increases(k, from) ==
    [n \in InRange(k, from) |-> Delta(Samples(k, from), n)]

LEMMA ReportedIsSum ==
    ASSUME NEW k, NEW from, IsFiniteSet(InRange(k, from))
    PROVE  \E it : /\ IsSum(it, Increases(k, from), InRange(k, from))
                   /\ Reported(k, from) = it[InRange(k, from)]
<1> DEFINE T == InRange(k, from)
           S == Samples(k, from)
           Recurs(it) == it = [s \in SUBSET T |->
                               IF s = {} THEN 0
                               ELSE LET x == CHOOSE x \in s : TRUE
                                    IN  Delta(S, x) + it[s \ {x}]]
<1>1. ASSUME NEW it PROVE IsSum(it, Increases(k, from), T) <=> Recurs(it)
  <2>1. \A s \in SUBSET T : s # {} => Increases(k, from)[Pick(s)] = Delta(S, Pick(s))
    BY DEF Increases, Pick
  <2>2. \A s \in SUBSET T :
            SumOf(it, Increases(k, from), s) = IF s = {} THEN 0
                                               ELSE LET x == CHOOSE x \in s : TRUE
                                                    IN  Delta(S, x) + it[s \ {x}]
    BY <2>1 DEF SumOf, Pick
  <2> QED
    BY <2>2 DEF IsSum
<1>2. \E it : Recurs(it)
  <2>1. \E it : IsSum(it, Increases(k, from), T)
    BY SumExists
  <2> HIDE DEF Recurs
  <2> QED
    BY <1>1, <2>1
<1>3. \E it : Recurs(it) /\ Reported(k, from) = it[T]
  BY <1>2, Zenon DEF Reported, MapThenSumSet, MapThenFoldSet
<1> QED
  BY <1>1, <1>3

\* The rows the panel takes for a key: those in the range, and the last before it.
LEMMA PanelRows ==
    ASSUME RowsInv, NEW k, NEW from \in Int
    PROVE  /\ Len(queryStat) \in Nat /\ Samples(k, from) \subseteq 0..Len(queryStat)
           /\ Samples(k, from) \subseteq RowsOf(k) /\ LastOf(InRange(k, from), Samples(k, from))
           /\ IsFiniteSet(InRange(k, from))
           /\ \A n \in RowsOf(k) : /\ n \in DOMAIN queryStat /\ n \in Nat
                                   /\ queryStat[n] \in Row /\ KeyOf[queryStat[n].entry] = k
<1>1. Len(queryStat) \in Nat /\ DOMAIN queryStat = 1..Len(queryStat)
  BY DEF RowsInv, TypeInv
<1>2. \A n \in RowsOf(k) : /\ n \in DOMAIN queryStat /\ n \in Nat
                           /\ queryStat[n] \in Row /\ KeyOf[queryStat[n].entry] = k
  BY DEF RowsInv, TypeInv, RowsOf
<1>3. /\ InRange(k, from) \subseteq Samples(k, from) /\ Samples(k, from) \subseteq RowsOf(k)
      /\ RowsOf(k) \subseteq 0..Len(queryStat)
  BY <1>1 DEF Samples, Previous, InRange, RowsOf
<1>4. IsFiniteSet(InRange(k, from))
  <2>1. IsFiniteSet(0..Len(queryStat))
    BY <1>1, FS_Interval
  <2> QED
    BY <1>3, <2>1, FS_Subset
<1>5. ASSUME NEW x \in Samples(k, from) \ InRange(k, from)
      PROVE  /\ \A y \in InRange(k, from) : x < y
             /\ \A y \in Samples(k, from) \ InRange(k, from) : x = y
  <2>1. /\ x \in Previous(k, from) /\ x \in RowsOf(k) /\ x \in Nat
        /\ queryStat[x].collectedAt \in Nat /\ ~(queryStat[x].collectedAt >= from)
    BY <1>2, <1>3 DEF Samples, InRange, Row
  <2>2. ASSUME NEW y \in InRange(k, from) PROVE x < y
    <3>1. /\ y \in DOMAIN queryStat /\ y \in Nat /\ queryStat[y].collectedAt \in Nat
          /\ queryStat[y].collectedAt >= from
      BY <1>2 DEF InRange, Row
    <3>2. ~(y < x)
      <4> SUFFICES ASSUME y < x PROVE FALSE
        OBVIOUS
      <4>1. queryStat[y].collectedAt <= queryStat[x].collectedAt
        BY <1>2, <2>1, <3>1 DEF RowsInv, RowsOrdered, Precedes
      <4> QED
        BY <2>1, <3>1, <4>1
    <3> QED
      BY <2>1, <3>1, <3>2
  <2>3. ASSUME NEW y \in Samples(k, from) \ InRange(k, from) PROVE x = y
    <3>1. y \in Previous(k, from) /\ y \in Nat
      BY <1>2, <1>3 DEF Samples
    <3>2. x <= y /\ y <= x
      BY <2>1, <3>1 DEF Previous
    <3> QED
      BY <2>1, <3>1, <3>2
  <2> QED
    BY <2>2, <2>3
<1> QED
  BY <1>1, <1>2, <1>3, <1>4, <1>5 DEF LastOf

\* Work is an integer and what a counter grew by between two rows is in its increase.
LEMMA WorkGrows ==
    ASSUME RowsInv, NEW k, NEW m \in RowsOf(k), NEW n \in RowsOf(k)
    PROVE  /\ Work(k, m) \in Int /\ Work(k, n) \in Int
           /\ m < n => /\ Work(k, m) <= Work(k, n)
                       /\ queryStat[n].total - queryStat[m].total <= Work(k, n) - Work(k, m)
<1> DEFINE K == EntriesOf(k)
           f == DoneOf(k, m)
           g == DoneOf(k, n)
           e == queryStat[n].entry
           a == queryStat[m]
           b == queryStat[n]
<1>1. /\ a \in Row /\ b \in Row /\ KeyOf[a.entry] = k /\ KeyOf[b.entry] = k
      /\ m \in DOMAIN queryStat /\ n \in DOMAIN queryStat
  BY DEF RowsOf, RowsInv, TypeInv
<1>2. e \in K /\ IsFiniteSet(K) /\ K \subseteq Entries
  BY <1>1, PlanCacheAssumption, FS_Subset DEF EntriesOf, Row
<1>3. f \in [K -> Int] /\ g \in [K -> Int]
  BY <1>1, <1>2 DEF DoneOf, Row
<1>4. f[e] = a.done[e] /\ g[e] = b.done[e]
  BY <1>2 DEF DoneOf
<1>5. m < n => (\A x \in K : f[x] <= g[x]) /\ b.total - a.total <= g[e] - f[e]
  <2> SUFFICES ASSUME m < n
               PROVE  (\A x \in K : f[x] <= g[x]) /\ b.total - a.total <= g[e] - f[e]
    OBVIOUS
  <2>1. Precedes(a, b)
    BY <1>1 DEF RowsInv, RowsOrdered
  <2>2. \A x \in K : f[x] <= g[x]
    BY <1>2, <2>1 DEF Precedes, DoneOf
  <2>3. b.total - a.total <= b.done[e] - a.done[e]
    BY <1>1, <2>1 DEF Precedes
  <2> QED
    BY <1>4, <2>2, <2>3
<1>6. b.total \in Int /\ a.total \in Int
  BY <1>1 DEF Row
<1> HIDE DEF K, f, g, e, a, b
<1>7. PICK i : IsSum(i, f, K) /\ Work(k, m) = i[K]
  BY WorkIsSum DEF f, K
<1>8. PICK j : IsSum(j, g, K) /\ Work(k, n) = j[K]
  BY WorkIsSum DEF g, K
<1>9. Splits(i, f, K) /\ Splits(i, f, K \ {e}) /\ Splits(j, g, K) /\ Splits(j, g, K \ {e})
  BY <1>2, <1>3, <1>7, <1>8, SumSplits
<1>10. /\ i[K] \in Int /\ i[K] = f[e] + i[K \ {e}] /\ i[K \ {e}] \in Int
       /\ j[K] \in Int /\ j[K] = g[e] + j[K \ {e}] /\ j[K \ {e}] \in Int
  BY <1>2, <1>9 DEF Splits
<1>11. ASSUME m < n
       PROVE  i[K] <= j[K] /\ b.total - a.total <= j[K] - i[K]
  <2>1. \A s \in SUBSET K : i[s] <= j[s]
    BY <1>2, <1>3, <1>5, <1>7, <1>8, <1>11, SumMonotone
  <2>2. i[K] <= j[K] /\ i[K \ {e}] <= j[K \ {e}]
    BY <2>1
  <2>3. f[e] \in Int /\ g[e] \in Int
    BY <1>2, <1>3
  <2>4. b.total - a.total <= g[e] - f[e]
    BY <1>5, <1>11
  <2> QED
    BY <1>6, <1>10, <2>2, <2>3, <2>4
<1> QED
  BY <1>7, <1>8, <1>10, <1>11 DEF a, b

\* An increase of the panel, by the sample before it.
LEMMA Increased ==
    ASSUME RowsInv, NEW k, NEW from \in Int, NEW n \in InRange(k, from)
    PROVE  LET S      == Samples(k, from)
               before == {m \in S : m < n}
               p      == Max(before)
           IN  IF before = {} THEN Delta(S, n) = 0
               ELSE /\ p \in before /\ \A m \in before : m <= p
                    /\ Delta(S, n) = IF queryStat[n].total < queryStat[p].total THEN 0
                                     ELSE queryStat[n].total - queryStat[p].total
<1> DEFINE S      == Samples(k, from)
           before == {m \in S : m < n}
<1>1. Len(queryStat) \in Nat /\ before \subseteq 0..Len(queryStat)
  BY PanelRows
<1>2. CASE before = {}
  BY <1>2 DEF Delta
<1>3. CASE before # {}
  <2>1. Max(before) \in before /\ \A m \in before : m <= Max(before)
    BY <1>1, <1>3, MaxIsGreatest
  <2> QED
    BY <1>3, <2>1 DEF Delta
<1> QED
  BY <1>2, <1>3

\* NeverOverstated, and SteadyIsExact, of one key and range in a state of the invariant:
\* the differences fall short by natural numbers, or by nothing.
LEMMA ReportedAtMost ==
    ASSUME RowsInv, NEW k, NEW from \in Int
    PROVE  Reported(k, from) <= Increase(k, from)
<1> DEFINE S == Samples(k, from)
           T == InRange(k, from)
           d == Increases(k, from)
           w == [n \in S |-> Work(k, n)]
<1>1. /\ Len(queryStat) \in Nat /\ S \subseteq 0..Len(queryStat) /\ S \subseteq RowsOf(k)
      /\ LastOf(T, S) /\ IsFiniteSet(T) /\ T \subseteq S
      /\ \A n \in S : n \in Nat /\ queryStat[n] \in Row
  BY PanelRows DEF LastOf
<1>2. PICK it : IsSum(it, d, T) /\ Reported(k, from) = it[T]
  BY <1>1, ReportedIsSum
<1>3. Increase(k, from) = IF S = {} THEN 0 ELSE Work(k, Max(S)) - Work(k, Min(S))
  BY DEF Increase, Seen, Samples
<1>4. CASE S = {}
  <2>1. T = {} /\ it[{}] = 0
    BY <1>1, <1>2, <1>4 DEF IsSum, SumOf
  <2> QED
    BY <1>2, <1>3, <1>4, <2>1
<1>5. CASE S # {}
  <2>1. ASSUME NEW n \in T
        PROVE  LET before == {m \in S : m < n} IN
               /\ d[n] \in Int
               /\ IF before = {} THEN d[n] = 0 ELSE (w[n] - w[Max(before)]) - d[n] \in Nat
    <3> DEFINE before == {m \in S : m < n}
               p == Max(before)
    <3>1. /\ IF before = {} THEN d[n] = 0
             ELSE /\ p \in before
                  /\ d[n] = IF queryStat[n].total < queryStat[p].total THEN 0
                            ELSE queryStat[n].total - queryStat[p].total
      BY Increased DEF Increases
    <3>2. CASE before = {}
      BY <3>1, <3>2
    <3>3. CASE before # {}
      <4> HIDE DEF p
      <4>1. p \in S /\ p < n /\ n \in S
        BY <1>1, <3>1, <3>3
      <4>2. /\ queryStat[n].total \in Int /\ queryStat[p].total \in Int
            /\ w[n] = Work(k, n) /\ w[p] = Work(k, p)
        BY <1>1, <4>1 DEF Row
      <4>3. /\ Work(k, p) \in Int /\ Work(k, n) \in Int
            /\ Work(k, p) <= Work(k, n)
            /\ queryStat[n].total - queryStat[p].total <= Work(k, n) - Work(k, p)
        BY <1>1, <4>1, WorkGrows
      <4>4. /\ d[n] \in Int
            /\ d[n] = 0 \/ d[n] = queryStat[n].total - queryStat[p].total
        BY <3>1, <3>3, <4>2
      <4>5. (w[n] - w[p]) - d[n] \in Nat
        BY <4>2, <4>3, <4>4
      <4> QED
        BY <3>3, <4>4, <4>5 DEF p
    <3> QED
      BY <3>2, <3>3
  <2>2. \A n \in S : Work(k, n) \in Int
    BY <1>1, WorkGrows
  <2>3. Differences(d, w, T, S, Nat)
    <3>1. d \in [T -> Int]
      BY <2>1 DEF Increases
    <3>2. w \in [S -> Int]
      BY <2>2
    <3> HIDE DEF d, w
    <3> QED
      BY <2>1, <3>1, <3>2 DEF Differences
  <2>4. Slack(Nat)
    BY DEF Slack
  <2>5. Max(S) \in S /\ Min(S) \in S
    BY <1>1, <1>5, MaxIsGreatest, MinIsLeast
  <2>6. (w[Max(S)] - w[Min(S)]) - it[T] \in Nat
    <3> HIDE DEF d, w, S, T
    <3> QED
      BY <1>1, <1>2, <1>5, <2>3, <2>4, Telescope
  <2>7. it[T] \in Int
    <3>1. Splits(it, d, T)
      BY <1>1, <1>2, <2>3, SumSplits DEF Differences
    <3> QED
      BY <3>1 DEF Splits
  <2>8. it[T] <= Work(k, Max(S)) - Work(k, Min(S))
    BY <2>2, <2>5, <2>6, <2>7
  <2> QED
    BY <1>2, <1>3, <1>5, <2>8
<1> QED
  BY <1>4, <1>5

LEMMA SteadyReported ==
    ASSUME RowsInv, NEW k, NEW from \in Int, NEW e \in Entries,
           Steady(Seen(k, from), e), Seen(k, from) # {}
    PROVE  Reported(k, from) = queryStat[Max(Seen(k, from))].done[e]
                                   - queryStat[Min(Seen(k, from))].done[e]
<1> DEFINE S == Samples(k, from)
           T == InRange(k, from)
           d == Increases(k, from)
           w == [n \in S |-> queryStat[n].done[e]]
<1>1. /\ Len(queryStat) \in Nat /\ S \subseteq 0..Len(queryStat) /\ S \subseteq RowsOf(k)
      /\ LastOf(T, S) /\ IsFiniteSet(T) /\ T \subseteq S
      /\ \A n \in S : n \in Nat /\ queryStat[n] \in Row /\ n \in DOMAIN queryStat
  BY PanelRows DEF LastOf
<1>2. PICK it : IsSum(it, d, T) /\ Reported(k, from) = it[T]
  BY <1>1, ReportedIsSum
<1>3. S = Seen(k, from) /\ S # {} /\ Steady(S, e)
  BY DEF Seen, Samples
<1>4. \A n \in S : w[n] = queryStat[n].done[e] /\ w[n] \in Int /\ queryStat[n].total \in Int
  BY <1>1 DEF Row
<1>5. ASSUME NEW n \in T
      PROVE  LET before == {m \in S : m < n} IN
             /\ d[n] \in Int
             /\ IF before = {} THEN d[n] = 0 ELSE (w[n] - w[Max(before)]) - d[n] \in {0}
  <2> DEFINE before == {m \in S : m < n}
             p == Max(before)
  <2>1. IF before = {} THEN d[n] = 0
        ELSE /\ p \in before
             /\ d[n] = IF queryStat[n].total < queryStat[p].total THEN 0
                       ELSE queryStat[n].total - queryStat[p].total
    BY Increased DEF Increases
  <2>2. CASE before = {}
    BY <2>1, <2>2
  <2>3. CASE before # {}
    <3> HIDE DEF p
    <3>1. p \in S /\ p < n /\ n \in S
      BY <1>1, <2>1, <2>3
    <3>2. queryStat[n].total - queryStat[p].total = w[n] - w[p]
      BY <1>3, <1>4, <3>1 DEF Steady
    <3>3. w[p] <= w[n]
      BY <1>1, <1>4, <3>1 DEF RowsInv, RowsOrdered, Precedes
    <3>4. d[n] = w[n] - w[p] /\ w[n] \in Int /\ w[p] \in Int
      BY <1>4, <2>1, <2>3, <3>1, <3>2, <3>3
    <3> HIDE DEF w, d
    <3> QED
      BY <2>3, <3>4 DEF p
  <2> QED
    BY <2>2, <2>3
<1>6. Differences(d, w, T, S, {0})
  <2>1. d \in [T -> Int]
    BY <1>5 DEF Increases
  <2>2. w \in [S -> Int]
    BY <1>4
  <2> HIDE DEF d, w
  <2> QED
    BY <1>5, <2>1, <2>2 DEF Differences
<1>7. Slack({0})
  BY DEF Slack
<1>8. Max(S) \in S /\ Min(S) \in S
  BY <1>1, <1>3, MaxIsGreatest, MinIsLeast
<1>9. (w[Max(S)] - w[Min(S)]) - it[T] \in {0}
  <2> HIDE DEF d, w, S, T
  <2> QED
    BY <1>1, <1>2, <1>3, <1>6, <1>7, Telescope
<1>10. it[T] \in Int
  <2>1. Splits(it, d, T)
    BY <1>1, <1>2, <1>6, SumSplits DEF Differences
  <2> QED
    BY <2>1 DEF Splits
<1>11. it[T] = queryStat[Max(S)].done[e] - queryStat[Min(S)].done[e]
  BY <1>4, <1>8, <1>9, <1>10
<1> QED
  BY <1>2, <1>3, <1>11

\* Whatever is evicted, reset, cut off by TOP, rejected or replaced by an entry with
\* the same hashes, and wherever the range begins, the panel (grafana/queries/
\* 13_top_queries_by_delta.sql) shows no more CPU time than was used since the sample
\* it begins at.
THEOREM NeverOverstates == QuerySpec => []NeverOverstated
<1>1. RowsInv => NeverOverstated
  <2> SUFFICES ASSUME RowsInv, NEW k \in Keys, NEW from \in Froms
               PROVE  Reported(k, from) <= Increase(k, from)
    BY DEF NeverOverstated
  <2>1. from \in Int
    BY DEF Froms, RowsInv, TypeInv
  <2> QED
    BY <2>1, ReportedAtMost
<1> QED
  BY <1>1, SpecRows, PTL

\* And of an entry whose counter did not start again between its rows it shows every
\* unit of work, though snapshots in between missed it or were rejected.
THEOREM SteadyAlwaysExact == QuerySpec => []SteadyIsExact
<1>1. RowsInv => SteadyIsExact
  <2> SUFFICES ASSUME RowsInv, NEW k \in Keys, NEW from \in Froms, NEW e \in Entries,
                      Steady(Seen(k, from), e), Seen(k, from) # {}
               PROVE  Reported(k, from) = queryStat[Max(Seen(k, from))].done[e]
                                              - queryStat[Min(Seen(k, from))].done[e]
    BY DEF SteadyIsExact
  <2>1. from \in Int
    BY DEF Froms, RowsInv, TypeInv
  <2> QED
    BY <2>1, SteadyReported
<1> QED
  BY <1>1, SpecRows, PTL
=============================================================================
