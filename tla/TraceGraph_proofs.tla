--------------------------- MODULE TraceGraph_proofs ---------------------------
(***************************************************************************)
(* Proofs about TraceGraph, for any traces, plugins and bounds. Tables only*)
(* grow at their ends, so an id keeps its trace; a scan has no edge before *)
(* its seed's; and what holds of the seed and of the child of every edge   *)
(* whose parent it holds of, holds of every node of the scan. The recursive*)
(* queries are proved level by level: what a row has visited bounds the    *)
(* levels from above, and shortest paths survive the rule that a row takes *)
(* no trace twice.                                                         *)
(***************************************************************************)
EXTENDS TraceGraph, Induction, FiniteSetTheorems

(***************************************************************************)
(* Tables.                                                                 *)
(***************************************************************************)

Distinct(table) == \A i, j \in DOMAIN table : table[i] = table[j] => i = j

\* The rows of old are the first of new.
Grown(new, old) == Len(old) <= Len(new) /\ \A i \in 1..Len(old) : new[i] = old[i]

LEMMA Appended ==
  ASSUME NEW S, NEW table \in Seq(S), NEW x \in S
  PROVE  /\ Append(table, x) \in Seq(S) /\ Grown(Append(table, x), table)
         /\ Range(Append(table, x)) = Range(table) \cup {x}
         /\ Distinct(table) /\ x \notin Range(table) => Distinct(Append(table, x))
<1> DEFINE new == Append(table, x)
<1>1. /\ new \in Seq(S) /\ Len(new) = Len(table) + 1 /\ Len(table) \in Nat
      /\ DOMAIN new = 1..Len(new) /\ DOMAIN table = 1..Len(table)
      /\ \A i \in 1..Len(table) : new[i] = table[i]
      /\ new[Len(table) + 1] = x
  OBVIOUS
<1> HIDE DEF new
<1>2. Range(new) = Range(table) \cup {x}
  <2>1. \A i \in DOMAIN new : i \in DOMAIN table \/ i = Len(table) + 1
    BY <1>1
  <2>2. \A i \in DOMAIN table : i \in DOMAIN new
    BY <1>1
  <2>3. Len(table) + 1 \in DOMAIN new
    BY <1>1
  <2> QED
    BY <1>1, <2>1, <2>2, <2>3 DEF Range
<1>3. ASSUME Distinct(table), x \notin Range(table) PROVE Distinct(new)
  <2> SUFFICES ASSUME NEW i \in DOMAIN new, NEW j \in DOMAIN new, new[i] = new[j] PROVE i = j
    BY DEF Distinct
  <2>1. \A k \in DOMAIN table : table[k] # x
    BY <1>3 DEF Range
  <2> QED
    BY <1>1, <1>3, <2>1 DEF Distinct
<1> QED
  BY <1>1, <1>2, <1>3 DEF new, Grown

LEMMA GrownRange ==
  ASSUME NEW S, NEW new \in Seq(S), NEW old \in Seq(S), Grown(new, old)
  PROVE  /\ Range(old) \subseteq Range(new) /\ DOMAIN old \subseteq DOMAIN new
         /\ Len(new) \in Nat /\ Len(old) \in Nat
<1>1. DOMAIN old = 1..Len(old) /\ DOMAIN new = 1..Len(new) /\ Len(old) \in Nat /\ Len(new) \in Nat
  OBVIOUS
<1>2. DOMAIN old \subseteq DOMAIN new
  BY <1>1 DEF Grown
<1> QED
  BY <1>1, <1>2 DEF Grown, Range

LEMMA GrownTwice ==
  ASSUME NEW S, NEW a \in Seq(S), NEW b \in Seq(S), NEW c \in Seq(S), Grown(b, a), Grown(c, b)
  PROVE  Grown(c, a)
<1>1. Len(a) \in Nat /\ Len(b) \in Nat /\ Len(c) \in Nat
  OBVIOUS
<1>2. Len(a) <= Len(c) /\ \A i \in 1..Len(a) : i \in 1..Len(b)
  BY <1>1 DEF Grown
<1> QED
  BY <1>2 DEF Grown

LEMMA GrownSelf == ASSUME NEW S, NEW a \in Seq(S) PROVE Grown(a, a)
BY DEF Grown

\* The id of a trace that is in the table.
LEMMA Identified ==
  ASSUME NEW table \in Seq(Traces), NEW t \in Range(table)
  PROVE  /\ Id(table, t) \in DOMAIN table /\ Id(table, t) \in 1..Len(table)
         /\ table[Id(table, t)] = t
         /\ Distinct(table) => \A i \in DOMAIN table : table[i] = t => i = Id(table, t)
<1>1. \E i \in DOMAIN table : table[i] = t
  BY DEF Range
<1>2. Id(table, t) \in DOMAIN table /\ table[Id(table, t)] = t
  BY <1>1 DEF Id
<1>3. DOMAIN table = 1..Len(table)
  OBVIOUS
<1> QED
  BY <1>2, <1>3 DEF Distinct

LEMMA IdKept ==
  ASSUME NEW new \in Seq(Traces), NEW old \in Seq(Traces), Grown(new, old), Distinct(new),
         NEW t \in Range(old)
  PROVE  Id(new, t) = Id(old, t)
<1>1. Id(old, t) \in DOMAIN old /\ Id(old, t) \in 1..Len(old) /\ old[Id(old, t)] = t
  BY Identified
<1>2. t \in Range(new) /\ DOMAIN old \subseteq DOMAIN new
  BY GrownRange
<1>3. new[Id(old, t)] = t /\ Id(old, t) \in DOMAIN new
  BY <1>1, <1>2 DEF Grown
<1> QED
  BY <1>2, <1>3, Identified

LEMMA Resolved ==
  ASSUME NEW table \in Seq(Traces), NEW t \in Traces
  PROVE  /\ ResolveTrace(table, t) \in Seq(Traces) /\ Grown(ResolveTrace(table, t), table)
         /\ Range(ResolveTrace(table, t)) = Range(table) \cup {t}
         /\ Distinct(table) => Distinct(ResolveTrace(table, t))
<1>1. CASE t \in Range(table)
  BY <1>1, GrownSelf DEF ResolveTrace
<1>2. CASE t \notin Range(table)
  BY <1>2, Appended DEF ResolveTrace
<1> QED
  BY <1>1, <1>2

LEMMA EdgeInserted ==
  ASSUME NEW S, NEW table \in Seq(S), NEW row \in S
  PROVE  /\ InsertEdge(table, row) \in Seq(S) /\ Grown(InsertEdge(table, row), table)
         /\ Range(InsertEdge(table, row)) = Range(table) \cup {row}
         /\ Distinct(table) /\ (row.parent = Null => row \notin Range(table)) =>
              Distinct(InsertEdge(table, row))
<1>1. CASE row.parent # Null /\ row \in Range(table)
  BY <1>1, GrownSelf DEF InsertEdge
<1>2. CASE ~(row.parent # Null /\ row \in Range(table))
  BY <1>2, Appended DEF InsertEdge
<1> QED
  BY <1>1, <1>2


-------------------------------------------------------------------------------
(***************************************************************************)
(* StoreDiscovery and PersistDiscoveries.                                  *)
(***************************************************************************)

Row == [parent : Nat, child : Nat, plugin : Plugins \cup {SeedPlugin}, scan : Nat]
Db == [traces : Seq(Traces), edges : Seq(Row)]
Discovery == [parent : Traces, plugin : Plugins, child : Traces]

EdgeOf(table, s, d) == [parent |-> Id(table, d.parent), child |-> Id(table, d.child),
                        plugin |-> d.plugin, scan |-> s]

\* The tables with one discovery more.
Extended(new, old, s, d) ==
  /\ Grown(new.traces, old.traces) /\ Grown(new.edges, old.edges)
  /\ Range(new.traces) = Range(old.traces) \cup {d.parent, d.child}
  /\ Range(new.edges) = Range(old.edges) \cup {EdgeOf(new.traces, s, d)}
  /\ Distinct(old.traces) => Distinct(new.traces)
  /\ Distinct(old.edges) => Distinct(new.edges)

LEMMA EdgeOfType ==
  ASSUME NEW table \in Seq(Traces), NEW s \in Nat, NEW d \in Discovery,
         d.parent \in Range(table), d.child \in Range(table)
  PROVE  /\ EdgeOf(table, s, d) \in Row /\ EdgeOf(table, s, d).parent # Null
         /\ EdgeOf(table, s, d).parent \in DOMAIN table /\ EdgeOf(table, s, d).child \in DOMAIN table
         /\ table[EdgeOf(table, s, d).parent] = d.parent
         /\ table[EdgeOf(table, s, d).child] = d.child
         /\ EdgeOf(table, s, d).plugin = d.plugin /\ EdgeOf(table, s, d).scan = s
<1> DEFINE p == Id(table, d.parent)
           c == Id(table, d.child)
<1>1. /\ p \in 1..Len(table) /\ c \in 1..Len(table) /\ Len(table) \in Nat
      /\ p \in DOMAIN table /\ c \in DOMAIN table
      /\ table[p] = d.parent /\ table[c] = d.child
  BY Identified
<1>2. EdgeOf(table, s, d) = [parent |-> p, child |-> c, plugin |-> d.plugin, scan |-> s]
  BY DEF EdgeOf
<1> HIDE DEF p, c
<1>3. p \in Nat /\ c \in Nat /\ p # 0 /\ d.plugin \in Plugins
  BY <1>1 DEF Discovery
<1> QED
  BY <1>1, <1>2, <1>3 DEF Row, Null

LEMMA DiscoveryStored ==
  ASSUME NEW db \in Db, NEW s \in Nat, NEW d \in Discovery
  PROVE  StoreDiscovery(db, s, d) \in Db /\ Extended(StoreDiscovery(db, s, d), db, s, d)
<1> DEFINE withParent == ResolveTrace(db.traces, d.parent)
           nodes == ResolveTrace(withParent, d.child)
           row == EdgeOf(nodes, s, d)
           rows == InsertEdge(db.edges, row)
<1>1. /\ db.traces \in Seq(Traces) /\ db.edges \in Seq(Row)
      /\ d.parent \in Traces /\ d.child \in Traces
  BY DEF Db, Discovery
<1>2. StoreDiscovery(db, s, d) = [traces |-> nodes, edges |-> rows]
  BY DEF StoreDiscovery, EdgeOf
<1>3. /\ withParent \in Seq(Traces) /\ Grown(withParent, db.traces)
      /\ Range(withParent) = Range(db.traces) \cup {d.parent}
      /\ Distinct(db.traces) => Distinct(withParent)
  BY <1>1, Resolved
<1> HIDE DEF withParent
<1>4. /\ nodes \in Seq(Traces) /\ Grown(nodes, withParent)
      /\ Range(nodes) = Range(withParent) \cup {d.child}
      /\ Distinct(withParent) => Distinct(nodes)
  BY <1>1, <1>3, Resolved
<1> HIDE DEF nodes
<1>5. Grown(nodes, db.traces)
  BY <1>1, <1>3, <1>4, GrownTwice
<1>6. row \in Row /\ row.parent # Null
  BY <1>3, <1>4, EdgeOfType
<1> HIDE DEF row
<1>7. /\ rows \in Seq(Row) /\ Grown(rows, db.edges) /\ Range(rows) = Range(db.edges) \cup {row}
      /\ Distinct(db.edges) => Distinct(rows)
  <2> DEFINE table == db.edges
  <2>1. table \in Seq(Row)
    BY <1>1
  <2> HIDE DEF table
  <2>2. /\ InsertEdge(table, row) \in Seq(Row) /\ Grown(InsertEdge(table, row), table)
        /\ Range(InsertEdge(table, row)) = Range(table) \cup {row}
        /\ Distinct(table) => Distinct(InsertEdge(table, row))
    BY <1>6, <2>1, EdgeInserted
  <2> QED
    BY <2>2 DEF table
<1> HIDE DEF rows
<1>8. [traces |-> nodes, edges |-> rows] \in Db
  BY <1>4, <1>7 DEF Db
<1> DEFINE new == StoreDiscovery(db, s, d)
<1>9. new \in Db /\ new.traces = nodes /\ new.edges = rows
  BY <1>2, <1>8
<1> HIDE DEF new
<1>10. Extended(new, db, s, d)
  BY <1>3, <1>4, <1>5, <1>7, <1>9 DEF Extended, row
<1> QED
  BY <1>9, <1>10 DEF new

\* What is stored already is not stored again.
LEMMA StoredAgain ==
  ASSUME NEW db \in Db, NEW s \in Nat, NEW d \in Discovery,
         d.parent \in Range(db.traces), d.child \in Range(db.traces),
         EdgeOf(db.traces, s, d) \in Range(db.edges)
  PROVE  StoreDiscovery(db, s, d) = db
<1>1. ResolveTrace(ResolveTrace(db.traces, d.parent), d.child) = db.traces
  BY DEF ResolveTrace
<1>2. EdgeOf(db.traces, s, d).parent # Null
  BY EdgeOfType DEF Db
<1>3. InsertEdge(db.edges, EdgeOf(db.traces, s, d)) = db.edges
  BY <1>2 DEF InsertEdge
<1>4. StoreDiscovery(db, s, d) = [traces |-> db.traces, edges |-> db.edges]
  BY <1>1, <1>3 DEF StoreDiscovery, EdgeOf
<1> QED
  BY <1>4 DEF Db

\* The tables when the first n discoveries of a batch are stored.
Tables == [traces |-> traces, edges |-> edges]

Storing(f, s, batch) ==
  /\ f[0] = Tables
  /\ \A n \in 0..Len(batch) : f[n] \in Db
  /\ \A n \in 0..Len(batch) : n # Len(batch) => f[n + 1] = StoreDiscovery(f[n], s, batch[n + 1])

LEMMA PersistedRecursive ==
  ASSUME NEW s, NEW batch
  PROVE  Persisted(s, batch) = (CHOOSE f : f =
           [n \in 0..Len(batch) |-> IF n = 0 THEN [traces |-> traces, edges |-> edges]
                                    ELSE StoreDiscovery(f[n - 1], s, batch[n])])[Len(batch)]
BY Zenon DEF Persisted

LEMMA PersistedStepwise ==
  ASSUME Tables \in Db, NEW s \in Nat, NEW batch \in Seq(Discovery)
  PROVE  \E f : Storing(f, s, batch) /\ Persisted(s, batch) = f[Len(batch)]
<1> DEFINE len == Len(batch)
           add(n, db) == StoreDiscovery(db, s, batch[n])
           step == [n \in 1..len |-> [db \in Db |-> add(n, db)]]
<1>0. len \in Nat /\ \A n \in 1..len : batch[n] \in Discovery
  OBVIOUS
<1>1. \A n \in 1..len, db \in Db : add(n, db) \in Db
  BY <1>0, DiscoveryStored
<1>2. step \in [1..len -> [Db -> Db]]
  BY <1>1
<1>3. PICK f \in [0..len -> Db] : Unfolds(f, len, Tables, step)
  <2> HIDE DEF step, len
  <2> QED
    BY <1>0, <1>2, Recursion
<1>4. \A n \in 1..len : n - 1 \in 0..len
  BY <1>0
<1>5. f[0] = Tables /\ \A n \in 1..len : f[n] = add(n, f[n - 1])
  BY <1>3, <1>4 DEF Unfolds
<1>6. f = [n \in 0..len |-> IF n = 0 THEN Tables ELSE add(n, f[n - 1])]
  <2>1. \A n \in 0..len : n # 0 => n \in 1..len
    BY <1>0
  <2> HIDE DEF add
  <2> QED
    BY <1>3, <1>5, <2>1
<1> DEFINE g == CHOOSE h : h = [n \in 0..len |-> IF n = 0 THEN Tables ELSE add(n, h[n - 1])]
<1>7. g = [n \in 0..len |-> IF n = 0 THEN Tables ELSE add(n, g[n - 1])]
  BY <1>6, Zenon
<1>8. Persisted(s, batch) = g[len]
  BY PersistedRecursive, Zenon DEF Tables
<1> HIDE DEF g
<1>9. g[0] = Tables /\ \A n \in 1..len : g[n] = add(n, g[n - 1])
  <2>1. \A n \in 0..len : g[n] = IF n = 0 THEN Tables ELSE add(n, g[n - 1])
    BY <1>7, Zenon
  <2>2. 0 \in 0..len /\ \A n \in 1..len : n \in 0..len /\ n # 0
    BY <1>0
  <2> QED
    BY <2>1, <2>2, Zenon
<1>10. ASSUME NEW n \in 0..len, n # len PROVE g[n + 1] = StoreDiscovery(g[n], s, batch[n + 1])
  <2>1. n + 1 \in 1..len /\ (n + 1) - 1 = n
    BY <1>0, <1>10
  <2> QED
    BY <1>9, <2>1
<1> DEFINE T == {n \in Nat : g[n] \in Db}
<1>11. \A n \in 0..len : n \in T
  <2>1. 0 \in T
    BY <1>9
  <2>2. ASSUME NEW n \in 0..len, n \in T, n # len PROVE n + 1 \in T
    <3>1. n + 1 \in Nat /\ n + 1 \in 1..len /\ g[n] \in Db
      BY <1>0, <2>2
    <3>2. batch[n + 1] \in Discovery
      BY <3>1
    <3>3. g[n + 1] = StoreDiscovery(g[n], s, batch[n + 1])
      BY <1>10, <2>2
    <3>4. g[n + 1] \in Db
      BY <3>1, <3>2, <3>3, DiscoveryStored
    <3> QED
      BY <3>1, <3>4
  <2> HIDE DEF T
  <2> QED
    BY <1>0, <2>1, <2>2, BoundedInduction
<1> QED
  BY <1>8, <1>9, <1>10, <1>11 DEF T, Storing

-------------------------------------------------------------------------------
(***************************************************************************)
(* The invariant of the tables.                                            *)
(***************************************************************************)

\* A scan has its seed among the traces before it has edges.
Rooted == \A s \in DOMAIN sessions :
  sessions[s].step # "created" => sessions[s].seed \in Range(traces)

EdgesSeeded == \A e \in Range(edges) :
  sessions[e.scan].step = "seeded" /\ (e.parent = Null => e.child = Seed(e.scan))

SeedStored == \A s \in Seeded : \E e \in EdgesOf(s) : e.parent = Null /\ e.child = Seed(s)

\* What holds of the seed and passes from parents to children holds of the whole scan.
ConnectedScan(s) == \A X \in SUBSET DOMAIN traces :
  Seed(s) \in X /\ Children(s, X) \subseteq X => ScanNodes(s) \subseteq X

Connected == \A s \in Seeded : ConnectedScan(s)

GraphInv ==
  /\ TypeOK /\ Distinct(traces) /\ Distinct(edges)
  /\ Rooted /\ EdgesSeeded /\ SeedStored /\ Connected

LEMMA EdgeFields ==
  ASSUME TypeOK, NEW e \in Range(edges)
  PROVE  /\ e.parent \in {Null} \cup DOMAIN traces /\ e.child \in DOMAIN traces
         /\ e.plugin \in Plugins \cup {SeedPlugin} /\ e.scan \in DOMAIN sessions
         /\ e = [parent |-> e.parent, child |-> e.child, plugin |-> e.plugin, scan |-> e.scan]
<1> DEFINE S == [parent : {Null} \cup DOMAIN traces, child : DOMAIN traces,
                 plugin : Plugins \cup {SeedPlugin}, scan : DOMAIN sessions]
<1>1. e \in S
  <2>1. edges \in Seq(S)
    BY DEF TypeOK
  <2> HIDE DEF S
  <2>2. PICK i \in DOMAIN edges : e = edges[i]
    BY DEF Range
  <2> QED
    BY <2>1, <2>2
<1> QED
  BY <1>1

LEMMA Domains ==
  ASSUME TypeOK
  PROVE  /\ sessions \in Seq([seed : Traces, step : {"created", "rooted", "seeded"}])
         /\ traces \in Seq(Traces) /\ Len(traces) \in Nat /\ Len(sessions) \in Nat
         /\ DOMAIN traces = 1..Len(traces) /\ DOMAIN sessions = 1..Len(sessions)
         /\ DOMAIN edges = 1..Len(edges) /\ Len(edges) \in Nat
BY DEF TypeOK

LEMMA TablesTyped == ASSUME TypeOK PROVE Tables \in Db
<1>1. /\ traces \in Seq(Traces) /\ Len(edges) \in Nat /\ DOMAIN edges = 1..Len(edges)
      /\ \A i \in DOMAIN traces : i \in Nat /\ \A q \in DOMAIN sessions : q \in Nat
      /\ edges = [i \in 1..Len(edges) |-> edges[i]]
  BY DEF TypeOK
<1>2. \A e \in Range(edges) : e \in Row
  BY <1>1, EdgeFields DEF Row, Null
<1>3. \A i \in 1..Len(edges) : edges[i] \in Row
  BY <1>1, <1>2 DEF Range
<1>4. edges \in Seq(Row)
  BY <1>1, <1>3
<1> QED
  BY <1>1, <1>4 DEF Tables, Db

\* What a scan can discover next.
Discoveries(s) == [parent : {traces[i] : i \in ScanNodes(s)}, plugin : Plugins, child : Traces]

BatchStored(db, s, batch, n) ==
  /\ Grown(db.traces, traces) /\ Grown(db.edges, edges)
  /\ Distinct(db.traces) /\ Distinct(db.edges)
  /\ \A e \in Range(db.edges) : e \in Range(edges) \/
       /\ e.scan = s /\ e.parent \in ScanNodes(s) /\ e.parent # Null
       /\ e.child \in DOMAIN db.traces /\ e.plugin \in Plugins
  /\ \A i \in 1..n :
       /\ batch[i].parent \in Range(db.traces) /\ batch[i].child \in Range(db.traces)
       /\ EdgeOf(db.traces, s, batch[i]) \in Range(db.edges)

LEMMA DiscoveryParent ==
  ASSUME TypeOK, NEW s, NEW d \in Discoveries(s)
  PROVE  d \in Discovery /\ \E i \in ScanNodes(s) : i \in 1..Len(traces) /\ traces[i] = d.parent
<1>1. /\ d.parent \in {traces[i] : i \in ScanNodes(s)} /\ d.plugin \in Plugins /\ d.child \in Traces
      /\ d = [parent |-> d.parent, plugin |-> d.plugin, child |-> d.child]
  BY DEF Discoveries
<1>2. PICK i \in ScanNodes(s) : d.parent = traces[i]
  BY <1>1
<1>3. i \in 1..Len(traces) /\ traces[i] \in Traces
  BY Domains DEF ScanNodes, TypeOK
<1> QED
  BY <1>1, <1>2, <1>3 DEF Discovery

LEMMA OneMoreStored ==
  ASSUME TypeOK, NEW s \in DOMAIN sessions, NEW batch \in Seq(Discoveries(s)),
         NEW n \in 0..Len(batch), n # Len(batch), NEW db \in Db, BatchStored(db, s, batch, n)
  PROVE  BatchStored(StoreDiscovery(db, s, batch[n + 1]), s, batch, n + 1)
<1> DEFINE d == batch[n + 1]
           new == StoreDiscovery(db, s, d)
<1>1. s \in Nat /\ n \in Nat /\ Len(batch) \in Nat /\ n + 1 \in 1..Len(batch)
  BY Domains
<1>2. d \in Discoveries(s)
  BY <1>1
<1>3. d \in Discovery
  BY <1>2, DiscoveryParent
<1>4. PICK p \in ScanNodes(s) : p \in 1..Len(traces) /\ traces[p] = d.parent
  BY <1>2, DiscoveryParent
<1>5. new \in Db /\ Extended(new, db, s, d)
  BY <1>1, <1>3, DiscoveryStored
<1> HIDE DEF d, new
<1>6. /\ new.traces \in Seq(Traces) /\ new.edges \in Seq(Row) /\ db.traces \in Seq(Traces)
      /\ db.edges \in Seq(Row) /\ traces \in Seq(Traces) /\ edges \in Seq(Row)
  BY <1>5, TablesTyped DEF Db, Tables
<1>7. /\ Grown(new.traces, db.traces) /\ Grown(new.edges, db.edges)
      /\ Range(new.traces) = Range(db.traces) \cup {d.parent, d.child}
      /\ Range(new.edges) = Range(db.edges) \cup {EdgeOf(new.traces, s, d)}
      /\ Distinct(new.traces) /\ Distinct(new.edges)
  <2>1. Distinct(db.traces) /\ Distinct(db.edges)
    BY DEF BatchStored
  <2> QED
    BY <1>5, <2>1 DEF Extended
<1>8. Grown(new.traces, traces) /\ Grown(new.edges, edges)
  BY <1>6, <1>7, GrownTwice DEF BatchStored
<1>9. /\ EdgeOf(new.traces, s, d).parent # Null /\ EdgeOf(new.traces, s, d).scan = s
      /\ EdgeOf(new.traces, s, d).child \in DOMAIN new.traces
      /\ EdgeOf(new.traces, s, d).plugin \in Plugins
      /\ EdgeOf(new.traces, s, d).parent = p
  <2>1. d.parent \in Range(new.traces) /\ d.child \in Range(new.traces)
    BY <1>7
  <2>2. d.plugin \in Plugins
    BY <1>3 DEF Discovery
  <2>3. new.traces[p] = d.parent /\ p \in DOMAIN new.traces
    BY <1>4, <1>6, <1>8, GrownRange DEF Grown
  <2>4. p = Id(new.traces, d.parent)
    BY <1>6, <1>7, <2>1, <2>3, Identified
  <2>5. EdgeOf(new.traces, s, d).parent = Id(new.traces, d.parent)
    BY DEF EdgeOf
  <2> QED
    BY <1>1, <1>3, <1>6, <2>1, <2>2, <2>4, <2>5, EdgeOfType, ZenonT(40)
<1>10. ASSUME NEW e \in Range(new.edges), e \notin Range(edges)
       PROVE  /\ e.scan = s /\ e.parent \in ScanNodes(s) /\ e.parent # Null
              /\ e.child \in DOMAIN new.traces /\ e.plugin \in Plugins
  <2>1. CASE e \in Range(db.edges)
    <3>1. DOMAIN db.traces \subseteq DOMAIN new.traces
      BY <1>6, <1>7, GrownRange
    <3> QED
      BY <1>10, <2>1, <3>1 DEF BatchStored
  <2>2. CASE e = EdgeOf(new.traces, s, d)
    BY <1>4, <1>9, <2>2
  <2> QED
    BY <1>7, <2>1, <2>2
<1>11. ASSUME NEW i \in 1..n + 1
       PROVE  /\ batch[i].parent \in Range(new.traces) /\ batch[i].child \in Range(new.traces)
              /\ EdgeOf(new.traces, s, batch[i]) \in Range(new.edges)
  <2>1. CASE i = n + 1
    BY <1>7, <2>1 DEF d
  <2>2. CASE i \in 1..n
    <3>1. /\ batch[i].parent \in Range(db.traces) /\ batch[i].child \in Range(db.traces)
          /\ EdgeOf(db.traces, s, batch[i]) \in Range(db.edges)
      BY <2>2 DEF BatchStored
    <3>2. EdgeOf(new.traces, s, batch[i]) = EdgeOf(db.traces, s, batch[i])
      <4>1. /\ Id(new.traces, batch[i].parent) = Id(db.traces, batch[i].parent)
            /\ Id(new.traces, batch[i].child) = Id(db.traces, batch[i].child)
        BY <1>6, <1>7, <3>1, IdKept
      <4> QED
        BY <4>1 DEF EdgeOf
    <3> QED
      BY <1>7, <3>1, <3>2
  <2> QED
    BY <1>1, <2>1, <2>2
<1>12. BatchStored(new, s, batch, n + 1)
  BY <1>7, <1>8, <1>10, <1>11 DEF BatchStored
<1> QED
  BY <1>12 DEF new, d

LEMMA PersistedBatch ==
  ASSUME TypeOK, Distinct(traces), Distinct(edges), NEW s \in DOMAIN sessions,
         NEW batch \in Seq(Discoveries(s))
  PROVE  Persisted(s, batch) \in Db /\ BatchStored(Persisted(s, batch), s, batch, Len(batch))
<1>1. batch \in Seq(Discovery) /\ Len(batch) \in Nat /\ s \in Nat
  <2>1. \A i \in 1..Len(batch) : batch[i] \in Discovery
    BY DiscoveryParent
  <2> QED
    BY <2>1, Domains
<1>2. PICK f : Storing(f, s, batch) /\ Persisted(s, batch) = f[Len(batch)]
  BY <1>1, TablesTyped, PersistedStepwise
<1> DEFINE T == {n \in Nat : BatchStored(f[n], s, batch, n)}
<1>3. 0 \in T
  <2>1. f[0] = Tables /\ Tables.traces = traces /\ Tables.edges = edges
    BY <1>2 DEF Storing, Tables
  <2>2. traces \in Seq(Traces) /\ edges \in Seq(Row)
    BY <2>1, TablesTyped DEF Db
  <2>3. BatchStored(Tables, s, batch, 0)
    BY <2>1, <2>2, GrownSelf DEF BatchStored
  <2> QED
    BY <2>1, <2>3
<1>4. ASSUME NEW n \in 0..Len(batch), n \in T, n # Len(batch) PROVE n + 1 \in T
  <2>1. f[n] \in Db /\ f[n + 1] = StoreDiscovery(f[n], s, batch[n + 1])
    BY <1>4, <1>2 DEF Storing
  <2>2. BatchStored(f[n + 1], s, batch, n + 1)
    BY <1>4, <2>1, OneMoreStored
  <2> QED
    BY <1>1, <2>2
<1> HIDE DEF T
<1>5. \A n \in 0..Len(batch) : n \in T
  BY <1>1, <1>3, <1>4, BoundedInduction
<1>6. Len(batch) \in 0..Len(batch)
  BY <1>1
<1> QED
  BY <1>2, <1>5, <1>6 DEF T, Storing

-------------------------------------------------------------------------------
(***************************************************************************)
(* The steps.                                                              *)
(***************************************************************************)

Sessions == Seq([seed : Traces, step : {"created", "rooted", "seeded"}])

LEMMA Retyped ==
  ASSUME NEW A, NEW table \in Seq(A), NEW S, \A e \in Range(table) : e \in S
  PROVE  table \in Seq(S)
<1>1. /\ Len(table) \in Nat /\ DOMAIN table = 1..Len(table)
      /\ table = [i \in 1..Len(table) |-> table[i]]
  OBVIOUS
<1>2. \A i \in 1..Len(table) : table[i] \in S
  BY <1>1 DEF Range
<1> QED
  BY <1>1, <1>2

LEMMA TypesNext ==
  ASSUME TypeOK, sessions' \in Sessions, DOMAIN sessions \subseteq DOMAIN sessions',
         traces' \in Seq(Traces), Grown(traces', traces), edges' \in Seq(Row),
         \A e \in Range(edges') : e \in Range(edges) \/
           /\ e.parent \in {Null} \cup DOMAIN traces' /\ e.child \in DOMAIN traces'
           /\ e.scan \in DOMAIN sessions'
  PROVE  TypeOK'
<1>1. DOMAIN traces \subseteq DOMAIN traces'
  BY GrownRange, Domains
<1>2. \A e \in Range(edges') : e \in Row
  <2>1. \A i \in DOMAIN edges' : edges'[i] \in Row
    OBVIOUS
  <2> QED
    BY <2>1 DEF Range
<1> DEFINE S == [parent : {Null} \cup DOMAIN traces', child : DOMAIN traces',
                 plugin : Plugins \cup {SeedPlugin}, scan : DOMAIN sessions']
<1>3. ASSUME NEW e \in Range(edges') PROVE e \in S
  <2>1. /\ e = [parent |-> e.parent, child |-> e.child, plugin |-> e.plugin, scan |-> e.scan]
        /\ e.plugin \in Plugins \cup {SeedPlugin}
    BY <1>2, <1>3 DEF Row
  <2>2. /\ e.parent \in {Null} \cup DOMAIN traces' /\ e.child \in DOMAIN traces'
        /\ e.scan \in DOMAIN sessions'
    BY <1>1, <1>3, EdgeFields
  <2> QED
    BY <2>1, <2>2
<1>4. edges' \in Seq(S)
  <2> HIDE DEF S
  <2> QED
    BY <1>3, Retyped
<1> QED
  BY <1>4 DEF TypeOK, Sessions

LEMMA SeedIs ==
  ASSUME TypeOK, Rooted, NEW s \in DOMAIN sessions, sessions[s].step # "created"
  PROVE  /\ sessions[s].seed \in Range(traces) /\ sessions[s].seed \in Traces
         /\ Seed(s) \in DOMAIN traces
<1>1. sessions[s].seed \in Range(traces)
  BY DEF Rooted
<1>2. traces \in Seq(Traces)
  BY DEF TypeOK
<1>3. \A t \in Range(traces) : t \in Traces
  BY <1>2 DEF Range
<1> DEFINE t == sessions[s].seed
<1> HIDE DEF t
<1>4. t \in Range(traces) => Id(traces, t) \in DOMAIN traces
  BY <1>2, Identified
<1> QED
  BY <1>1, <1>3, <1>4 DEF Seed, t

\* Ends of the edges of a scan are nodes.
LEMMA EdgeNodes ==
  ASSUME TypeOK, NEW s, NEW e \in EdgesOf(s)
  PROVE  /\ e.child \in ScanNodes(s)
         /\ e.parent # Null => e.parent \in ScanNodes(s)
         /\ e \in Range(edges) /\ e.scan = s
BY EdgeFields DEF EdgesOf, ScanNodes

\* A seeded scan to which a step gives no edges.
LEMMA Unmoved ==
  ASSUME GraphInv, traces' \in Seq(Traces), Grown(traces', traces), Distinct(traces'),
         NEW s \in Seeded, sessions'[s] = sessions[s], EdgesOf(s)' = EdgesOf(s)
  PROVE  /\ Seed(s)' = Seed(s) /\ ScanNodes(s)' = ScanNodes(s) /\ ConnectedScan(s)'
         /\ \E e \in EdgesOf(s)' : e.parent = Null /\ e.child = Seed(s)'
<1>0. TypeOK /\ Rooted /\ traces \in Seq(Traces) /\ 0 \notin DOMAIN traces'
  BY Domains DEF GraphInv
<1>1. DOMAIN traces \subseteq DOMAIN traces'
  BY <1>0, GrownRange
<1>2. Seed(s)' = Seed(s)
  BY <1>0, SeedIs, IdKept DEF Seed, Seeded
<1>3. ScanNodes(s)' = ScanNodes(s)
  <2>1. \A e \in EdgesOf(s) : e.child \in DOMAIN traces /\ e.parent \in {Null} \cup DOMAIN traces
    BY <1>0, EdgeFields DEF EdgesOf
  <2> QED
    BY <1>0, <1>1, <2>1 DEF ScanNodes, Null
<1>4. ConnectedScan(s)'
  <2> SUFFICES ASSUME NEW X \in SUBSET DOMAIN traces', Seed(s) \in X, Children(s, X)' \subseteq X
               PROVE  ScanNodes(s) \subseteq X
    BY <1>2, <1>3 DEF ConnectedScan
  <2> DEFINE Y == X \cap DOMAIN traces
  <2>1. Children(s, Y) \subseteq Y
    <3>1. \A e \in EdgesOf(s) : e.child \in DOMAIN traces
      BY <1>0, EdgeFields DEF EdgesOf
    <3> QED
      BY <3>1 DEF Children
  <2>2. Seed(s) \in Y
    BY <1>0, SeedIs DEF Seeded
  <2> QED
    BY <2>1, <2>2 DEF GraphInv, Connected, ConnectedScan
<1>5. \E e \in EdgesOf(s)' : e.parent = Null /\ e.child = Seed(s)'
  BY <1>2 DEF GraphInv, SeedStored
<1> QED
  BY <1>2, <1>3, <1>4, <1>5

LEMMA CreateKeeps ==
  ASSUME GraphInv, NEW t \in Traces, CreateScanSession(t) PROVE GraphInv'
<1>0. TypeOK /\ traces' = traces /\ edges' = edges /\ Grown(traces', traces)
  BY Domains, GrownSelf DEF GraphInv, CreateScanSession
<1> DEFINE new == [seed |-> t, step |-> "created"]
<1>1. /\ sessions' = Append(sessions, new) /\ sessions' \in Sessions
      /\ DOMAIN sessions' = DOMAIN sessions \cup {Len(sessions) + 1}
      /\ Len(sessions) + 1 \notin DOMAIN sessions
      /\ \A s \in DOMAIN sessions : sessions'[s] = sessions[s]
      /\ sessions'[Len(sessions) + 1] = new
  BY <1>0, Domains DEF CreateScanSession, Sessions
<1>2. Seeded' = Seeded
  BY <1>1 DEF Seeded
<1>3. TypeOK'
  BY <1>0, <1>1, TablesTyped, TypesNext DEF Tables, Db, TypeOK
<1>4. \A s \in DOMAIN sessions : Seed(s)' = Seed(s)
  BY <1>0, <1>1 DEF Seed
<1>5. Rooted' /\ EdgesSeeded'
  <2>1. \A e \in Range(edges) : e.scan \in DOMAIN sessions
    BY <1>0, EdgeFields
  <2> QED
    BY <1>0, <1>1, <1>4, <2>1 DEF GraphInv, Rooted, EdgesSeeded
<1>6. SeedStored' /\ Connected'
  <2>1. ASSUME NEW s \in Seeded
        PROVE  ConnectedScan(s)' /\ \E e \in EdgesOf(s)' : e.parent = Null /\ e.child = Seed(s)'
    <3>1. EdgesOf(s)' = EdgesOf(s)
      BY <1>0 DEF EdgesOf
    <3>2. sessions'[s] = sessions[s]
      BY <1>1 DEF Seeded
    <3>3. traces' \in Seq(Traces) /\ Distinct(traces')
      BY <1>0 DEF GraphInv, TypeOK
    <3> QED
      BY <1>0, <3>1, <3>2, <3>3, Unmoved
  <2> QED
    BY <1>2, <2>1 DEF SeedStored, Connected
<1> QED
  BY <1>0, <1>3, <1>5, <1>6 DEF GraphInv

LEMMA SessionTyped ==
  ASSUME TypeOK, NEW s \in DOMAIN sessions
  PROVE  /\ sessions[s].seed \in Traces /\ sessions[s].step \in {"created", "rooted", "seeded"}
         /\ sessions[s] \in [seed : Traces, step : {"created", "rooted", "seeded"}]
<1> DEFINE S == [seed : Traces, step : {"created", "rooted", "seeded"}]
<1>1. sessions[s] \in S
  <2>1. sessions \in Seq(S)
    BY DEF TypeOK
  <2> HIDE DEF S
  <2> QED
    BY <2>1
<1> QED
  BY <1>1

LEMMA StepTaken ==
  ASSUME TypeOK, NEW s \in DOMAIN sessions, NEW st \in {"created", "rooted", "seeded"},
         sessions' = [sessions EXCEPT ![s].step = st]
  PROVE  /\ sessions' \in Sessions /\ DOMAIN sessions' = DOMAIN sessions
         /\ sessions'[s].step = st
         /\ \A q \in DOMAIN sessions : sessions'[q].seed = sessions[q].seed
         /\ \A q \in DOMAIN sessions : q # s => sessions'[q] = sessions[q]
<1> DEFINE S == [seed : Traces, step : {"created", "rooted", "seeded"}]
<1>1. sessions \in Seq(S) /\ \A q \in DOMAIN sessions : sessions[q] \in S
  <2>1. sessions \in Seq(S)
    BY DEF TypeOK
  <2> HIDE DEF S
  <2> QED
    BY <2>1
<1>2. [sessions[s] EXCEPT !.step = st] \in S
  BY <1>1
<1>3. sessions' = [sessions EXCEPT ![s] = [sessions[s] EXCEPT !.step = st]]
  OBVIOUS
<1> HIDE DEF S
<1>4. sessions' \in Seq(S)
  BY <1>1, <1>2, <1>3
<1>5. sessions'[s] = [sessions[s] EXCEPT !.step = st]
  BY <1>3
<1>6. sessions'[s].step = st /\ sessions'[s].seed = sessions[s].seed
  BY <1>1, <1>5 DEF S
<1>7. \A q \in DOMAIN sessions : q # s => sessions'[q] = sessions[q]
  BY <1>3
<1>8. DOMAIN sessions' = DOMAIN sessions
  BY <1>3
<1> QED
  BY <1>4, <1>6, <1>7, <1>8 DEF S, Sessions

\* The seeds of scans that have one keep their ids.
LEMMA SeedKept ==
  ASSUME TypeOK, Rooted, traces' \in Seq(Traces), Grown(traces', traces), Distinct(traces'),
         NEW s \in DOMAIN sessions, sessions[s].step # "created",
         sessions'[s].seed = sessions[s].seed
  PROVE  Seed(s)' = Seed(s)
<1>1. sessions[s].seed \in Range(traces) /\ traces \in Seq(Traces)
  BY SeedIs, Domains
<1> QED
  BY <1>1, IdKept DEF Seed

LEMMA RootKeeps ==
  ASSUME GraphInv, NEW s \in DOMAIN sessions, GetOrCreateTrace(s) PROVE GraphInv'
<1>0. TypeOK /\ Rooted /\ edges' = edges /\ sessions[s].step = "created"
  BY DEF GraphInv, GetOrCreateTrace
<1>1. /\ sessions' \in Sessions /\ DOMAIN sessions' = DOMAIN sessions
      /\ sessions'[s].step = "rooted"
      /\ \A q \in DOMAIN sessions : sessions'[q].seed = sessions[q].seed
      /\ \A q \in DOMAIN sessions : q # s => sessions'[q] = sessions[q]
  BY <1>0, StepTaken DEF GetOrCreateTrace
<1>2. /\ traces' \in Seq(Traces) /\ Grown(traces', traces) /\ Distinct(traces')
      /\ Range(traces') = Range(traces) \cup {sessions[s].seed}
  <2>1. sessions[s].seed \in Traces
    BY <1>0, SessionTyped
  <2> QED
    BY <1>0, <2>1, Domains, Resolved DEF GetOrCreateTrace, GraphInv
<1>3. Seeded' = Seeded /\ s \notin Seeded
  BY <1>0, <1>1 DEF Seeded
<1>4. TypeOK'
  <2>1. edges' \in Seq(Row)
    BY <1>0, TablesTyped DEF Tables, Db
  <2> QED
    BY <1>0, <1>1, <1>2, <2>1, TypesNext
<1>5. Rooted'
  BY <1>0, <1>1, <1>2 DEF Rooted
<1>6. EdgesSeeded'
  <2> SUFFICES ASSUME NEW e \in Range(edges)
               PROVE  /\ sessions'[e.scan].step = "seeded"
                      /\ e.parent = Null => e.child = Seed(e.scan)'
    BY <1>0 DEF EdgesSeeded
  <2>1. /\ e.scan \in DOMAIN sessions /\ sessions[e.scan].step = "seeded"
        /\ e.parent = Null => e.child = Seed(e.scan)
    BY <1>0, EdgeFields DEF GraphInv, EdgesSeeded
  <2>2. e.scan # s
    BY <1>0, <2>1
  <2>3. Seed(e.scan)' = Seed(e.scan)
    BY <1>0, <1>1, <1>2, <2>1, SeedKept
  <2> QED
    BY <1>1, <2>1, <2>2, <2>3
<1>7. SeedStored' /\ Connected'
  <2>1. ASSUME NEW q \in Seeded
        PROVE  ConnectedScan(q)' /\ \E e \in EdgesOf(q)' : e.parent = Null /\ e.child = Seed(q)'
    <3>1. EdgesOf(q)' = EdgesOf(q)
      BY <1>0 DEF EdgesOf
    <3>2. sessions'[q] = sessions[q]
      BY <1>1, <1>3 DEF Seeded
    <3> QED
      BY <1>2, <3>1, <3>2, Unmoved
  <2> QED
    BY <1>3, <2>1 DEF SeedStored, Connected
<1>8. Distinct(traces') /\ Distinct(edges')
  BY <1>0, <1>2 DEF GraphInv
<1> QED
  BY <1>4, <1>5, <1>6, <1>7, <1>8 DEF GraphInv

LEMMA SeedEdgeKeeps ==
  ASSUME GraphInv, NEW s \in DOMAIN sessions, InsertSeedEdge(s) PROVE GraphInv'
<1> DEFINE row == [parent |-> Null, child |-> Seed(s), plugin |-> SeedPlugin, scan |-> s]
<1>0. /\ TypeOK /\ Rooted /\ traces' = traces /\ sessions[s].step = "rooted"
      /\ edges' = InsertEdge(edges, row) /\ traces \in Seq(Traces) /\ Grown(traces', traces)
      /\ Distinct(traces') /\ edges \in Seq(Row)
  BY Domains, GrownSelf, TablesTyped DEF GraphInv, InsertSeedEdge, Tables, Db
<1>1. /\ sessions' \in Sessions /\ DOMAIN sessions' = DOMAIN sessions
      /\ sessions'[s].step = "seeded"
      /\ \A q \in DOMAIN sessions : sessions'[q].seed = sessions[q].seed
      /\ \A q \in DOMAIN sessions : q # s => sessions'[q] = sessions[q]
  BY <1>0, StepTaken DEF InsertSeedEdge
<1>2. Seed(s) \in DOMAIN traces /\ 0 \notin DOMAIN traces /\ \A i \in DOMAIN traces : i \in Nat
  BY <1>0, SeedIs, Domains
<1>3. /\ row.parent = Null /\ row.child = Seed(s) /\ row.scan = s
      /\ row \in Row /\ s \in Nat
  BY <1>0, <1>2, Domains DEF Row, Null
<1>4. \A e \in Range(edges) : e.scan # s /\ e.scan \in DOMAIN sessions
  BY <1>0, EdgeFields DEF GraphInv, EdgesSeeded
<1> HIDE DEF row
<1>5. row \notin Range(edges)
  BY <1>3, <1>4
<1>6. edges' \in Seq(Row) /\ Range(edges') = Range(edges) \cup {row} /\ Distinct(edges')
  BY <1>0, <1>3, <1>5, EdgeInserted DEF GraphInv
<1>7. \A q \in DOMAIN sessions : Seed(q)' = Seed(q)
  BY <1>0, <1>1 DEF Seed
<1>8. EdgesOf(s)' = {row} /\ \A q \in DOMAIN sessions : q # s => EdgesOf(q)' = EdgesOf(q)
  BY <1>3, <1>4, <1>6 DEF EdgesOf
<1>9. Seeded' = Seeded \cup {s} /\ s \notin Seeded
  BY <1>0, <1>1 DEF Seeded
<1>10. TypeOK'
  BY <1>0, <1>1, <1>2, <1>3, <1>6, TypesNext
<1>11. Rooted'
  BY <1>0, <1>1 DEF Rooted
<1>12. EdgesSeeded'
  <2> SUFFICES ASSUME NEW e \in Range(edges')
               PROVE  /\ sessions'[e.scan].step = "seeded"
                      /\ e.parent = Null => e.child = Seed(e.scan)'
    BY DEF EdgesSeeded
  <2>1. CASE e = row
    BY <1>1, <1>3, <1>7, <2>1
  <2>2. CASE e \in Range(edges)
    BY <1>1, <1>4, <1>7, <2>2 DEF GraphInv, EdgesSeeded
  <2> QED
    BY <1>6, <2>1, <2>2
<1>13. SeedStored' /\ Connected'
  <2>1. ASSUME NEW q \in Seeded'
        PROVE  ConnectedScan(q)' /\ \E e \in EdgesOf(q)' : e.parent = Null /\ e.child = Seed(q)'
    <3>1. CASE q = s
      <4>1. \A i \in ScanNodes(s)' : i = Seed(s)
        BY <1>0, <1>2, <1>3, <1>8 DEF ScanNodes, Null
      <4>2. ConnectedScan(s)'
        BY <1>7, <4>1 DEF ConnectedScan
      <4> QED
        BY <1>3, <1>7, <1>8, <3>1, <4>2
    <3>2. CASE q # s
      <4>1. q \in Seeded /\ q \in DOMAIN sessions
        BY <1>9, <3>2 DEF Seeded
      <4>2. sessions'[q] = sessions[q] /\ EdgesOf(q)' = EdgesOf(q)
        BY <1>1, <1>8, <3>2, <4>1
      <4> QED
        BY <1>0, <4>1, <4>2, Unmoved
    <3> QED
      BY <3>1, <3>2
  <2> QED
    BY <2>1 DEF SeedStored, Connected
<1> QED
  BY <1>0, <1>6, <1>10, <1>11, <1>12, <1>13 DEF GraphInv

\* Every batch is a sequence of discoveries.
LEMMA BatchIsSeq ==
  ASSUME NEW s, NEW batch \in Batches(s) PROVE batch \in Seq(Discoveries(s))
<1>1. PICK n \in 1..MaxBatch : batch \in [1..n -> Discoveries(s)]
  BY DEF Batches, Discoveries
<1>2. n \in Nat
  BY BoundAssumption
<1> HIDE DEF Discoveries
<1> QED
  BY <1>1, <1>2

LEMMA PersistKeeps ==
  ASSUME GraphInv, NEW s \in DOMAIN sessions, NEW batch \in Batches(s),
         PersistDiscoveries(s, batch)
  PROVE  GraphInv'
<1> DEFINE db == Persisted(s, batch)
<1>0. /\ TypeOK /\ Rooted /\ sessions' = sessions /\ sessions[s].step = "seeded"
      /\ traces' = db.traces /\ edges' = db.edges
  BY DEF GraphInv, PersistDiscoveries
<1>1. db \in Db /\ BatchStored(db, s, batch, Len(batch))
  BY BatchIsSeq, PersistedBatch DEF GraphInv
<1> HIDE DEF db
<1>2. /\ traces' \in Seq(Traces) /\ Grown(traces', traces) /\ Distinct(traces')
      /\ edges' \in Seq(Row) /\ Grown(edges', edges) /\ Distinct(edges')
  BY <1>0, <1>1 DEF Db, BatchStored
<1>3. ASSUME NEW e \in Range(edges'), e \notin Range(edges)
      PROVE  /\ e.scan = s /\ e.parent \in ScanNodes(s) /\ e.parent # Null
             /\ e.parent \in DOMAIN traces' /\ e.child \in DOMAIN traces'
  <2>1. /\ e.scan = s /\ e.parent \in ScanNodes(s) /\ e.parent # Null /\ e.child \in DOMAIN traces'
    BY <1>0, <1>1, <1>3 DEF BatchStored
  <2>2. e.parent \in DOMAIN traces'
    BY <1>0, <1>2, <2>1, Domains, GrownRange DEF ScanNodes
  <2> QED
    BY <2>1, <2>2
<1>4. TypeOK'
  <2>1. sessions' \in Sessions
    BY <1>0, Domains DEF Sessions
  <2> QED
    BY <1>0, <1>2, <1>3, <2>1, TypesNext
<1>5. Range(traces) \subseteq Range(traces') /\ Range(edges) \subseteq Range(edges')
  <2>1. traces \in Seq(Traces) /\ edges \in Seq(Row)
    BY <1>0, Domains, TablesTyped DEF Tables, Db
  <2> QED
    BY <1>2, <2>1, GrownRange
<1>6. Rooted'
  BY <1>0, <1>5 DEF Rooted
<1>7. \A q \in DOMAIN sessions : sessions[q].step # "created" => Seed(q)' = Seed(q)
  BY <1>0, <1>2, SeedKept
<1>8. EdgesSeeded'
  <2> SUFFICES ASSUME NEW e \in Range(edges')
               PROVE  /\ sessions[e.scan].step = "seeded"
                      /\ e.parent = Null => e.child = Seed(e.scan)'
    BY <1>0 DEF EdgesSeeded
  <2>1. CASE e \notin Range(edges)
    BY <1>0, <1>3, <2>1
  <2>2. CASE e \in Range(edges)
    <3>1. /\ e.scan \in DOMAIN sessions /\ sessions[e.scan].step = "seeded"
          /\ e.parent = Null => e.child = Seed(e.scan)
      BY <1>0, <2>2, EdgeFields DEF GraphInv, EdgesSeeded
    <3> QED
      BY <1>7, <3>1
  <2> QED
    BY <2>1, <2>2
<1>9. Seeded' = Seeded /\ s \in Seeded
  BY <1>0 DEF Seeded
<1>10. EdgesOf(s) \subseteq EdgesOf(s)'
  BY <1>5 DEF EdgesOf
<1>11. ConnectedScan(s)'
  <2> SUFFICES ASSUME NEW X \in SUBSET DOMAIN traces', Seed(s) \in X, Children(s, X)' \subseteq X
               PROVE  ScanNodes(s)' \subseteq X
    BY <1>0, <1>7 DEF ConnectedScan
  <2> DEFINE Y == X \cap DOMAIN traces
  <2>1. Children(s, Y) \subseteq Y
    <3>1. \A e \in EdgesOf(s) : e.child \in DOMAIN traces
      BY <1>0, EdgeFields DEF EdgesOf
    <3> QED
      BY <1>10, <3>1 DEF Children
  <2>2. Seed(s) \in Y
    BY <1>0, SeedIs
  <2>3. ScanNodes(s) \subseteq X
    BY <1>9, <2>1, <2>2 DEF GraphInv, Connected, ConnectedScan
  <2>4. ASSUME NEW e \in EdgesOf(s)' PROVE e.child \in X /\ e.parent \in X \cup {Null}
    <3>1. CASE e \in EdgesOf(s)
      BY <1>0, <2>3, <3>1, EdgeNodes
    <3>2. CASE e \notin EdgesOf(s)
      <4>1. e \in Range(edges') /\ e \notin Range(edges)
        BY <2>4, <3>2 DEF EdgesOf
      <4>2. e.parent \in X
        BY <1>3, <2>3, <4>1
      <4>3. e.child \in Children(s, X)'
        BY <2>4, <4>2 DEF Children
      <4> QED
        BY <4>2, <4>3
    <3> QED
      BY <3>1, <3>2
  <2>5. Null \notin DOMAIN traces'
    BY <1>4, <1>2 DEF Null
  <2> QED
    BY <2>4, <2>5 DEF ScanNodes
<1>12. SeedStored' /\ Connected'
  <2>1. ASSUME NEW q \in Seeded
        PROVE  ConnectedScan(q)' /\ \E e \in EdgesOf(q)' : e.parent = Null /\ e.child = Seed(q)'
    <3>1. CASE q = s
      <4>1. \E e \in EdgesOf(s) : e.parent = Null /\ e.child = Seed(s)
        BY <1>9 DEF GraphInv, SeedStored
      <4> QED
        BY <1>0, <1>7, <1>10, <1>11, <3>1, <4>1
    <3>2. CASE q # s
      <4>1. EdgesOf(q)' = EdgesOf(q)
        BY <1>3, <1>5, <3>2 DEF EdgesOf
      <4> QED
        BY <1>0, <1>2, <4>1, Unmoved
    <3> QED
      BY <3>1, <3>2
  <2> QED
    BY <1>9, <2>1 DEF SeedStored, Connected
<1> QED
  BY <1>2, <1>4, <1>6, <1>8, <1>12 DEF GraphInv

LEMMA GraphInvInit == Init => GraphInv
<1> SUFFICES ASSUME Init PROVE GraphInv
  OBVIOUS
<1>1. sessions = <<>> /\ traces = <<>> /\ edges = <<>>
  BY DEF Init
<1>2. TypeOK
  BY <1>1 DEF TypeOK
<1>3. DOMAIN traces = {} /\ DOMAIN edges = {} /\ DOMAIN sessions = {} /\ Range(edges) = {}
  BY <1>1 DEF Range
<1> QED
  BY <1>2, <1>3 DEF GraphInv, Distinct, Rooted, EdgesSeeded, SeedStored, Connected, Seeded

LEMMA GraphInvStep == GraphInv /\ [Next]_vars => GraphInv'
<1> SUFFICES ASSUME GraphInv, [Next]_vars PROVE GraphInv'
  OBVIOUS
<1>1. CASE UNCHANGED vars
  <2>1. sessions' = sessions /\ traces' = traces /\ edges' = edges
    BY <1>1 DEF vars
  <2>2. /\ \A s : Seed(s)' = Seed(s) /\ EdgesOf(s)' = EdgesOf(s)
        /\ Seeded' = Seeded
    BY <2>1 DEF Seed, EdgesOf, Seeded
  <2>3. \A s : ScanNodes(s)' = ScanNodes(s) /\ \A X : Children(s, X)' = Children(s, X)
    BY <2>1, <2>2 DEF ScanNodes, Children
  <2>4. TypeOK' /\ Distinct(traces') /\ Distinct(edges')
    BY <2>1 DEF GraphInv, TypeOK
  <2>5. Rooted' /\ EdgesSeeded'
    BY <2>1, <2>2 DEF GraphInv, Rooted, EdgesSeeded
  <2>6. SeedStored'
    BY <2>2 DEF GraphInv, SeedStored
  <2>7. Connected'
    BY <2>1, <2>2, <2>3 DEF GraphInv, Connected, ConnectedScan
  <2> QED
    BY <2>4, <2>5, <2>6, <2>7 DEF GraphInv
<1>2. ASSUME NEW t \in Traces, CreateScanSession(t) PROVE GraphInv'
  BY <1>2, CreateKeeps
<1>3. ASSUME NEW s \in DOMAIN sessions, GetOrCreateTrace(s) PROVE GraphInv'
  BY <1>3, RootKeeps
<1>4. ASSUME NEW s \in DOMAIN sessions, InsertSeedEdge(s) PROVE GraphInv'
  BY <1>4, SeedEdgeKeeps
<1>5. ASSUME NEW s \in DOMAIN sessions, NEW batch \in Batches(s), PersistDiscoveries(s, batch)
      PROVE  GraphInv'
  BY <1>5, PersistKeeps
<1> QED
  BY <1>1, <1>2, <1>3, <1>4, <1>5 DEF Next

LEMMA GraphInvariant == Spec => []GraphInv
BY GraphInvInit, GraphInvStep, PTL DEF Spec

\* The tables hold what the columns are declared to hold, and an edge refers to rows
\* that are there: CreateScanSession, GetOrCreateTrace, InsertSeedEdge and
\* PersistDiscoveries keep the foreign keys of trace_edges, for any number of scans.
THEOREM GraphTypeCorrect == Spec => []TypeOK
<1>1. GraphInv => TypeOK
  BY DEF GraphInv
<1> QED
  BY <1>1, GraphInvariant, PTL

-------------------------------------------------------------------------------
(***************************************************************************)
(* What PersistDiscoveries promises.                                       *)
(***************************************************************************)

LEMMA Replayed ==
  ASSUME GraphInv, NEW s \in Seeded, NEW d \in Discoveries(s)
  PROVE  StoreDiscovery(Persisted(s, <<d>>), s, d) = Persisted(s, <<d>>)
<1> DEFINE once == Persisted(s, <<d>>)
<1>1. <<d>> \in Seq(Discoveries(s)) /\ Len(<<d>>) = 1 /\ <<d>>[1] = d
  OBVIOUS
<1>2. TypeOK /\ s \in DOMAIN sessions /\ s \in Nat /\ d \in Discovery
  BY Domains, DiscoveryParent DEF GraphInv, Seeded
<1>3. once \in Db /\ BatchStored(once, s, <<d>>, 1)
  BY <1>1, <1>2, PersistedBatch DEF GraphInv
<1> HIDE DEF once
<1>4. /\ d.parent \in Range(once.traces) /\ d.child \in Range(once.traces)
      /\ EdgeOf(once.traces, s, d) \in Range(once.edges)
  BY <1>1, <1>3 DEF BatchStored
<1>5. StoreDiscovery(once, s, d) = once
  BY <1>2, <1>3, <1>4, StoredAgain
<1> QED
  BY <1>5 DEF once

\* What a scan finds again is not stored again, whoever stored it first: the unique
\* constraints of traces and trace_edges make PersistDiscoveries idempotent, and
\* neither table ever holds a row twice.
THEOREM ReplayChangesNothing == Spec => []ReplayIsNoOp
<1>1. GraphInv => ReplayIsNoOp
  <2> SUFFICES ASSUME GraphInv PROVE ReplayIsNoOp
    OBVIOUS
  <2>1. RowsUnique
    BY DEF RowsUnique, GraphInv, Distinct
  <2> QED
    BY <2>1, Replayed DEF ReplayIsNoOp, Discoveries
<1> QED
  BY <1>1, GraphInvariant, PTL

LEMMA StoredBatch ==
  ASSUME GraphInv, NEW s \in Seeded, NEW batch \in Batches(s), PersistDiscoveries(s, batch),
         NEW i \in DOMAIN batch
  PROVE  \E e \in Range(edges') :
           /\ e.parent \in DOMAIN traces' /\ traces'[e.parent] = batch[i].parent
           /\ traces'[e.child] = batch[i].child
           /\ e.plugin = batch[i].plugin
           /\ e.scan = s
<1> DEFINE db == Persisted(s, batch)
<1>1. TypeOK /\ s \in DOMAIN sessions /\ s \in Nat
  BY Domains DEF GraphInv, Seeded
<1>2. batch \in Seq(Discoveries(s)) /\ db \in Db /\ BatchStored(db, s, batch, Len(batch))
  BY <1>1, BatchIsSeq, PersistedBatch DEF GraphInv
<1>3. traces' = db.traces /\ edges' = db.edges /\ traces' \in Seq(Traces)
  BY <1>2 DEF PersistDiscoveries, Db
<1> HIDE DEF db
<1> DEFINE d == batch[i]
<1>4. d \in Discovery /\ i \in 1..Len(batch)
  BY <1>1, <1>2, DiscoveryParent
<1>5. /\ d.parent \in Range(traces') /\ d.child \in Range(traces')
      /\ EdgeOf(traces', s, d) \in Range(edges')
  BY <1>2, <1>3, <1>4 DEF BatchStored
<1> HIDE DEF d
<1>6. /\ EdgeOf(traces', s, d).parent \in DOMAIN traces'
      /\ traces'[EdgeOf(traces', s, d).parent] = d.parent
      /\ traces'[EdgeOf(traces', s, d).child] = d.child
      /\ EdgeOf(traces', s, d).plugin = d.plugin /\ EdgeOf(traces', s, d).scan = s
  BY <1>1, <1>3, <1>4, <1>5, EdgeOfType, ZenonT(40)
<1> QED
  BY <1>5, <1>6 DEF d

\* spec/trace_graph.md's "PersistDiscoveries_MultiParent", for batches of any size
\* and any number of scans: every discovery of a batch has its edge afterwards.
THEOREM DiscoveriesAreStored == Spec => EveryDiscoveryStored
<1>1. GraphInv => (\A s \in Seeded : \A discoveries \in Batches(s) :
       PersistDiscoveries(s, discoveries) =>
         \A i \in DOMAIN discoveries : \E e \in Range(edges') :
           /\ e.parent \in DOMAIN traces' /\ traces'[e.parent] = discoveries[i].parent
           /\ traces'[e.child] = discoveries[i].child
           /\ e.plugin = discoveries[i].plugin
           /\ e.scan = s)
  BY StoredBatch
<1> QED
  BY <1>1, GraphInvariant, PTL DEF EveryDiscoveryStored

-------------------------------------------------------------------------------
(***************************************************************************)
(* Spreading along a relation: a set that does not grow is closed under    *)
(* the relation, and it can grow at most as often as there are nodes.      *)
(***************************************************************************)

Image(R, nodes) == {pair[2] : pair \in {q \in R : q[1] \in nodes}}

Spreads(f, U, R, m) == \A n \in 0..m :
  n # m /\ f[n] \in SUBSET U => f[n + 1] = f[n] \cup Image(R, f[n])

LEMMA SpreadCloses ==
  ASSUME NEW m \in Nat, NEW U, IsFiniteSet(U), Cardinality(U) <= m, NEW R \in SUBSET (U \X U),
         NEW start \in U, NEW f, f[0] = {start}, Spreads(f, U, R, m)
  PROVE  /\ \A n \in 0..m : start \in f[n] /\ f[n] \in SUBSET U
         /\ Image(R, f[m]) \subseteq f[m]
<1> DEFINE Full(n) == Image(R, f[n]) \subseteq f[n] \/ Cardinality(f[n]) > n
           T == {n \in Nat : start \in f[n] /\ f[n] \in SUBSET U /\ Full(n)}
<1>1. 0 \in T
  <2>1. Cardinality({start}) = 1
    BY FS_Singleton
  <2>2. Cardinality(f[0]) > 0
    BY <2>1
  <2> QED
    BY <2>2
<1>2. ASSUME NEW n \in 0..m, n \in T, n # m PROVE n + 1 \in T
  <2>1. f[n + 1] = f[n] \cup Image(R, f[n]) /\ n + 1 \in Nat
    BY <1>2 DEF Spreads
  <2>2. start \in f[n + 1] /\ f[n + 1] \in SUBSET U
    BY <1>2, <2>1 DEF Image
  <2>3. CASE Image(R, f[n]) \subseteq f[n]
    <3>1. f[n + 1] = f[n]
      BY <2>1, <2>3
    <3> QED
      BY <2>1, <2>2, <2>3, <3>1
  <2>4. CASE ~(Image(R, f[n]) \subseteq f[n])
    <3>1. PICK x \in Image(R, f[n]) : x \notin f[n]
      BY <2>4
    <3>2. IsFiniteSet(f[n]) /\ IsFiniteSet(f[n + 1])
      BY <1>2, <2>2, FS_Subset
    <3> DEFINE more == f[n] \cup {x}
    <3>3. IsFiniteSet(more) /\ Cardinality(more) = Cardinality(f[n]) + 1
      BY <3>1, <3>2, FS_AddElement
    <3>4. more \subseteq f[n + 1]
      BY <2>1, <3>1
    <3>5. Cardinality(more) <= Cardinality(f[n + 1])
      BY <3>2, <3>4, FS_Subset
    <3>6. Cardinality(f[n]) \in Nat /\ Cardinality(f[n]) > n /\ Cardinality(f[n + 1]) \in Nat
      BY <1>2, <2>4, <3>2, FS_CardinalityType
    <3>7. Cardinality(f[n + 1]) > n + 1
      BY <3>3, <3>5, <3>6
    <3> QED
      BY <2>1, <2>2, <3>7, Zenon
  <2> QED
    BY <2>3, <2>4
<1> HIDE DEF T
<1>3. \A n \in 0..m : n \in T
  BY <1>1, <1>2, BoundedInduction
<1>4. f[m] \in SUBSET U /\ Full(m)
  BY <1>3 DEF T
<1>5. Cardinality(f[m]) <= Cardinality(U) /\ Cardinality(f[m]) \in Nat /\ Cardinality(U) \in Nat
  BY <1>4, FS_Subset, FS_CardinalityType
<1> QED
  BY <1>3, <1>4, <1>5 DEF T

LEMMA Monotone ==
  ASSUME NEW m \in Nat, NEW f, \A n \in 0..m : n # m => f[n] \subseteq f[n + 1],
         NEW h \in 0..m, NEW n \in h..m
  PROVE  f[h] \subseteq f[n]
<1> DEFINE T == {k \in Nat : h <= k => f[h] \subseteq f[k]}
<1>1. 0 \in T
  OBVIOUS
<1>2. ASSUME NEW k \in 0..m, k \in T, k # m PROVE k + 1 \in T
  <2>1. CASE h = k + 1
    BY <2>1
  <2>2. CASE h # k + 1
    <3>1. h <= k + 1 => h <= k
      BY <2>2
    <3> QED
      BY <1>2, <3>1
  <2> QED
    BY <2>1, <2>2
<1> HIDE DEF T
<1>3. \A k \in 0..m : k \in T
  BY <1>1, <1>2, BoundedInduction
<1> QED
  BY <1>3 DEF T

\* The edges of a scan from trace to trace, and backwards.
Links(s) == {<<e.parent, e.child>> : e \in {d \in EdgesOf(s) : d.parent # Null}}

LinksBack(s) == {<<e.child, e.parent>> : e \in {d \in EdgesOf(s) : d.parent # Null}}

LEMMA DomainSize ==
  ASSUME TypeOK PROVE IsFiniteSet(DOMAIN traces) /\ Cardinality(DOMAIN traces) <= Len(traces)
<1> DEFINE m == Len(traces)
           all == 1..m
<1>1. m \in Nat /\ DOMAIN traces = all
  BY Domains
<1> HIDE DEF m
<1>2. IsFiniteSet(all) /\ Cardinality(all) = IF 1 > m THEN 0 ELSE m - 1 + 1
  BY <1>1, FS_Interval
<1> HIDE DEF all
<1>3. Cardinality(all) <= m
  BY <1>1, <1>2
<1> QED
  BY <1>1, <1>2, <1>3 DEF m

LEMMA LinksOf ==
  ASSUME TypeOK, NEW s
  PROVE  /\ Links(s) \in SUBSET ((DOMAIN traces) \X (DOMAIN traces))
         /\ LinksBack(s) \in SUBSET ((DOMAIN traces) \X (DOMAIN traces))
         /\ \A set \in SUBSET DOMAIN traces : Children(s, set) = Image(Links(s), set)
<1>1. \A e \in EdgesOf(s) : /\ e.child \in DOMAIN traces
                            /\ e.parent # Null => e.parent \in DOMAIN traces
  BY EdgeFields DEF EdgesOf
<1>2. Null \notin DOMAIN traces
  BY Domains DEF Null
<1>3. ASSUME NEW set \in SUBSET DOMAIN traces PROVE Children(s, set) = Image(Links(s), set)
  <2>1. ASSUME NEW c \in Children(s, set) PROVE c \in Image(Links(s), set)
    <3>1. PICK e \in EdgesOf(s) : e.parent \in set /\ e.child = c
      BY <2>1 DEF Children
    <3>2. <<e.parent, c>> \in Links(s)
      BY <1>2, <3>1 DEF Links
    <3> QED
      BY <3>1, <3>2 DEF Image
  <2>2. ASSUME NEW c \in Image(Links(s), set) PROVE c \in Children(s, set)
    BY <2>2 DEF Children, Image, Links
  <2> QED
    BY <2>1, <2>2
<1>4. Links(s) \in SUBSET ((DOMAIN traces) \X (DOMAIN traces))
  <2> SUFFICES ASSUME NEW e \in EdgesOf(s), e.parent # Null
               PROVE  <<e.parent, e.child>> \in (DOMAIN traces) \X (DOMAIN traces)
    BY Zenon DEF Links
  <2>1. e.parent \in DOMAIN traces /\ e.child \in DOMAIN traces
    BY <1>1
  <2> QED
    BY <2>1
<1>5. LinksBack(s) \in SUBSET ((DOMAIN traces) \X (DOMAIN traces))
  <2> SUFFICES ASSUME NEW e \in EdgesOf(s), e.parent # Null
               PROVE  <<e.child, e.parent>> \in (DOMAIN traces) \X (DOMAIN traces)
    BY Zenon DEF LinksBack
  <2>1. e.parent \in DOMAIN traces /\ e.child \in DOMAIN traces
    BY <1>1
  <2> QED
    BY <2>1
<1> QED
  BY <1>3, <1>4, <1>5

-------------------------------------------------------------------------------
(***************************************************************************)
(* Balls, and the nodes of a scan.                                         *)
(***************************************************************************)

Closed(s, nodes) == Children(s, nodes) \subseteq nodes

LEMMA BallRecursive ==
  ASSUME NEW s, NEW start
  PROVE  Ball(s, start) = CHOOSE f : f =
           [n \in 0..Len(traces) |-> IF n = 0 THEN {start}
                                     ELSE f[n - 1] \cup Children(s, f[n - 1])]
BY Zenon DEF Ball

LEMMA ChildrenTyped ==
  ASSUME TypeOK, NEW s, NEW nodes PROVE Children(s, nodes) \in SUBSET DOMAIN traces
BY EdgeFields DEF Children, EdgesOf

LEMMA BallUnfolds ==
  ASSUME TypeOK, NEW s, NEW start \in DOMAIN traces
  PROVE  /\ Ball(s, start)[0] = {start}
         /\ \A n \in 1..Len(traces) :
              Ball(s, start)[n] = Ball(s, start)[n - 1] \cup Children(s, Ball(s, start)[n - 1])
<1> DEFINE len == Len(traces)
           S == SUBSET DOMAIN traces
           grow(set) == set \cup Children(s, set)
           step == [n \in 1..len |-> [set \in S |-> grow(set)]]
<1>0. len \in Nat /\ {start} \in S
  BY Domains
<1>1. \A set \in S : grow(set) \in S
  BY ChildrenTyped
<1>2. step \in [1..len -> [S -> S]]
  BY <1>1
<1>3. PICK f \in [0..len -> S] : Unfolds(f, len, {start}, step)
  <2> HIDE DEF step, len, S
  <2> QED
    BY <1>0, <1>2, Recursion
<1>4. \A n \in 1..len : n - 1 \in 0..len
  BY <1>0
<1>5. f[0] = {start} /\ \A n \in 1..len : f[n] = grow(f[n - 1])
  <2>1. \A n \in 1..len : f[n - 1] \in S
    BY <1>4
  <2> HIDE DEF grow, S
  <2> QED
    BY <1>3, <2>1 DEF Unfolds
<1>6. f = [n \in 0..len |-> IF n = 0 THEN {start} ELSE grow(f[n - 1])]
  <2>1. \A n \in 0..len : n # 0 => n \in 1..len
    BY <1>0
  <2> HIDE DEF grow
  <2> QED
    BY <1>3, <1>5, <2>1
<1> DEFINE g == CHOOSE h : h = [n \in 0..len |-> IF n = 0 THEN {start} ELSE grow(h[n - 1])]
<1>7. g = [n \in 0..len |-> IF n = 0 THEN {start} ELSE grow(g[n - 1])]
  BY <1>6, Zenon
<1>8. Ball(s, start) = g
  BY BallRecursive, Zenon
<1> HIDE DEF g
<1>9. \A n \in 0..len : g[n] = IF n = 0 THEN {start} ELSE grow(g[n - 1])
  BY <1>7, Zenon
<1>10. 0 \in 0..len /\ \A n \in 1..len : n \in 0..len /\ n # 0
  BY <1>0
<1>11. g[0] = {start} /\ \A n \in 1..len : g[n] = grow(g[n - 1])
  BY <1>9, <1>10, Zenon
<1> QED
  BY <1>8, <1>11, Zenon

LEMMA BallGrows ==
  ASSUME TypeOK, NEW s, NEW start \in DOMAIN traces
  PROVE  /\ \A n \in 0..Len(traces) :
              start \in Ball(s, start)[n] /\ Ball(s, start)[n] \in SUBSET DOMAIN traces
         /\ \A n \in 0..Len(traces) : n # Len(traces) =>
              Ball(s, start)[n + 1] = Ball(s, start)[n] \cup Children(s, Ball(s, start)[n])
         /\ Closed(s, Ball(s, start)[Len(traces)])
<1> DEFINE len == Len(traces)
           U == DOMAIN traces
           ball == Ball(s, start)
<1>0. len \in Nat
  BY Domains
<1>1. ASSUME NEW n \in 0..len, n # len
      PROVE  ball[n + 1] = ball[n] \cup Children(s, ball[n])
  <2>1. n + 1 \in 1..len /\ (n + 1) - 1 = n
    BY <1>0, <1>1
  <2> QED
    BY <2>1, BallUnfolds
<1>2. ball[0] = {start}
  BY BallUnfolds
<1>3. /\ \A set \in SUBSET U : Children(s, set) = Image(Links(s), set)
      /\ Links(s) \in SUBSET (U \X U) /\ IsFiniteSet(U) /\ Cardinality(U) <= len
  BY LinksOf, DomainSize, Zenon
<1> HIDE DEF ball, U, len
<1>4. Spreads(ball, U, Links(s), len)
  <2> SUFFICES ASSUME NEW n \in 0..len, n # len, ball[n] \in SUBSET U
               PROVE  ball[n + 1] = ball[n] \cup Image(Links(s), ball[n])
    BY DEF Spreads
  <2> QED
    BY <1>1, <1>3
<1>5. start \in U
  BY DEF U
<1>6. /\ \A n \in 0..len : start \in ball[n] /\ ball[n] \in SUBSET U
      /\ Image(Links(s), ball[len]) \subseteq ball[len]
  <2> DEFINE R == Links(s)
  <2>1. R \in SUBSET (U \X U) /\ Spreads(ball, U, R, len)
    BY <1>3, <1>4
  <2> HIDE DEF R
  <2>2. /\ \A n \in 0..len : start \in ball[n] /\ ball[n] \in SUBSET U
        /\ Image(R, ball[len]) \subseteq ball[len]
    BY <1>0, <1>2, <1>3, <1>5, <2>1, SpreadCloses
  <2> QED
    BY <2>2 DEF R
<1>7. Closed(s, ball[len])
  BY <1>0, <1>3, <1>6 DEF Closed
<1> QED
  BY <1>1, <1>6, <1>7 DEF ball, U, len

LEMMA BallClosed ==
  ASSUME TypeOK, NEW s, NEW start \in DOMAIN traces
  PROVE  Closed(s, Ball(s, start)[Len(traces)])
BY BallGrows

\* What holds of the start and passes to children holds of the ball.
LEMMA BallWithin ==
  ASSUME TypeOK, NEW s, NEW start \in DOMAIN traces, NEW X, start \in X, Closed(s, X)
  PROVE  \A n \in 0..Len(traces) : Ball(s, start)[n] \subseteq X
<1> DEFINE ball == Ball(s, start)
           T == {n \in Nat : ball[n] \subseteq X}
<1>0. Len(traces) \in Nat
  BY Domains
<1>1. 0 \in T
  BY BallUnfolds
<1>2. ASSUME NEW n \in 0..Len(traces), n \in T, n # Len(traces) PROVE n + 1 \in T
  <2>1. n + 1 \in 1..Len(traces) /\ (n + 1) - 1 = n /\ n + 1 \in Nat
    BY <1>0, <1>2
  <2>2. ball[n + 1] = ball[n] \cup Children(s, ball[n])
    BY <2>1, BallUnfolds
  <2>3. Children(s, ball[n]) \subseteq Children(s, X)
    BY <1>2 DEF Children
  <2> QED
    BY <1>2, <2>1, <2>2, <2>3 DEF Closed
<1> HIDE DEF T
<1>3. \A n \in 0..Len(traces) : n \in T
  BY <1>0, <1>1, <1>2, BoundedInduction
<1> QED
  BY <1>3 DEF T

LEMMA ScanIsBall ==
  ASSUME GraphInv, NEW s \in Seeded
  PROVE  ScanNodes(s) = Ball(s, Seed(s))[Len(traces)]
<1>1. TypeOK /\ Seed(s) \in DOMAIN traces /\ Len(traces) \in 0..Len(traces)
  BY SeedIs, Domains DEF GraphInv, Seeded
<1> DEFINE whole == Ball(s, Seed(s))[Len(traces)]
<1>2. Seed(s) \in whole /\ whole \in SUBSET DOMAIN traces /\ Closed(s, whole)
  BY <1>1, BallGrows, BallClosed
<1>3. ScanNodes(s) \subseteq whole
  BY <1>2 DEF Closed, GraphInv, Connected, ConnectedScan
<1>4. Seed(s) \in ScanNodes(s)
  BY <1>1, EdgeNodes DEF GraphInv, SeedStored
<1>5. Closed(s, ScanNodes(s))
  BY <1>1, EdgeNodes DEF Closed, Children
<1> QED
  BY <1>1, <1>3, <1>4, <1>5, BallWithin

\* GetScanGraph shows what hangs on the scan's own seed and nothing else, however many
\* scans share the tables: every trace at an end of an edge of the scan can be
\* reached from the seed along edges of the scan.
THEOREM ReportIsReachable == Spec => []GraphIsReachable
<1>1. GraphInv => GraphIsReachable
  BY ScanIsBall DEF GraphIsReachable
<1> QED
  BY <1>1, GraphInvariant, PTL

-------------------------------------------------------------------------------
(***************************************************************************)
(* The rows of GetReachableTraces. A row at level n has visited n + 1      *)
(* traces, so the levels run dry; a trace n edges away has a row at level  *)
(* n whose visited traces are all nearer, so that no shortest path is cut  *)
(* off by the rule that a trace is visited once.                           *)
(***************************************************************************)

\* i is in ball[h] and in none before it.
AtDistance(ball, i, h) == i \in ball[h] /\ \A g \in 0..h - 1 : i \notin ball[g]

LEMMA Distanced ==
  ASSUME NEW ball, NEW n \in Nat, NEW i \in ball[n]
  PROVE  \E h \in 0..n : AtDistance(ball, i, h)
<1> DEFINE T == {h \in Nat : i \in ball[h]}
<1>1. n \in T /\ T \in SUBSET Nat
  OBVIOUS
<1>2. PICK h \in T : \A g \in T : ~(g < h)
  <2> HIDE DEF T
  <2> QED
    BY <1>1, NatMinimum
<1>3. h \in 0..n
  BY <1>1, <1>2
<1>4. ASSUME NEW g \in 0..h - 1 PROVE i \notin ball[g]
  <2>1. g \in Nat /\ g < h
    BY <1>2
  <2> QED
    BY <1>2, <2>1
<1> QED
  BY <1>2, <1>3, <1>4 DEF AtDistance

ReachRow == [id : DOMAIN traces, hops : Nat, visited : SUBSET DOMAIN traces]

ReachFirst(start) == [id |-> start, hops |-> 0, visited |-> {start}]

ReachNext(s, rows, maxHops) ==
  UNION {ReachStep(s, r) : r \in {q \in rows : WithinHops(q, maxHops)}}

ReachLevels(f, s, start, maxHops) ==
  /\ f[0] = {ReachFirst(start)}
  /\ \A n \in 0..Len(traces) : f[n + 1] = ReachNext(s, f[n], maxHops)
  /\ ReachRows(s, start, maxHops) = UNION {f[n] : n \in Levels}

LEMMA ReachRecursive ==
  ASSUME NEW s, NEW start, NEW maxHops
  PROVE  ReachRows(s, start, maxHops) = UNION {(CHOOSE f : f =
           [n \in Levels |-> IF n = 0 THEN {[id |-> start, hops |-> 0, visited |-> {start}]}
              ELSE UNION {ReachStep(s, r) : r \in {q \in f[n - 1] : WithinHops(q, maxHops)}}])[k]
           : k \in Levels}
BY Zenon DEF ReachRows

\* A step along an edge of the scan.
LEMMA ReachStepIs ==
  ASSUME TypeOK, NEW s, NEW r \in ReachRow, NEW q
  PROVE  /\ q \in ReachStep(s, r) =>
              /\ q \in ReachRow /\ q.hops = r.hops + 1 /\ q.visited = r.visited \cup {q.id}
              /\ q.id \notin r.visited /\ q.id \in Children(s, {r.id})
         /\ \A e \in EdgesOf(s) : e.parent = r.id /\ e.child \notin r.visited =>
              [id |-> e.child, hops |-> r.hops + 1, visited |-> r.visited \cup {e.child}]
                \in ReachStep(s, r)
<1>1. ASSUME q \in ReachStep(s, r)
      PROVE  /\ q \in ReachRow /\ q.hops = r.hops + 1 /\ q.visited = r.visited \cup {q.id}
             /\ q.id \notin r.visited /\ q.id \in Children(s, {r.id})
  <2>1. PICK e \in EdgesOf(s) : /\ e.parent = r.id /\ e.child \notin r.visited
          /\ q = [id |-> e.child, hops |-> r.hops + 1, visited |-> r.visited \cup {e.child}]
    BY <1>1, Zenon DEF ReachStep
  <2>2. e.child \in DOMAIN traces
    BY EdgeFields DEF EdgesOf
  <2>3. r.hops \in Nat /\ r.visited \in SUBSET DOMAIN traces
    BY DEF ReachRow
  <2>4. e.child \in Children(s, {r.id})
    BY <2>1 DEF Children
  <2>5. q.id = e.child /\ q.hops = r.hops + 1 /\ q.visited = r.visited \cup {e.child}
    BY <2>1
  <2>6. q \in ReachRow
    BY <2>1, <2>2, <2>3 DEF ReachRow
  <2> QED
    BY <2>1, <2>4, <2>5, <2>6
<1>2. ASSUME NEW e \in EdgesOf(s), e.parent = r.id, e.child \notin r.visited
      PROVE  [id |-> e.child, hops |-> r.hops + 1, visited |-> r.visited \cup {e.child}]
               \in ReachStep(s, r)
  BY <1>2, Zenon DEF ReachStep
<1> QED
  BY <1>1, <1>2

LEMMA ReachNextTyped ==
  ASSUME TypeOK, NEW s, NEW rows \in SUBSET ReachRow, NEW maxHops
  PROVE  ReachNext(s, rows, maxHops) \in SUBSET ReachRow
<1> SUFFICES ASSUME NEW q \in ReachNext(s, rows, maxHops) PROVE q \in ReachRow
  OBVIOUS
<1>1. PICK r \in rows : q \in ReachStep(s, r)
  BY DEF ReachNext
<1> QED
  BY <1>1, ReachStepIs

LEMMA ReachLeveled ==
  ASSUME TypeOK, NEW s, NEW start \in DOMAIN traces, NEW maxHops
  PROVE  \E f : ReachLevels(f, s, start, maxHops)
<1> DEFINE m == Len(traces) + 1
           S == SUBSET ReachRow
           first == {ReachFirst(start)}
           next(rows) == ReachNext(s, rows, maxHops)
           step == [n \in 1..m |-> [rows \in S |-> next(rows)]]
<1>0. m \in Nat /\ Len(traces) \in Nat /\ Levels = 0..m
  BY Domains DEF Levels
<1>1. first \in S
  <2>1. ReachFirst(start) \in ReachRow
    BY DEF ReachFirst, ReachRow
  <2> QED
    BY <2>1
<1>2. step \in [1..m -> [S -> S]]
  <2>1. \A rows \in S : next(rows) \in S
    BY ReachNextTyped
  <2> HIDE DEF S, next
  <2> QED
    BY <2>1
<1>3. PICK f \in [0..m -> S] : Unfolds(f, m, first, step)
  <2> HIDE DEF step, m, S, first
  <2> QED
    BY <1>0, <1>1, <1>2, Recursion
<1>4. f[0] = first /\ \A n \in 1..m : f[n] = next(f[n - 1])
  <2>1. \A n \in 1..m : n - 1 \in 0..m
    BY <1>0
  <2>2. \A n \in 1..m : f[n - 1] \in S
    BY <2>1
  <2> HIDE DEF next, S, first
  <2> QED
    BY <1>3, <2>2 DEF Unfolds
<1>5. f = [n \in 0..m |-> IF n = 0 THEN first ELSE next(f[n - 1])]
  <2>1. \A n \in 0..m : n # 0 => n \in 1..m
    BY <1>0
  <2> HIDE DEF next, first
  <2> QED
    BY <1>3, <1>4, <2>1
<1> DEFINE g == CHOOSE h : h = [n \in Levels |-> IF n = 0 THEN first ELSE next(h[n - 1])]
<1>6. g = [n \in Levels |-> IF n = 0 THEN first ELSE next(g[n - 1])]
  BY <1>0, <1>5, Zenon
<1>7. ReachRows(s, start, maxHops) = UNION {g[n] : n \in Levels}
  BY ReachRecursive, Zenon DEF ReachFirst, ReachNext
<1> HIDE DEF g, next, first
<1>8. \A n \in Levels : g[n] = IF n = 0 THEN first ELSE next(g[n - 1])
  BY <1>6, Zenon
<1>9. 0 \in Levels /\ \A n \in 0..Len(traces) : n + 1 \in Levels /\ n + 1 # 0 /\ (n + 1) - 1 = n
  BY <1>0
<1>10. g[0] = first /\ \A n \in 0..Len(traces) : g[n + 1] = next(g[n])
  <2>1. g[0] = first
    BY <1>8, <1>9, Zenon
  <2>2. ASSUME NEW n \in 0..Len(traces) PROVE g[n + 1] = next(g[n])
    <3>1. g[n + 1] = next(g[(n + 1) - 1])
      BY <1>8, <1>9, Zenon
    <3> QED
      BY <1>9, <3>1
  <2> QED
    BY <2>1, <2>2
<1> QED
  BY <1>7, <1>10 DEF ReachLevels, first, next

LEMMA ReachSound ==
  ASSUME TypeOK, NEW s, NEW start \in DOMAIN traces, NEW maxHops \in 0..Len(traces),
         NEW f, ReachLevels(f, s, start, maxHops), NEW n \in Levels, NEW r \in f[n]
  PROVE  /\ r \in ReachRow /\ r.hops = n /\ n \in 0..maxHops /\ r.id \in Ball(s, start)[n]
<1> DEFINE ball == Ball(s, start)
           At(k) == \A q \in f[k] : /\ q \in ReachRow /\ q.hops = k /\ k <= maxHops
                                    /\ q.id \in ball[k]
           T == {k \in Nat : At(k)}
           m == Len(traces) + 1
<1>0. m \in Nat /\ Len(traces) \in Nat /\ maxHops \in Nat /\ Levels = 0..m
  BY Domains DEF Levels
<1>1. 0 \in T
  <2>1. f[0] = {[id |-> start, hops |-> 0, visited |-> {start}]}
    BY DEF ReachLevels, ReachFirst
  <2>2. ball[0] = {start}
    BY BallUnfolds
  <2> DEFINE first == [id |-> start, hops |-> 0, visited |-> {start}]
  <2>3. first \in ReachRow /\ first.hops = 0 /\ first.id = start
    BY DEF ReachRow
  <2>4. \A q \in f[0] : q = first
    BY <2>1
  <2> HIDE DEF first
  <2>5. At(0)
    BY <1>0, <2>2, <2>3, <2>4
  <2> QED
    BY <2>5
<1>2. ASSUME NEW k \in 0..m, k \in T, k # m PROVE k + 1 \in T
  <2>1. k + 1 \in Nat /\ k \in 0..Len(traces) /\ k \in Nat
    BY <1>0, <1>2
  <2>2. f[k + 1] = ReachNext(s, f[k], maxHops)
    BY <2>1 DEF ReachLevels
  <2> SUFFICES ASSUME NEW q \in f[k + 1]
               PROVE  /\ q \in ReachRow /\ q.hops = k + 1 /\ k + 1 <= maxHops
                      /\ q.id \in ball[k + 1]
    BY <2>1
  <2>3. PICK p \in f[k] : q \in ReachStep(s, p) /\ p.hops < maxHops
    BY <2>2, Zenon DEF ReachNext, WithinHops
  <2>4. p \in ReachRow /\ p.hops = k /\ p.id \in ball[k]
    BY <1>2, <2>3
  <2>5. q \in ReachRow /\ q.hops = k + 1 /\ q.id \in Children(s, {p.id})
    BY <2>3, <2>4, ReachStepIs
  <2>6. k + 1 <= maxHops /\ k # Len(traces)
    BY <1>0, <2>1, <2>3, <2>4
  <2>7. ball[k + 1] = ball[k] \cup Children(s, ball[k])
    BY <2>1, <2>6, BallGrows
  <2>8. q.id \in ball[k + 1]
    BY <2>4, <2>5, <2>7 DEF Children
  <2> QED
    BY <2>5, <2>6, <2>8
<1> HIDE DEF T
<1>3. \A k \in 0..m : k \in T
  BY <1>0, <1>1, <1>2, BoundedInduction
<1>4. n \in T /\ n \in Nat
  BY <1>0, <1>3
<1> QED
  BY <1>0, <1>4 DEF T

LEMMA ReachComplete ==
  ASSUME TypeOK, NEW s, NEW start \in DOMAIN traces, NEW maxHops \in 0..Len(traces),
         NEW f, ReachLevels(f, s, start, maxHops), NEW n \in 0..maxHops, NEW i,
         AtDistance(Ball(s, start), i, n)
  PROVE  \E r \in f[n] : r.id = i
<1> DEFINE ball == Ball(s, start)
           Found(k, j) == \E q \in f[k] : q.id = j /\ q.visited \subseteq ball[k]
           T == {k \in Nat : \A j : AtDistance(ball, j, k) => Found(k, j)}
<1>0. Len(traces) \in Nat /\ maxHops \in Nat /\ maxHops <= Len(traces) /\ n \in Nat
  BY Domains
<1>1. 0 \in T
  <2>1. f[0] = {[id |-> start, hops |-> 0, visited |-> {start}]}
    BY DEF ReachLevels, ReachFirst
  <2>2. ball[0] = {start}
    BY BallUnfolds
  <2>3. \A j : AtDistance(ball, j, 0) => j = start
    BY <2>2 DEF AtDistance
  <2>4. Found(0, start)
    BY <2>1, <2>2
  <2> QED
    BY <2>3, <2>4
<1>2. ASSUME NEW k \in 0..maxHops, k \in T, k # maxHops PROVE k + 1 \in T
  <2>1. k + 1 \in Nat /\ k \in 0..Len(traces) /\ k # Len(traces) /\ k \in Nat /\ k < maxHops
    BY <1>0, <1>2
  <2>2. ball[k + 1] = ball[k] \cup Children(s, ball[k])
    BY <2>1, BallGrows
  <2>3. f[k + 1] = ReachNext(s, f[k], maxHops)
    BY <2>1 DEF ReachLevels
  <2> SUFFICES ASSUME NEW j, AtDistance(ball, j, k + 1) PROVE Found(k + 1, j)
    BY <2>1
  <2>4. j \in ball[k + 1] /\ \A g \in 0..k : j \notin ball[g]
    BY <2>1 DEF AtDistance
  <2>5. PICK e \in EdgesOf(s) : e.parent \in ball[k] /\ e.child = j
    <3>1. j \in Children(s, ball[k])
      BY <2>1, <2>2, <2>4
    <3> QED
      BY <3>1 DEF Children
  <2>6. AtDistance(ball, e.parent, k)
    <3>1. ASSUME NEW g \in 0..k - 1, e.parent \in ball[g] PROVE FALSE
      <4>1. g \in 0..Len(traces) /\ g # Len(traces) /\ g + 1 \in 0..k
        BY <1>0, <2>1
      <4>2. ball[g + 1] = ball[g] \cup Children(s, ball[g])
        BY <4>1, BallGrows
      <4>3. j \in Children(s, ball[g])
        BY <2>5, <3>1 DEF Children
      <4> QED
        BY <2>4, <4>1, <4>2, <4>3
    <3> QED
      BY <2>5, <3>1 DEF AtDistance
  <2>7. PICK r \in f[k] : r.id = e.parent /\ r.visited \subseteq ball[k]
    BY <1>2, <2>6
  <2>8. r \in ReachRow /\ r.hops = k
    <3>1. k \in Levels
      BY <2>1 DEF Levels
    <3> QED
      BY <2>7, <3>1, ReachSound
  <2> DEFINE q == [id |-> e.child, hops |-> r.hops + 1, visited |-> r.visited \cup {e.child}]
  <2>9. e.child \notin r.visited
    BY <2>1, <2>4, <2>5, <2>7
  <2>10. q \in ReachStep(s, r)
    BY <2>5, <2>7, <2>8, <2>9, ReachStepIs
  <2>11. q.id = j /\ q.visited = r.visited \cup {j}
    BY <2>5
  <2> HIDE DEF q
  <2>12. r \in f[k] /\ WithinHops(r, maxHops)
    BY <2>1, <2>7, <2>8 DEF WithinHops
  <2>13. q \in f[k + 1]
    BY <2>3, <2>10, <2>12, Zenon DEF ReachNext
  <2>14. q.visited \subseteq ball[k + 1]
    BY <2>2, <2>4, <2>7, <2>11
  <2> QED
    BY <2>11, <2>13, <2>14
<1> HIDE DEF T
<1>3. \A k \in 0..maxHops : k \in T
  BY <1>0, <1>1, <1>2, BoundedInduction
<1> QED
  BY <1>3 DEF T

Distances(s, start, maxHops) ==
  {[id |-> i, hops |-> CHOOSE h \in 0..maxHops :
     i \in Ball(s, start)[h] /\ \A g \in 0..h - 1 : i \notin Ball(s, start)[g]]
   : i \in Ball(s, start)[maxHops]}

\* The least of the hops of the rows of a trace is its distance.
LEMMA ReachIsDistance ==
  ASSUME TypeOK, NEW s, NEW start \in DOMAIN traces, NEW maxHops \in 0..Len(traces)
  PROVE  GetReachableTraces(s, start, maxHops) = Distances(s, start, maxHops)
<1> DEFINE ball == Ball(s, start)
           rows == ReachRows(s, start, maxHops)
           hops(i) == {q.hops : q \in {p \in rows : p.id = i}}
           dist(i) == CHOOSE h \in 0..maxHops : i \in ball[h] /\ \A g \in 0..h - 1 : i \notin ball[g]
<1>0. /\ Len(traces) \in Nat /\ maxHops \in Nat /\ \A h \in 0..maxHops : h \in Levels /\ h \in Nat
      /\ maxHops \in 0..maxHops
  BY Domains DEF Levels
<1>1. PICK f : ReachLevels(f, s, start, maxHops)
  BY ReachLeveled
<1>2. \A r \in rows : \E n \in Levels : r \in f[n]
  BY <1>1 DEF ReachLevels
<1>3. \A n \in Levels : \A r \in f[n] : r \in rows
  BY <1>1 DEF ReachLevels
<1> HIDE DEF rows
<1>4. ASSUME NEW r \in rows
      PROVE  r.hops \in 0..maxHops /\ r.id \in ball[r.hops]
  <2>1. PICK n \in Levels : r \in f[n]
    BY <1>2
  <2> QED
    BY <1>1, <2>1, ReachSound
<1>5. ASSUME NEW i, NEW h \in 0..maxHops, AtDistance(ball, i, h)
      PROVE  /\ \E r \in rows : r.id = i
             /\ Min(hops(i)) = h /\ dist(i) = h
  <2>1. PICK r \in f[h] : r.id = i
    BY <1>1, <1>5, ReachComplete
  <2>2. r \in rows /\ r.hops = h
    <3>1. h \in Levels /\ r \in f[h]
      BY <1>0, <2>1
    <3>2. r \in ReachRow /\ r.hops = h /\ h \in 0..maxHops /\ r.id \in Ball(s, start)[h]
      BY <1>1, <3>1, ReachSound, Zenon
    <3> QED
      BY <1>3, <3>1, <3>2
  <2>3. ASSUME NEW g \in 0..maxHops, i \in ball[g] PROVE h <= g
    <3>1. ~(g \in 0..h - 1)
      BY <1>5, <2>3 DEF AtDistance
    <3> QED
      BY <1>0, <3>1
  <2>4. \A k \in hops(i) : k \in 0..maxHops /\ h <= k
    BY <1>4, <2>3
  <2>5. h \in hops(i)
    BY <2>1, <2>2
  <2>6. Min(hops(i)) = h
    <3> DEFINE H == hops(i)
    <3>1. h \in H /\ \A k \in H : k \in Nat /\ h <= k
      BY <1>0, <2>4, <2>5
    <3> HIDE DEF H
    <3>2. \A x \in H : (\A y \in H : x <= y) => x = h
      BY <1>0, <3>1
    <3>3. Min(H) \in H /\ \A y \in H : Min(H) <= y
      BY <3>1, Zenon DEF Min
    <3>4. Min(H) = h
      BY <3>2, <3>3
    <3> QED
      BY <3>4 DEF H
  <2>7. dist(i) = h
    <3>1. i \in ball[h] /\ \A g \in 0..h - 1 : i \notin ball[g]
      BY <1>5 DEF AtDistance
    <3>2. ASSUME NEW k \in 0..maxHops, i \in ball[k], \A g \in 0..k - 1 : i \notin ball[g]
          PROVE  k = h
      <4>1. h <= k
        BY <2>3, <3>2
      <4>2. ~(h \in 0..k - 1)
        BY <3>1, <3>2
      <4> QED
        BY <1>0, <4>1, <4>2
    <3> QED
      BY <3>1, <3>2
  <2> QED
    BY <2>1, <2>2, <2>6, <2>7
<1>6. ASSUME NEW i \in ball[maxHops] PROVE \E h \in 0..maxHops : AtDistance(ball, i, h)
  <2> HIDE DEF ball
  <2> QED
    BY <1>0, Distanced
<1>7. ASSUME NEW r \in rows PROVE \E h \in 0..maxHops : AtDistance(ball, r.id, h)
  <2>1. r.hops \in 0..maxHops /\ r.hops \in Nat /\ r.id \in ball[r.hops]
    BY <1>0, <1>4
  <2> DEFINE n == r.hops
             i == r.id
  <2>2. n \in Nat /\ i \in ball[n] /\ n \in 0..maxHops
    BY <2>1
  <2> HIDE DEF ball, n, i
  <2>3. PICK h \in 0..n : AtDistance(ball, i, h)
    BY <2>2, Distanced
  <2>4. h \in 0..maxHops
    BY <1>0, <2>2, <2>3
  <2> QED
    BY <2>3, <2>4 DEF i
<1>8. ASSUME NEW i, NEW h \in 0..maxHops, AtDistance(ball, i, h) PROVE i \in ball[maxHops]
  <2>1. \A n \in 0..maxHops : n # maxHops => ball[n] \subseteq ball[n + 1]
    <3>1. \A n \in 0..maxHops : n # maxHops => n \in 0..Len(traces) /\ n # Len(traces)
      BY <1>0
    <3> QED
      BY <3>1, BallGrows
  <2>2. maxHops \in h..maxHops /\ maxHops \in Nat
    BY <1>0
  <2> HIDE DEF ball
  <2>3. ball[h] \subseteq ball[maxHops]
    BY <2>1, <2>2, Monotone
  <2> QED
    BY <1>8, <2>3 DEF AtDistance
<1>9. GetReachableTraces(s, start, maxHops) = {[id |-> r.id, hops |-> Min(hops(r.id))] : r \in rows}
  BY Zenon DEF GetReachableTraces, rows
<1> DEFINE A == {[id |-> r.id, hops |-> Min(hops(r.id))] : r \in rows}
           B == {[id |-> i, hops |-> dist(i)] : i \in ball[maxHops]}
<1>10. ASSUME NEW x \in A PROVE x \in B
  <2>1. PICK r \in rows : x = [id |-> r.id, hops |-> Min(hops(r.id))]
    OBVIOUS
  <2>2. PICK h \in 0..maxHops : AtDistance(ball, r.id, h)
    BY <1>7
  <2> HIDE DEF hops, dist, ball
  <2>3. Min(hops(r.id)) = dist(r.id) /\ r.id \in ball[maxHops]
    BY <1>5, <1>8, <2>2
  <2> QED
    BY <2>1, <2>3
<1>11. ASSUME NEW x \in B PROVE x \in A
  <2>1. PICK i \in ball[maxHops] : x = [id |-> i, hops |-> dist(i)]
    OBVIOUS
  <2>2. PICK h \in 0..maxHops : AtDistance(ball, i, h)
    BY <1>6
  <2> HIDE DEF hops, dist, ball
  <2>3. PICK r \in rows : r.id = i /\ Min(hops(i)) = dist(i)
    BY <1>5, <2>2
  <2> QED
    BY <2>1, <2>3
<1>12. A = B
  <2> HIDE DEF A, B
  <2> QED
    BY <1>10, <1>11
<1> QED
  BY <1>9, <1>12, Zenon DEF Distances

\* GetReachableTraces answers with the traces within maxHops and their distances, for
\* every scan, start and bound: that a row never visits a trace twice keeps the query
\* finite in graphs with circles and costs no trace and no shortest path.
THEOREM ReachableAreDistances == Spec => []ReachableIsDistance
<1>1. GraphInv => ReachableIsDistance
  <2> SUFFICES ASSUME GraphInv, NEW s \in Seeded, NEW start \in ScanNodes(s),
                      NEW maxHops \in 0..Len(traces)
               PROVE  GetReachableTraces(s, start, maxHops) = Distances(s, start, maxHops)
    BY Zenon DEF ReachableIsDistance, Distances
  <2>1. TypeOK /\ start \in DOMAIN traces
    BY DEF GraphInv, ScanNodes
  <2> QED
    BY <2>1, ReachIsDistance, Zenon
<1> QED
  BY <1>1, GraphInvariant, PTL

-------------------------------------------------------------------------------
(***************************************************************************)
(* The rows of GetDiscoveryPath. A row at level n has visited n + 1 traces *)
(* too, and all of them lie below its parent; a trace n edges before the   *)
(* target is the parent of a row at level n - 1, whose visited traces are  *)
(* all nearer to the target.                                               *)
(***************************************************************************)

PathRow == [child : DOMAIN traces, parent : {Null} \cup DOMAIN traces,
            plugin : Plugins \cup {SeedPlugin}, hop : Nat, visited : SUBSET DOMAIN traces]

RowOf(e, hop, visited) == [child |-> e.child, parent |-> e.parent, plugin |-> e.plugin,
                           hop |-> hop, visited |-> visited]

PathFirst(s, target) ==
  {RowOf(e, 0, {e.child}) : e \in {f \in EdgesOf(s) : f.child = target}}

PathNext(s, rows) == UNION {PathStep(s, r) : r \in rows}

PathLevels(f, s, target) ==
  /\ f[0] = PathFirst(s, target)
  /\ \A n \in 0..Len(traces) : f[n + 1] = PathNext(s, f[n])
  /\ GetDiscoveryPath(s, target) = UNION {f[n] : n \in Levels}

LEMMA PathRecursive ==
  ASSUME NEW s, NEW target
  PROVE  GetDiscoveryPath(s, target) = UNION {(CHOOSE f : f =
           [n \in Levels |-> IF n = 0
              THEN {[child |-> e.child, parent |-> e.parent, plugin |-> e.plugin, hop |-> 0,
                     visited |-> {e.child}] : e \in {d \in EdgesOf(s) : d.child = target}}
              ELSE UNION {PathStep(s, r) : r \in f[n - 1]}])[k]
           : k \in Levels}
BY Zenon DEF GetDiscoveryPath

LEMMA RowFields ==
  ASSUME TypeOK, NEW s, NEW e \in EdgesOf(s), NEW hop \in Nat, NEW visited \in SUBSET DOMAIN traces
  PROVE  /\ RowOf(e, hop, visited) \in PathRow
         /\ RowOf(e, hop, visited).child = e.child /\ RowOf(e, hop, visited).parent = e.parent
         /\ RowOf(e, hop, visited).hop = hop /\ RowOf(e, hop, visited).visited = visited
         /\ e.child \in DOMAIN traces /\ e.parent \in {Null} \cup DOMAIN traces
<1>1. /\ e.child \in DOMAIN traces /\ e.parent \in {Null} \cup DOMAIN traces
      /\ e.plugin \in Plugins \cup {SeedPlugin}
  BY EdgeFields DEF EdgesOf
<1> QED
  BY <1>1 DEF RowOf, PathRow

\* A step back along an edge of the scan.
LEMMA PathStepIs ==
  ASSUME TypeOK, NEW s, NEW r \in PathRow, NEW q
  PROVE  /\ q \in PathStep(s, r) => \E e \in EdgesOf(s) :
              /\ e.child = r.parent /\ e.parent # Null /\ e.parent \notin r.visited
              /\ q = RowOf(e, r.hop + 1, r.visited \cup {e.parent}) /\ q \in PathRow
         /\ \A e \in EdgesOf(s) : e.child = r.parent /\ e.parent # Null /\ e.parent \notin r.visited
              => RowOf(e, r.hop + 1, r.visited \cup {e.parent}) \in PathStep(s, r)
<1>1. ASSUME q \in PathStep(s, r)
      PROVE  \E e \in EdgesOf(s) :
               /\ e.child = r.parent /\ e.parent # Null /\ e.parent \notin r.visited
               /\ q = RowOf(e, r.hop + 1, r.visited \cup {e.parent}) /\ q \in PathRow
  <2>1. PICK e \in EdgesOf(s) : /\ e.child = r.parent /\ e.parent # Null /\ e.parent \notin r.visited
          /\ q = RowOf(e, r.hop + 1, r.visited \cup {e.parent})
    BY <1>1, Zenon DEF PathStep, RowOf
  <2> DEFINE hop == r.hop + 1
             visited == r.visited \cup {e.parent}
  <2>2. hop \in Nat /\ visited \in SUBSET DOMAIN traces
    <3>1. e.parent \in DOMAIN traces
      BY <2>1, EdgeFields DEF EdgesOf
    <3> QED
      BY <3>1 DEF PathRow
  <2>3. q = RowOf(e, hop, visited)
    BY <2>1
  <2> HIDE DEF hop, visited
  <2>4. q \in PathRow
    BY <2>2, <2>3, RowFields
  <2> QED
    BY <2>1, <2>4
<1>2. ASSUME NEW e \in EdgesOf(s), e.child = r.parent, e.parent # Null, e.parent \notin r.visited
      PROVE  RowOf(e, r.hop + 1, r.visited \cup {e.parent}) \in PathStep(s, r)
  BY <1>2, Zenon DEF PathStep, RowOf
<1> QED
  BY <1>1, <1>2

LEMMA PathFirstTyped ==
  ASSUME TypeOK, NEW s, NEW target, NEW r \in PathFirst(s, target)
  PROVE  \E e \in EdgesOf(s) : /\ e.child = target /\ r = RowOf(e, 0, {e.child})
                               /\ r \in PathRow
<1>1. PICK e \in EdgesOf(s) : e.child = target /\ r = RowOf(e, 0, {e.child})
  BY Zenon DEF PathFirst
<1> DEFINE visited == {e.child}
<1>2. visited \in SUBSET DOMAIN traces
  BY EdgeFields DEF EdgesOf
<1>3. r = RowOf(e, 0, visited)
  BY <1>1
<1> HIDE DEF visited
<1>4. r \in PathRow
  BY <1>2, <1>3, RowFields
<1> QED
  BY <1>1, <1>4

LEMMA PathLeveled ==
  ASSUME TypeOK, NEW s, NEW target
  PROVE  \E f : PathLevels(f, s, target)
<1> DEFINE m == Len(traces) + 1
           S == SUBSET PathRow
           first == PathFirst(s, target)
           next(rows) == PathNext(s, rows)
           step == [n \in 1..m |-> [rows \in S |-> next(rows)]]
<1>0. m \in Nat /\ Len(traces) \in Nat /\ Levels = 0..m
  BY Domains DEF Levels
<1>1. first \in S
  BY PathFirstTyped
<1>2. step \in [1..m -> [S -> S]]
  <2>1. ASSUME NEW rows \in S, NEW q \in next(rows) PROVE q \in PathRow
    <3>1. PICK r \in rows : q \in PathStep(s, r)
      BY <2>1 DEF PathNext
    <3> QED
      BY <3>1, PathStepIs
  <2>2. \A rows \in S : next(rows) \in S
    BY <2>1
  <2> HIDE DEF S, next
  <2> QED
    BY <2>2
<1>3. PICK f \in [0..m -> S] : Unfolds(f, m, first, step)
  <2> HIDE DEF step, m, S, first
  <2> QED
    BY <1>0, <1>1, <1>2, Recursion
<1>4. f[0] = first /\ \A n \in 1..m : f[n] = next(f[n - 1])
  <2>1. \A n \in 1..m : n - 1 \in 0..m
    BY <1>0
  <2>2. \A n \in 1..m : f[n - 1] \in S
    BY <2>1
  <2> HIDE DEF next, S, first
  <2> QED
    BY <1>3, <2>2 DEF Unfolds
<1>5. f = [n \in 0..m |-> IF n = 0 THEN first ELSE next(f[n - 1])]
  <2>1. \A n \in 0..m : n # 0 => n \in 1..m
    BY <1>0
  <2> HIDE DEF next, first
  <2> QED
    BY <1>3, <1>4, <2>1
<1> DEFINE g == CHOOSE h : h = [n \in Levels |-> IF n = 0 THEN first ELSE next(h[n - 1])]
<1>6. g = [n \in Levels |-> IF n = 0 THEN first ELSE next(g[n - 1])]
  BY <1>0, <1>5, Zenon
<1>7. GetDiscoveryPath(s, target) = UNION {g[n] : n \in Levels}
  BY PathRecursive, Zenon DEF PathFirst, PathNext, RowOf
<1> HIDE DEF g, next, first
<1>8. \A n \in Levels : g[n] = IF n = 0 THEN first ELSE next(g[n - 1])
  BY <1>6, Zenon
<1>9. 0 \in Levels /\ \A n \in 0..Len(traces) : n + 1 \in Levels /\ n + 1 # 0 /\ (n + 1) - 1 = n
  BY <1>0
<1>10. g[0] = first /\ \A n \in 0..Len(traces) : g[n + 1] = next(g[n])
  <2>1. g[0] = first
    BY <1>8, <1>9, Zenon
  <2>2. ASSUME NEW n \in 0..Len(traces) PROVE g[n + 1] = next(g[n])
    <3>1. g[n + 1] = next(g[(n + 1) - 1])
      BY <1>8, <1>9, Zenon
    <3> QED
      BY <1>9, <3>1
  <2> QED
    BY <2>1, <2>2
<1> QED
  BY <1>7, <1>10 DEF PathLevels, first, next

\* A row at level n.
RowAt(s, r, n) ==
  /\ r \in PathRow /\ r.hop = n /\ Cardinality(r.visited) = n + 1
  /\ \E e \in EdgesOf(s) : e.child = r.child /\ e.parent = r.parent
  /\ r.parent # Null => r.visited \subseteq Ball(s, r.parent)[Len(traces)]

LEMMA BelowParent ==
  ASSUME TypeOK, NEW s, NEW e \in EdgesOf(s), e.parent # Null
  PROVE  /\ e.parent \in DOMAIN traces /\ e.child \in DOMAIN traces
         /\ e.parent \in Ball(s, e.parent)[Len(traces)]
         /\ Ball(s, e.child)[Len(traces)] \subseteq Ball(s, e.parent)[Len(traces)]
         /\ e.child \in Ball(s, e.parent)[Len(traces)]
<1>1. e.parent \in DOMAIN traces /\ e.child \in DOMAIN traces /\ Len(traces) \in 0..Len(traces)
  BY EdgeFields, Domains DEF EdgesOf
<1> DEFINE X == Ball(s, e.parent)[Len(traces)]
           c == e.child
<1>2. e.parent \in X /\ Closed(s, X) /\ c \in DOMAIN traces
  BY <1>1, BallGrows
<1>3. c \in X
  BY <1>2 DEF Closed, Children
<1>4. Ball(s, c)[Len(traces)] \subseteq X
  <2> HIDE DEF X, c
  <2> QED
    BY <1>1, <1>2, <1>3, BallWithin
<1> QED
  BY <1>1, <1>2, <1>3, <1>4

LEMMA PathSound ==
  ASSUME TypeOK, NEW s, NEW target, NEW f, PathLevels(f, s, target), NEW n \in Levels, NEW r \in f[n]
  PROVE  RowAt(s, r, n)
<1> DEFINE T == {k \in Nat : \A q \in f[k] : RowAt(s, q, k)}
           m == Len(traces) + 1
<1>0. m \in Nat /\ Len(traces) \in Nat /\ Levels = 0..m
  BY Domains DEF Levels
<1>1. 0 \in T
  <2> SUFFICES ASSUME NEW q \in f[0] PROVE RowAt(s, q, 0)
    OBVIOUS
  <2>1. q \in PathFirst(s, target)
    BY DEF PathLevels
  <2>2. PICK e \in EdgesOf(s) : e.child = target /\ q = RowOf(e, 0, {e.child}) /\ q \in PathRow
    BY <2>1, PathFirstTyped
  <2>3. /\ q.child = e.child /\ q.parent = e.parent /\ q.hop = 0 /\ q.visited = {e.child}
    BY <2>2 DEF RowOf
  <2>4. Cardinality(q.visited) = 0 + 1
    <3>1. Cardinality({e.child}) = 1
      BY FS_Singleton, Zenon
    <3> QED
      BY <2>3, <3>1
  <2>5. ASSUME q.parent # Null PROVE q.visited \subseteq Ball(s, q.parent)[Len(traces)]
    <3>1. e.child \in Ball(s, e.parent)[Len(traces)]
      BY <2>3, <2>5, BelowParent
    <3> QED
      BY <2>3, <3>1
  <2> QED
    BY <2>2, <2>3, <2>4, <2>5 DEF RowAt
<1>2. ASSUME NEW k \in 0..m, k \in T, k # m PROVE k + 1 \in T
  <2>1. k + 1 \in Nat /\ k \in 0..Len(traces) /\ k \in Nat
    BY <1>0, <1>2
  <2> SUFFICES ASSUME NEW q \in f[k + 1] PROVE RowAt(s, q, k + 1)
    BY <2>1
  <2>2. q \in PathNext(s, f[k])
    BY <2>1 DEF PathLevels
  <2>3. PICK p \in f[k] : q \in PathStep(s, p)
    BY <2>2 DEF PathNext
  <2>4. RowAt(s, p, k)
    BY <1>2, <2>3
  <2>5. /\ p \in PathRow /\ p.hop = k /\ Cardinality(p.visited) = k + 1
        /\ p.visited \in SUBSET DOMAIN traces
    BY <2>4 DEF RowAt, PathRow
  <2>6. PICK e \in EdgesOf(s) : /\ e.child = p.parent /\ e.parent # Null /\ e.parent \notin p.visited
          /\ q = RowOf(e, p.hop + 1, p.visited \cup {e.parent}) /\ q \in PathRow
    BY <2>3, <2>5, PathStepIs
  <2>7. /\ q.child = e.child /\ q.parent = e.parent /\ q.hop = k + 1
        /\ q.visited = p.visited \cup {e.parent}
    BY <2>5, <2>6 DEF RowOf
  <2>8. Cardinality(q.visited) = (k + 1) + 1
    <3> DEFINE old == p.visited
               x == e.parent
    <3>1. IsFiniteSet(old) /\ x \notin old /\ q.visited = old \cup {x} /\ Cardinality(old) = k + 1
      BY <2>5, <2>6, <2>7, DomainSize, FS_Subset
    <3> HIDE DEF old, x
    <3>2. Cardinality(old \cup {x}) = Cardinality(old) + 1
      BY <3>1, FS_AddElement
    <3> QED
      BY <3>1, <3>2
  <2>9. q.visited \subseteq Ball(s, q.parent)[Len(traces)]
    <3>1. /\ e.parent \in Ball(s, e.parent)[Len(traces)] /\ e.child \in DOMAIN traces
          /\ Ball(s, e.child)[Len(traces)] \subseteq Ball(s, e.parent)[Len(traces)]
      BY <2>6, BelowParent
    <3>2. p.parent # Null
      BY <2>6, <3>1, Domains DEF Null
    <3>3. p.visited \subseteq Ball(s, e.child)[Len(traces)]
      BY <2>4, <2>6, <3>2 DEF RowAt
    <3> QED
      BY <2>7, <3>1, <3>3
  <2> QED
    BY <2>6, <2>7, <2>8, <2>9 DEF RowAt
<1> HIDE DEF T
<1>3. \A k \in 0..m : k \in T
  BY <1>0, <1>1, <1>2, BoundedInduction
<1>4. n \in T
  BY <1>0, <1>3
<1> QED
  BY <1>4 DEF T

\* There is a row at every level up to the last but one at most.
LEMMA PathDepth ==
  ASSUME TypeOK, NEW s, NEW r, NEW n \in Nat, RowAt(s, r, n)
  PROVE  n < Len(traces)
<1>1. r.visited \in SUBSET DOMAIN traces /\ Cardinality(r.visited) = n + 1
  BY DEF RowAt, PathRow
<1> DEFINE visited == r.visited
<1>2. visited \in SUBSET DOMAIN traces
  BY <1>1
<1> HIDE DEF visited
<1>3. Cardinality(visited) <= Cardinality(DOMAIN traces) /\ Cardinality(DOMAIN traces) \in Nat
  BY <1>2, DomainSize, FS_Subset, FS_CardinalityType
<1>4. Cardinality(DOMAIN traces) <= Len(traces) /\ Len(traces) \in Nat
  BY DomainSize, Domains
<1> QED
  BY <1>1, <1>3, <1>4 DEF visited

\* Every node of a scan was found, the seed too.
LEMMA NodeIsChild ==
  ASSUME GraphInv, NEW s \in Seeded, NEW i \in ScanNodes(s)
  PROVE  \E e \in EdgesOf(s) : e.child = i
<1> DEFINE X == {e.child : e \in EdgesOf(s)}
<1>1. X \in SUBSET DOMAIN traces
  BY EdgeFields DEF GraphInv, EdgesOf
<1>2. Seed(s) \in X
  BY DEF GraphInv, SeedStored
<1>3. Children(s, X) \subseteq X
  BY DEF Children
<1>4. ScanNodes(s) \subseteq X
  <2> HIDE DEF X
  <2> QED
    BY <1>1, <1>2, <1>3 DEF GraphInv, Connected, ConnectedScan
<1> QED
  BY <1>4

\* A row that comes first starts at the seed, or a trace led back to itself.
LEMMA FirstIsSeed ==
  ASSUME GraphInv, NEW s \in Seeded, NEW target, ~Cyclic(s),
         NEW r \in First(GetDiscoveryPath(s, target))
  PROVE  r.parent \in {Null, Seed(s)}
<1> SUFFICES ASSUME r.parent # Null, r.parent # Seed(s) PROVE FALSE
  OBVIOUS
<1>0. TypeOK /\ Len(traces) \in Nat
  BY Domains DEF GraphInv
<1>1. PICK f : PathLevels(f, s, target)
  BY <1>0, PathLeveled
<1>2. r \in GetDiscoveryPath(s, target) /\ \A q \in GetDiscoveryPath(s, target) : q.hop <= r.hop
  BY DEF First
<1>3. PICK n \in Levels : r \in f[n]
  BY <1>1, <1>2 DEF PathLevels
<1>4. RowAt(s, r, n)
  BY <1>0, <1>1, <1>3, PathSound
<1>5. n \in Nat /\ n < Len(traces)
  <2>1. n \in Nat
    BY <1>0, <1>3 DEF Levels
  <2> QED
    BY <1>0, <1>4, <2>1, PathDepth
<1>6. r \in PathRow /\ r.hop = n /\ r.visited \subseteq Ball(s, r.parent)[Len(traces)]
  BY <1>4 DEF RowAt
<1>7. r.parent \in ScanNodes(s)
  <2>1. PICK e \in EdgesOf(s) : e.parent = r.parent
    BY <1>4 DEF RowAt
  <2> QED
    BY <1>0, <2>1, EdgeNodes
<1>8. PICK e \in EdgesOf(s) : e.child = r.parent
  BY <1>7, NodeIsChild
<1>9. e.parent # Null
  BY <1>0, <1>8, EdgeNodes DEF GraphInv, EdgesSeeded
<1>10. e.parent \notin r.visited
  BY <1>6, <1>8, <1>9 DEF Cyclic
<1> DEFINE q == RowOf(e, r.hop + 1, r.visited \cup {e.parent})
<1>11. q \in PathStep(s, r)
  BY <1>0, <1>6, <1>8, <1>9, <1>10, PathStepIs
<1>12. q.hop = n + 1
  BY <1>6 DEF RowOf
<1> HIDE DEF q
<1>13. q \in f[n + 1]
  <2>1. f[n + 1] = PathNext(s, f[n])
    BY <1>0, <1>1, <1>5 DEF PathLevels
  <2> QED
    BY <1>3, <1>11, <2>1 DEF PathNext
<1>14. q \in GetDiscoveryPath(s, target)
  <2>1. n + 1 \in Levels
    BY <1>0, <1>5 DEF Levels
  <2> QED
    BY <1>1, <1>13, <2>1 DEF PathLevels
<1> QED
  BY <1>2, <1>5, <1>6, <1>12, <1>14

\* graph.go:154 on GetDiscoveryPath, "returning root-first edges", for scans of any
\* size in which no trace was found from itself: the row with the most hops cannot
\* be extended, and only the seed of the scan has no edge into it.
THEOREM SeedComesFirst == Spec => []SeedFirstUnlessCyclic
<1>1. GraphInv => SeedFirstUnlessCyclic
  BY FirstIsSeed DEF SeedFirstUnlessCyclic
<1> QED
  BY <1>1, GraphInvariant, PTL

\* The traces at most n edges before target.
Before(bb, s, target) ==
  /\ bb[0] = {target}
  /\ \A n \in 0..Len(traces) : n # Len(traces) => bb[n + 1] = bb[n] \cup Image(LinksBack(s), bb[n])

LEMMA BeforeExists ==
  ASSUME TypeOK, NEW s, NEW target \in DOMAIN traces
  PROVE  \E bb : /\ Before(bb, s, target)
                 /\ \A n \in 0..Len(traces) : target \in bb[n] /\ bb[n] \in SUBSET DOMAIN traces
                 /\ Image(LinksBack(s), bb[Len(traces)]) \subseteq bb[Len(traces)]
<1> DEFINE len == Len(traces)
           U == DOMAIN traces
           S == SUBSET U
           R == LinksBack(s)
           grow(set) == set \cup Image(R, set)
           step == [n \in 1..len |-> [set \in S |-> grow(set)]]
           first == {target}
<1>1. len \in Nat /\ IsFiniteSet(U) /\ Cardinality(U) <= len /\ R \in SUBSET (U \X U) /\ target \in U
  BY Domains, DomainSize, LinksOf
<1> HIDE DEF len, U, R
<1>2. \A set \in S : grow(set) \in S
  <2> SUFFICES ASSUME NEW set \in S, NEW x \in Image(R, set) PROVE x \in U
    OBVIOUS
  <2>1. PICK pair \in R : x = pair[2]
    BY DEF Image
  <2> QED
    BY <1>1, <2>1
<1>3. step \in [1..len -> [S -> S]] /\ first \in S
  <2> HIDE DEF grow
  <2> QED
    BY <1>1, <1>2
<1>4. PICK bb \in [0..len -> S] : Unfolds(bb, len, first, step)
  <2> HIDE DEF step, S, first
  <2> QED
    BY <1>1, <1>3, Recursion
<1>5. ASSUME NEW n \in 0..len, n # len PROVE bb[n + 1] = grow(bb[n])
  <2>1. n + 1 \in 1..len /\ (n + 1) - 1 = n /\ bb[n] \in S
    BY <1>1, <1>5
  <2>2. bb[n + 1] = step[n + 1][bb[(n + 1) - 1]]
    BY <1>4, <2>1 DEF Unfolds
  <2> HIDE DEF grow, S
  <2> QED
    BY <2>1, <2>2
<1>6. bb[0] = {target}
  BY <1>4 DEF Unfolds
<1>7. Spreads(bb, U, R, len)
  BY <1>5 DEF Spreads
<1>8. /\ \A n \in 0..len : target \in bb[n] /\ bb[n] \in SUBSET U
      /\ Image(R, bb[len]) \subseteq bb[len]
  BY <1>1, <1>6, <1>7, SpreadCloses
<1> QED
  BY <1>5, <1>6, <1>8 DEF Before, len, U, R

LEMMA BackImage ==
  ASSUME NEW s, NEW set, NEW x
  PROVE  x \in Image(LinksBack(s), set) <=>
           \E e \in EdgesOf(s) : e.parent # Null /\ e.parent = x /\ e.child \in set
<1>1. ASSUME NEW e \in EdgesOf(s), e.parent # Null, e.parent = x, e.child \in set
      PROVE  x \in Image(LinksBack(s), set)
  <2>1. <<e.child, e.parent>> \in LinksBack(s)
    BY <1>1 DEF LinksBack
  <2> QED
    BY <1>1, <2>1 DEF Image
<1>2. ASSUME x \in Image(LinksBack(s), set)
      PROVE  \E e \in EdgesOf(s) : e.parent # Null /\ e.parent = x /\ e.child \in set
  <2>1. PICK pair \in LinksBack(s) : pair[1] \in set /\ x = pair[2]
    BY <1>2 DEF Image
  <2>2. PICK e \in EdgesOf(s) : e.parent # Null /\ pair = <<e.child, e.parent>>
    BY <2>1, Zenon DEF LinksBack
  <2> QED
    BY <2>1, <2>2
<1> QED
  BY <1>1, <1>2

LEMMA PathComplete ==
  ASSUME TypeOK, NEW s, NEW target, NEW f, PathLevels(f, s, target),
         NEW bb, Before(bb, s, target), NEW n \in 0..Len(traces) - 1, NEW i,
         AtDistance(bb, i, n + 1)
  PROVE  \E r \in f[n] : r.parent = i /\ r.child \in bb[n]
<1> DEFINE Found(k, j) == \E q \in f[k] :
             q.parent = j /\ q.child \in bb[k] /\ q.visited \subseteq bb[k + 1]
           T == {k \in Nat : \A j : AtDistance(bb, j, k + 1) => Found(k, j)}
           m == Len(traces) - 1
<1>0. /\ m \in Nat /\ Len(traces) \in Nat
      /\ \A k \in 0..m : k \in 0..Len(traces) /\ k # Len(traces) /\ k \in Nat
  <2> DEFINE len == Len(traces)
  <2>1. len \in Nat /\ n \in 0..len - 1
    BY Domains
  <2> HIDE DEF len
  <2> QED
    BY <2>1 DEF len
<1>1. 0 \in T
  <2> SUFFICES ASSUME NEW j, AtDistance(bb, j, 0 + 1) PROVE Found(0, j)
    OBVIOUS
  <2>1. 0 \in 0..Len(traces) /\ 0 # Len(traces) /\ 0 + 1 = 1 /\ 0 \in 0..1 - 1
    BY <1>0
  <2>2. bb[0] = {target} /\ bb[1] = bb[0] \cup Image(LinksBack(s), bb[0])
    BY <2>1 DEF Before
  <2>3. j \in bb[1] /\ j \notin bb[0]
    BY <2>1 DEF AtDistance
  <2>4. PICK e \in EdgesOf(s) : e.parent # Null /\ e.parent = j /\ e.child \in bb[0]
    BY <2>2, <2>3, BackImage
  <2> DEFINE q == RowOf(e, 0, {e.child})
  <2>5. q \in f[0]
    BY <2>2, <2>4 DEF PathLevels, PathFirst
  <2>6. q.parent = j /\ q.child = e.child /\ q.visited = {e.child}
    BY <2>4 DEF RowOf
  <2> HIDE DEF q
  <2> QED
    BY <2>1, <2>2, <2>4, <2>5, <2>6
<1>2. ASSUME NEW k \in 0..m, k \in T, k # m PROVE k + 1 \in T
  <2>1. /\ k + 1 \in Nat /\ k \in 0..Len(traces) /\ k \in Nat /\ k + 1 \in 0..Len(traces)
        /\ k + 1 # Len(traces) /\ k # Len(traces)
    BY <1>0, <1>2
  <2> SUFFICES ASSUME NEW j, AtDistance(bb, j, (k + 1) + 1) PROVE Found(k + 1, j)
    BY <2>1
  <2>2. bb[(k + 1) + 1] = bb[k + 1] \cup Image(LinksBack(s), bb[k + 1])
    BY <2>1 DEF Before
  <2>3. j \in bb[(k + 1) + 1] /\ \A g \in 0..k + 1 : j \notin bb[g]
    BY <2>1 DEF AtDistance
  <2>4. PICK e \in EdgesOf(s) : e.parent # Null /\ e.parent = j /\ e.child \in bb[k + 1]
    <3>1. j \in Image(LinksBack(s), bb[k + 1])
      BY <2>1, <2>2, <2>3
    <3> QED
      BY <3>1, BackImage
  <2>5. AtDistance(bb, e.child, k + 1)
    <3>1. ASSUME NEW g \in 0..(k + 1) - 1, e.child \in bb[g] PROVE FALSE
      <4>1. g \in 0..Len(traces) /\ g # Len(traces) /\ g + 1 \in 0..k + 1
        BY <1>0, <2>1
      <4>2. bb[g + 1] = bb[g] \cup Image(LinksBack(s), bb[g])
        BY <4>1 DEF Before
      <4>3. j \in Image(LinksBack(s), bb[g])
        BY <2>4, <3>1, BackImage
      <4> QED
        BY <2>3, <4>1, <4>2, <4>3
    <3> QED
      BY <2>4, <3>1 DEF AtDistance
  <2>6. PICK r \in f[k] : r.parent = e.child /\ r.visited \subseteq bb[k + 1]
    BY <1>2, <2>5
  <2>7. r \in PathRow
    <3>1. k \in Levels
      BY <2>1 DEF Levels
    <3>2. RowAt(s, r, k)
      BY <3>1, PathSound
    <3> QED
      BY <3>2 DEF RowAt
  <2>8. e.parent \notin r.visited
    BY <2>1, <2>3, <2>4, <2>6
  <2> DEFINE q == RowOf(e, r.hop + 1, r.visited \cup {e.parent})
  <2>9. q \in PathStep(s, r)
    BY <2>4, <2>6, <2>7, <2>8, PathStepIs
  <2>10. q.parent = j /\ q.child = e.child /\ q.visited = r.visited \cup {j}
    BY <2>4 DEF RowOf
  <2> HIDE DEF q
  <2>11. q \in f[k + 1]
    <3>1. f[k + 1] = PathNext(s, f[k])
      BY <2>1 DEF PathLevels
    <3> QED
      BY <2>6, <2>9, <3>1 DEF PathNext
  <2>12. q.visited \subseteq bb[(k + 1) + 1]
    BY <2>2, <2>3, <2>6, <2>10
  <2> QED
    BY <2>4, <2>10, <2>11, <2>12
<1> HIDE DEF T
<1>3. \A k \in 0..m : k \in T
  BY <1>0, <1>1, <1>2, BoundedInduction
<1>4. n \in T
  BY <1>3
<1> QED
  BY <1>4 DEF T

LEMMA BackRecursive ==
  ASSUME NEW s, NEW target
  PROVE  Back(GetDiscoveryPath(s, target), target) = CHOOSE f : f = [n \in 0..Len(traces) |->
           IF n = 0 THEN {target}
           ELSE f[n - 1] \cup {r.parent : r \in {q \in GetDiscoveryPath(s, target) :
                                                  q.child \in f[n - 1]}}]
BY Zenon DEF Back

Nearer(s, target, set) ==
  set \cup {r.parent : r \in {q \in GetDiscoveryPath(s, target) : q.child \in set}}

LEMMA BackUnfolds ==
  ASSUME TypeOK, NEW s, NEW target \in DOMAIN traces
  PROVE  /\ Back(GetDiscoveryPath(s, target), target)[0] = {target}
         /\ \A n \in 0..Len(traces) : n # Len(traces) =>
              Back(GetDiscoveryPath(s, target), target)[n + 1] =
                Nearer(s, target, Back(GetDiscoveryPath(s, target), target)[n])
<1> DEFINE len == Len(traces)
           S == SUBSET ({Null} \cup DOMAIN traces)
           grow(set) == Nearer(s, target, set)
           step == [n \in 1..len |-> [set \in S |-> grow(set)]]
           first == {target}
<1>0. len \in Nat /\ first \in S
  BY Domains
<1>1. \A set \in S : grow(set) \in S
  <2>1. ASSUME NEW r \in GetDiscoveryPath(s, target) PROVE r.parent \in {Null} \cup DOMAIN traces
    <3>1. PICK f : PathLevels(f, s, target)
      BY PathLeveled
    <3>2. PICK n \in Levels : r \in f[n]
      BY <3>1 DEF PathLevels
    <3>3. RowAt(s, r, n)
      BY <3>1, <3>2, PathSound
    <3> QED
      BY <3>3 DEF RowAt, PathRow
  <2> QED
    BY <2>1 DEF Nearer
<1>2. step \in [1..len -> [S -> S]]
  <2> HIDE DEF S, grow
  <2> QED
    BY <1>1
<1>3. PICK f \in [0..len -> S] : Unfolds(f, len, first, step)
  <2> HIDE DEF step, len, S, first
  <2> QED
    BY <1>0, <1>2, Recursion
<1>4. f[0] = first /\ \A n \in 1..len : f[n] = grow(f[n - 1])
  <2>1. \A n \in 1..len : n - 1 \in 0..len
    BY <1>0
  <2>2. \A n \in 1..len : f[n - 1] \in S
    BY <2>1
  <2> HIDE DEF grow, S, first
  <2> QED
    BY <1>3, <2>2 DEF Unfolds
<1>5. f = [n \in 0..len |-> IF n = 0 THEN first ELSE grow(f[n - 1])]
  <2>1. \A n \in 0..len : n # 0 => n \in 1..len
    BY <1>0
  <2> HIDE DEF grow, first
  <2> QED
    BY <1>3, <1>4, <2>1
<1> DEFINE g == CHOOSE h : h = [n \in 0..len |-> IF n = 0 THEN first ELSE grow(h[n - 1])]
<1>6. g = [n \in 0..len |-> IF n = 0 THEN first ELSE grow(g[n - 1])]
  BY <1>5, Zenon
<1>7. Back(GetDiscoveryPath(s, target), target) = g
  BY BackRecursive, ZenonT(30) DEF Nearer
<1> HIDE DEF g, grow, first
<1>8. \A n \in 0..len : g[n] = IF n = 0 THEN first ELSE grow(g[n - 1])
  BY <1>6, Zenon
<1>9. 0 \in 0..len /\ \A n \in 0..len : n # len => n + 1 \in 0..len /\ n + 1 # 0 /\ (n + 1) - 1 = n
  BY <1>0
<1>10. g[0] = first
  BY <1>8, <1>9, Zenon
<1>11. ASSUME NEW n \in 0..len, n # len PROVE g[n + 1] = grow(g[n])
  <2>1. g[n + 1] = grow(g[(n + 1) - 1])
    BY <1>8, <1>9, <1>11, Zenon
  <2> QED
    BY <1>9, <1>11, <2>1
<1> QED
  BY <1>7, <1>10, <1>11 DEF first, grow

\* The edges of the path lead back to every trace before the target.
LEMMA BackCovers ==
  ASSUME TypeOK, NEW s, NEW target \in DOMAIN traces, NEW bb, Before(bb, s, target),
         NEW n \in 0..Len(traces)
  PROVE  bb[n] \subseteq Back(GetDiscoveryPath(s, target), target)[n]
<1> DEFINE back == Back(GetDiscoveryPath(s, target), target)
           rows == GetDiscoveryPath(s, target)
           m == Len(traces)
           T == {k \in Nat : bb[k] \subseteq back[k]}
<1>0. m \in Nat
  BY Domains
<1>1. 0 \in T
  BY BackUnfolds DEF Before
<1>2. ASSUME NEW k \in 0..m, k \in T, k # m PROVE k + 1 \in T
  <2>1. /\ k + 1 \in Nat /\ k \in Nat
        /\ back[k + 1] = back[k] \cup {r.parent : r \in {q \in rows : q.child \in back[k]}}
    BY <1>0, <1>2, BackUnfolds DEF Nearer
  <2>2. \A l \in 0..m : l # m => bb[l] \subseteq bb[l + 1]
    BY DEF Before
  <2> SUFFICES ASSUME NEW i \in bb[k + 1] PROVE i \in back[k + 1]
    BY <2>1
  <2>3. CASE i \in bb[k]
    BY <1>2, <2>1, <2>3
  <2>4. CASE i \notin bb[k]
    <3>1. ASSUME NEW g \in 0..(k + 1) - 1, i \in bb[g] PROVE FALSE
      <4>1. g \in 0..m /\ k \in g..m
        BY <1>0, <1>2, <2>1
      <4>2. bb[g] \subseteq bb[k]
        <5> HIDE DEF m
        <5> QED
          BY <1>0, <2>2, <4>1, Monotone
      <4> QED
        BY <2>4, <3>1, <4>2
    <3>2. AtDistance(bb, i, k + 1)
      BY <3>1 DEF AtDistance
    <3>3. k \in 0..m - 1
      BY <1>0, <1>2
    <3>4. PICK f : PathLevels(f, s, target)
      BY PathLeveled
    <3>5. PICK r \in f[k] : r.parent = i /\ r.child \in bb[k]
      BY <3>2, <3>3, <3>4, PathComplete
    <3>6. r \in rows
      <4>1. k \in Levels
        BY <1>0, <1>2 DEF Levels
      <4> QED
        BY <3>4, <3>5, <4>1 DEF PathLevels
    <3> HIDE DEF rows, back
    <3>7. r.child \in back[k]
      BY <1>2, <3>5
    <3> QED
      BY <2>1, <3>5, <3>6, <3>7
  <2> QED
    BY <2>3, <2>4
<1> HIDE DEF T
<1>3. \A k \in 0..m : k \in T
  BY <1>0, <1>1, <1>2, BoundedInduction
<1>4. n \in T
  BY <1>3
<1> QED
  BY <1>4 DEF T

LEMMA PathToSeed ==
  ASSUME GraphInv, NEW s \in Seeded, NEW target \in ScanNodes(s)
  PROVE  /\ GetDiscoveryPath(s, target) # {}
         /\ Seed(s) \in Back(GetDiscoveryPath(s, target), target)[Len(traces)]
<1>0. /\ TypeOK /\ target \in DOMAIN traces /\ Seed(s) \in DOMAIN traces
      /\ Len(traces) \in 0..Len(traces) /\ 0 \in Levels /\ Null \notin DOMAIN traces
  BY Domains, SeedIs DEF GraphInv, ScanNodes, Seeded, Levels, Null
<1>1. GetDiscoveryPath(s, target) # {}
  <2>1. PICK f : PathLevels(f, s, target)
    BY <1>0, PathLeveled
  <2>2. PICK e \in EdgesOf(s) : e.child = target
    BY NodeIsChild
  <2>3. RowOf(e, 0, {e.child}) \in f[0]
    BY <2>1, <2>2 DEF PathLevels, PathFirst
  <2> QED
    BY <1>0, <2>1, <2>3 DEF PathLevels
<1>2. PICK bb : /\ Before(bb, s, target)
                /\ \A n \in 0..Len(traces) : target \in bb[n] /\ bb[n] \in SUBSET DOMAIN traces
                /\ Image(LinksBack(s), bb[Len(traces)]) \subseteq bb[Len(traces)]
  BY <1>0, BeforeExists
<1> DEFINE whole == bb[Len(traces)]
           X == {i \in DOMAIN traces : i \notin whole}
<1>3. Seed(s) \in whole
  <2> SUFFICES ASSUME Seed(s) \notin whole PROVE FALSE
    OBVIOUS
  <2>1. Children(s, X) \subseteq X
    <3> SUFFICES ASSUME NEW e \in EdgesOf(s), e.parent \in X PROVE e.child \in X
      BY DEF Children
    <3>1. e.child \in DOMAIN traces /\ e.parent # Null
      BY <1>0, EdgeFields DEF EdgesOf
    <3>2. e.child \notin whole
      <4> SUFFICES ASSUME e.child \in whole PROVE e.parent \in whole
        OBVIOUS
      <4> HIDE DEF whole
      <4>1. e.parent \in Image(LinksBack(s), whole)
        BY <3>1, BackImage
      <4> QED
        BY <1>2, <4>1 DEF whole
    <3> QED
      BY <3>1, <3>2
  <2>2. Seed(s) \in X /\ X \in SUBSET DOMAIN traces
    BY <1>0
  <2>3. ScanNodes(s) \subseteq X
    <3> HIDE DEF X
    <3> QED
      BY <2>1, <2>2 DEF GraphInv, Connected, ConnectedScan
  <2>4. target \in whole
    BY <1>0, <1>2
  <2> QED
    BY <2>3, <2>4
<1>4. whole \subseteq Back(GetDiscoveryPath(s, target), target)[Len(traces)]
  BY <1>0, <1>2, BackCovers
<1> QED
  BY <1>1, <1>3, <1>4

\* README.md:17, "you can always trace a fact backward to how Deeper found it", for
\* graphs of any size, with circles, shared traces and several ways to a trace: the
\* rows of GetDiscoveryPath connect every trace of a scan with the scan's seed,
\* though the query takes no trace twice.
THEOREM FactsTraceBack == Spec => []PathReachesSeed
<1>1. GraphInv => PathReachesSeed
  BY PathToSeed DEF PathReachesSeed
<1> QED
  BY <1>1, GraphInvariant, PTL
===============================================================================
