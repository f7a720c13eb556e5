------------------------------ MODULE TraceGraph ------------------------------
(***************************************************************************)
(* The trace graph in the database, row by row, and the queries over it    *)
(* (internal/pkg/database: graph.go, the sessions of repository.go, the    *)
(* tables of migrations/00002_trace_graph.sql). Several scans may write to *)
(* one database; DB.mu and SQLite serialize the operations, and a failed   *)
(* transaction leaves no trace, so each operation is one step.             *)
(*                                                                         *)
(* The id of a row is its place in the table: ids are handed out without   *)
(* gaps, since an ignored insert uses none up and nothing is deleted.      *)
(***************************************************************************)
EXTENDS Naturals, Sequences, SequencesExt

CONSTANTS
  Traces,     \* (value, type) pairs
  Plugins,
  MaxScans,   \* bound: sessions
  MaxEdges,   \* bound: rows of trace_edges
  MaxBatch    \* bound: discoveries stored by one call

ASSUME BoundAssumption == MaxScans \in Nat /\ MaxEdges \in Nat /\ MaxBatch \in Nat

VARIABLES
  sessions,  \* scan_sessions: the scan's seed, and how far ProcessInput came
  traces,    \* table traces
  edges      \* table trace_edges

vars == <<sessions, traces, edges>>

Null == 0   \* parent_trace_id of a seed edge
SeedPlugin == "__seed__"

TypeOK ==
  /\ sessions \in Seq([seed : Traces, step : {"created", "rooted", "seeded"}])
  /\ traces \in Seq(Traces)
  /\ edges \in Seq([parent : {Null} \cup DOMAIN traces, child : DOMAIN traces,
                    plugin : Plugins \cup {SeedPlugin}, scan : DOMAIN sessions])

Init == sessions = <<>> /\ traces = <<>> /\ edges = <<>>

\* SELECT id FROM traces WHERE value = ? AND type = ?
Id(table, t) == CHOOSE i \in DOMAIN table : table[i] = t

\* INSERT OR IGNORE INTO traces, under UNIQUE(value, type).
ResolveTrace(table, t) == IF t \in Range(table) THEN table ELSE Append(table, t)

\* Variant: the UNIQUE constraint of trace_edges is missing.
InsertEdgeAlways(table, row) == Append(table, row)

\* INSERT OR IGNORE INTO trace_edges, under UNIQUE(parent_trace_id, child_trace_id,
\* plugin_name, scan_id): a NULL parent equals nothing, not even another NULL.
InsertEdge(table, row) ==
  IF row.parent # Null /\ row \in Range(table) THEN table ELSE Append(table, row)

\* Variant: an edge is stored only for a trace that is new in the graph.
StoreDiscoveryNewOnly(db, s, d) ==
  LET withParent == ResolveTrace(db.traces, d.parent)
      nodes == ResolveTrace(withParent, d.child)
      row == [parent |-> Id(nodes, d.parent), child |-> Id(nodes, d.child),
              plugin |-> d.plugin, scan |-> s]
  IN [traces |-> nodes,
      edges |-> IF d.child \in Range(db.traces) THEN db.edges
                ELSE InsertEdge(db.edges, row)]

StoreDiscovery(db, s, d) ==
  LET withParent == ResolveTrace(db.traces, d.parent)
      nodes == ResolveTrace(withParent, d.child)
      row == [parent |-> Id(nodes, d.parent), child |-> Id(nodes, d.child),
              plugin |-> d.plugin, scan |-> s]
  IN [traces |-> nodes, edges |-> InsertEdge(db.edges, row)]

\* What PersistDiscoveries makes of the two tables.
Persisted(s, discoveries) ==
  LET db[n \in 0..Len(discoveries)] ==
        IF n = 0 THEN [traces |-> traces, edges |-> edges]
        ELSE StoreDiscovery(db[n - 1], s, discoveries[n])
  IN db[Len(discoveries)]

EdgesOf(s) == {e \in Range(edges) : e.scan = s}

-------------------------------------------------------------------------------
CreateScanSession(t) ==
  /\ Len(sessions) < MaxScans
  /\ sessions' = Append(sessions, [seed |-> t, step |-> "created"])
  /\ UNCHANGED <<traces, edges>>

\* GetOrCreateTrace of the seed.
GetOrCreateTrace(s) ==
  /\ sessions[s].step = "created"
  /\ sessions' = [sessions EXCEPT ![s].step = "rooted"]
  /\ traces' = ResolveTrace(traces, sessions[s].seed)
  /\ UNCHANGED edges

Seed(s) == Id(traces, sessions[s].seed)

InsertSeedEdge(s) ==
  /\ sessions[s].step = "rooted"
  /\ Len(edges) < MaxEdges
  /\ sessions' = [sessions EXCEPT ![s].step = "seeded"]
  /\ edges' = InsertEdge(edges, [parent |-> Null, child |-> Seed(s),
                                 plugin |-> SeedPlugin, scan |-> s])
  /\ UNCHANGED traces

\* Variant: the nodes of every scan.
ScanNodesOfAll(s) == DOMAIN traces

\* GetScanGraph: the traces at either end of an edge of the scan.
ScanNodes(s) ==
  {i \in DOMAIN traces : \E e \in EdgesOf(s) : i \in {e.parent, e.child}}

\* What a batch can discover: the parents are traces of the scan, the children any.
Batches(s) ==
  UNION {[1..n -> [parent : {traces[i] : i \in ScanNodes(s)}, plugin : Plugins,
                   child : Traces]] : n \in 1..MaxBatch}

\* Variant: the nodes are not stored with the edges.
PersistEdgesOnly(s, discoveries) ==
  /\ sessions[s].step = "seeded"
  /\ Len(edges) + Len(discoveries) <= MaxEdges
  /\ edges' = Persisted(s, discoveries).edges
  /\ UNCHANGED <<sessions, traces>>

PersistDiscoveries(s, discoveries) ==
  /\ sessions[s].step = "seeded"
  /\ Len(edges) + Len(discoveries) <= MaxEdges
  /\ traces' = Persisted(s, discoveries).traces
  /\ edges' = Persisted(s, discoveries).edges
  /\ UNCHANGED sessions

Next ==
  \/ \E t \in Traces : CreateScanSession(t)
  \/ \E s \in DOMAIN sessions :
       \/ GetOrCreateTrace(s)
       \/ InsertSeedEdge(s)
       \/ \E discoveries \in Batches(s) : PersistDiscoveries(s, discoveries)

Spec == Init /\ [][Next]_vars

-------------------------------------------------------------------------------
(***************************************************************************)
(* The recursive queries: level n holds the rows of n joins. A row carries *)
(* the ids it has visited, so the levels run dry after as many joins as    *)
(* there are traces, plus one for the seed row of a path.                  *)
(***************************************************************************)
Levels == 0..Len(traces) + 1

ReachStep(s, row) ==
  {[id |-> e.child, hops |-> row.hops + 1, visited |-> row.visited \cup {e.child}]
   : e \in {f \in EdgesOf(s) : f.parent = row.id /\ f.child \notin row.visited}}

\* Variant: the hop bound is off by one.
WithinHopsOneMore(row, maxHops) == row.hops <= maxHops

WithinHops(row, maxHops) == row.hops < maxHops

ReachRows(s, start, maxHops) ==
  LET level[n \in Levels] ==
        IF n = 0 THEN {[id |-> start, hops |-> 0, visited |-> {start}]}
        ELSE UNION {ReachStep(s, r) : r \in {q \in level[n - 1] : WithinHops(q, maxHops)}}
  IN UNION {level[n] : n \in Levels}

\* GROUP BY trace_id with MIN(hops).
GetReachableTraces(s, start, maxHops) ==
  LET rows == ReachRows(s, start, maxHops) IN
  {[id |-> r.id, hops |-> Min({q.hops : q \in {p \in rows : p.id = r.id}})] : r \in rows}

\* Variant: the join follows the edges of every scan.
PathStepAnyScan(s, row) ==
  {[child |-> e.child, parent |-> e.parent, plugin |-> e.plugin, hop |-> row.hop + 1,
    visited |-> row.visited \cup {e.parent}]
   : e \in {f \in Range(edges) : f.child = row.parent /\ f.parent # Null
                                 /\ f.parent \notin row.visited}}

\* Variant: the join follows the edges forward.
PathStepForward(s, row) ==
  {[child |-> e.child, parent |-> e.parent, plugin |-> e.plugin, hop |-> row.hop + 1,
    visited |-> row.visited \cup {e.child}]
   : e \in {f \in EdgesOf(s) : f.parent = row.child /\ f.child \notin row.visited}}

\* The join takes a row to the edges into its parent.
PathStep(s, row) ==
  {[child |-> e.child, parent |-> e.parent, plugin |-> e.plugin, hop |-> row.hop + 1,
    visited |-> row.visited \cup {e.parent}]
   : e \in {f \in EdgesOf(s) : f.child = row.parent /\ f.parent # Null
                               /\ f.parent \notin row.visited}}

\* The rows of GetDiscoveryPath, which returns them ORDER BY hop DESC.
GetDiscoveryPath(s, target) ==
  LET level[n \in Levels] ==
        IF n = 0
        THEN {[child |-> e.child, parent |-> e.parent, plugin |-> e.plugin, hop |-> 0,
               visited |-> {e.child}] : e \in {f \in EdgesOf(s) : f.child = target}}
        ELSE UNION {PathStep(s, r) : r \in level[n - 1]}
  IN UNION {level[n] : n \in Levels}

-------------------------------------------------------------------------------
(***************************************************************************)
(* Correctness.                                                            *)
(***************************************************************************)
Seeded == {s \in DOMAIN sessions : sessions[s].step = "seeded"}

Children(s, nodes) == {e.child : e \in {f \in EdgesOf(s) : f.parent \in nodes}}

\* The traces at most n edges away from start, found level by level.
Ball(s, start) ==
  LET ball[n \in 0..Len(traces)] ==
        IF n = 0 THEN {start} ELSE LET smaller == ball[n - 1] IN smaller \cup Children(s, smaller)
  IN ball

\* The tables hold no trace and no edge twice.
RowsUnique ==
  /\ \A i, j \in DOMAIN traces : traces[i] = traces[j] => i = j
  /\ \A i, j \in DOMAIN edges : edges[i] = edges[j] => i = j

\* Storing a batch a second time changes nothing, as a scan that finds the same
\* again relies on, whatever order the rows came in: concurrent scans that find the
\* same trace share its node, and each scan has one edge per way it was found.
ReplayIsNoOp ==
  /\ RowsUnique
  /\ \A s \in Seeded : \A d \in [parent : {traces[i] : i \in ScanNodes(s)}, plugin : Plugins,
                              child : Traces] :
    LET once == Persisted(s, <<d>>) IN StoreDiscovery(once, s, d) = once

\* spec/trace_graph.md's "PersistDiscoveries_MultiParent": a discovery has its own
\* edge afterwards, also when its child is known from other parents or scans, or
\* comes twice in the batch.
EveryDiscoveryStored ==
  [][\A s \in Seeded : \A discoveries \in Batches(s) :
       PersistDiscoveries(s, discoveries) =>
         \A i \in DOMAIN discoveries : \E e \in Range(edges') :
           /\ e.parent \in DOMAIN traces' /\ traces'[e.parent] = discoveries[i].parent
           /\ traces'[e.child] = discoveries[i].child
           /\ e.plugin = discoveries[i].plugin
           /\ e.scan = s]_vars

\* GetReachableTraces lists simple paths with their lengths; the result is the set
\* of traces within maxHops with their distances, in graphs with cycles as well.
ReachableIsDistance ==
  \A s \in Seeded : \A start \in ScanNodes(s), maxHops \in 0..Len(traces) :
    GetReachableTraces(s, start, maxHops) =
      LET ball == Ball(s, start) IN
      {[id |-> i, hops |-> CHOOSE h \in 0..maxHops :
                             i \in ball[h] /\ \A g \in 0..h - 1 : i \notin ball[g]]
       : i \in ball[maxHops]}

\* What the graph report shows is what hangs on the scan's own seed.
GraphIsReachable ==
  \A s \in Seeded : ScanNodes(s) = Ball(s, Seed(s))[Len(traces)]

\* The traces that at most n of the rows connect with target, level by level.
Back(rows, target) ==
  LET back[n \in 0..Len(traces)] ==
        IF n = 0 THEN {target}
        ELSE LET nearer == back[n - 1] IN
             nearer \cup {r.parent : r \in {q \in rows : q.child \in nearer}}
  IN back

\* README.md:17: "you can always trace a fact backward to how Deeper found it". The
\* path query visits every trace once at most, yet the edges it returns connect
\* the seed with the target in every graph.
PathReachesSeed ==
  \A s \in Seeded : \A target \in ScanNodes(s) :
    LET rows == GetDiscoveryPath(s, target) IN
    rows # {} /\ Seed(s) \in Back(rows, target)[Len(traces)]

\* Some row of the path that comes first in ORDER BY hop DESC.
First(rows) == {r \in rows : \A q \in rows : q.hop <= r.hop}

Cyclic(s) ==
  \E e \in EdgesOf(s) : e.parent # Null /\ e.parent \in Ball(s, e.child)[Len(traces)]

\* graph.go:154 on GetDiscoveryPath: "returning root-first edges". Unless the scan
\* has found something in a circle, the first edge is the seed's.
SeedFirstUnlessCyclic ==
  \A s \in Seeded : \A target \in ScanNodes(s) :
    ~Cyclic(s) => \A r \in First(GetDiscoveryPath(s, target)) : r.parent \in {Null, Seed(s)}

=============================================================================
