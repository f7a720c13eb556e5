------------------------------ MODULE ScanEngine ------------------------------
(***************************************************************************)
(* Successive scans over one database: the breadth-first loop of           *)
(* Engine.ProcessInput, its batches of ProcessTrace calls, the trace graph *)
(* and the deduplication markers that outlive the process (cli/scan.go,    *)
(* internal/app/deeper/engine, internal/pkg/database).                     *)
(*                                                                         *)
(* A call of ProcessTrace is what TraceCalls and WorkerPool say of it: it  *)
(* settles its tasks in any order and returns, or is abandoned when the    *)
(* scan expires, while its queued plugins still run. Exploration is what   *)
(* the whole promises in its turn.                                         *)
(***************************************************************************)
EXTENDS Naturals, Sequences, FiniteSets

CONSTANTS
  Traces,          \* the facts, each a (value, type) pair
  Values,          \* their values
  Plugins,
  ValueOf,         \* [Traces -> Values]; a deduplication key has no type in it
  Handles,         \* [Traces -> SUBSET Plugins], the plugins that want the trace
  Finds,           \* [Traces -> [Plugins -> SUBSET Traces]], what the sources answer
  MaxConcurrency,  \* config.MaxConcurrency
  MaxScans,        \* bound: scans started over the life of the database
  Seeds,           \* bound: what they are started with
  NoTrace          \* NULL, the parent of the seed; the input of a blank scan

ASSUME TraceAssumption ==
  /\ IsFiniteSet(Traces)
  /\ NoTrace \notin Traces
  /\ ValueOf \in [Traces -> Values]
  /\ Handles \in [Traces -> SUBSET Plugins]
  /\ Finds \in [Traces -> [Plugins -> SUBSET Traces]]
ASSUME BoundAssumption ==
  /\ MaxConcurrency \in Nat \ {0}
  /\ MaxScans \in Nat \ {0}

VARIABLES
  \* the database
  sessions,  \* scan_sessions, by id: what was scanned and the status
  nodes,     \* traces
  edges,     \* trace_edges
  disk,      \* keys marked in cache_entries
  \* the process of the current scan
  at,        \* where RunE and ProcessInput are
  stack,     \* stack, a queue in spite of its name
  seen,      \* seen; allTraces lists the same set
  batch,     \* traces whose ProcessTrace calls run now
  status,    \* the call of a trace: none yet, running, returned or abandoned
  outcome,   \* what became of the task of a trace and a plugin
  memory,    \* keys in the in-memory deduplication cache
  marking,   \* keys whose MarkProcessed goroutine has not written yet
  ctxDone    \* the scan's deadline has passed

database == <<sessions, nodes, edges, disk>>
process  == <<at, stack, seen, batch, status, outcome, memory, marking, ctxDone>>
vars     == <<sessions, nodes, edges, disk, at, stack, seen, batch, status, outcome,
              memory, marking, ctxDone>>

Keys == Values \X Plugins
Key(t, p) == <<ValueOf[t], p>>
SeedPlugin == "__seed__"

Edges == [parent : Traces \cup {NoTrace}, plugin : Plugins \cup {SeedPlugin},
          child : Traces, scan : Nat]

TypeOK ==
  /\ sessions \in Seq([root : Traces \cup {NoTrace},
                       status : {"running", "completed", "failed"}])
  /\ nodes \subseteq Traces
  /\ edges \subseteq Edges
  /\ disk \subseteq Keys
  /\ at \in {"idle", "root", "seed", "loop", "batch", "finished", "failed", "over"}
  /\ stack \in Seq(Traces)
  /\ seen \subseteq Traces
  /\ batch \subseteq Traces
  /\ status \in [Traces -> {"none", "open", "done", "aborted"}]
  /\ outcome \in [Traces -> [Plugins ->
       {"none", "queued", "traces", "error", "dup", "refused"}]]
  /\ memory \subseteq Keys
  /\ marking \subseteq Keys
  /\ ctxDone \in BOOLEAN

\* The id of the current scan, and its row.
scan == Len(sessions)
root == sessions[scan].root

\* ProcessInput has stored the seed, and nothing has failed since.
InLoop == at \in {"loop", "batch", "finished"}

EdgesOf(s) == {e \in edges : e.scan = s}

NoCall == [t \in Traces |-> "none"]
NoTask == [t \in Traces |-> [p \in Plugins |-> "none"]]

Init ==
  /\ sessions = <<>>
  /\ nodes = {}
  /\ edges = {}
  /\ disk = {}
  /\ at = "idle"
  /\ stack = <<>> /\ seen = {} /\ batch = {}
  /\ status = NoCall /\ outcome = NoTask
  /\ memory = {} /\ marking = {}
  /\ ctxDone = FALSE

-------------------------------------------------------------------------------
(***************************************************************************)
(* RunE and ProcessInput.                                                  *)
(***************************************************************************)

\* CreateScanSession. ProcessInput rejects a blank input straight away.
StartScan(r) ==
  /\ at = "idle"
  /\ scan < MaxScans
  /\ r \in Seeds
  /\ sessions' = Append(sessions, [root |-> r, status |-> "running"])
  /\ at' = IF r = NoTrace THEN "failed" ELSE "root"
  /\ UNCHANGED <<nodes, edges, disk, stack, seen, batch, status, outcome, memory,
                 marking, ctxDone>>

\* A database error makes ProcessInput return an error.
Fail ==
  /\ at' = "failed"
  /\ UNCHANGED <<nodes, edges, stack, seen, batch>>

\* GetOrCreateTrace of the seed.
StoreRoot ==
  /\ at = "root"
  /\ \/ Fail
     \/ /\ nodes' = nodes \cup {root}
        /\ at' = "seed"
        /\ UNCHANGED <<edges, stack, seen, batch>>
  /\ UNCHANGED <<sessions, disk, status, outcome, memory, marking, ctxDone>>

\* Variant: the two ends of the edge are swapped.
SeedEdgeSwapped(r, s) ==
  [parent |-> r, plugin |-> SeedPlugin, child |-> NoTrace, scan |-> s]

SeedEdge(r, s) == [parent |-> NoTrace, plugin |-> SeedPlugin, child |-> r, scan |-> s]

\* InsertEdge of the seed edge; the seed is the first trace to process.
StoreSeedEdge ==
  /\ at = "seed"
  /\ \/ Fail
     \/ /\ edges' = edges \cup {SeedEdge(root, scan)}
        /\ stack' = <<root>>
        /\ seen' = {root}
        /\ at' = "loop"
        /\ UNCHANGED <<nodes, batch>>
  /\ UNCHANGED <<sessions, disk, status, outcome, memory, marking, ctxDone>>

BatchSize == IF Len(stack) < MaxConcurrency THEN Len(stack) ELSE MaxConcurrency

TakeBatch ==
  /\ at = "loop"
  /\ stack # <<>>
  /\ batch' = {stack[i] : i \in 1..BatchSize}
  /\ stack' = SubSeq(stack, BatchSize + 1, Len(stack))
  /\ status' = [t \in Traces |-> IF t \in batch' THEN "open" ELSE status[t]]
  /\ at' = "batch"
  /\ UNCHANGED <<database, seen, outcome, memory, marking, ctxDone>>

\* What a call that returned normally hands over: an edge per discovered child.
Discoveries(t) ==
  IF status[t] = "done"
  THEN UNION {{[parent |-> t, plugin |-> p, child |-> c, scan |-> scan] : c \in Finds[t][p]}
              : p \in {q \in Plugins : outcome[t][q] = "traces"}}
  ELSE {}

BatchDiscoveries == UNION {Discoveries(t) : t \in batch}

\* Variant: only the edges that lead to new traces are stored.
EdgesToStoreNewOnly == {e \in BatchDiscoveries : e.child \notin seen}

EdgesToStore == BatchDiscoveries

\* Variant: the seen map is not consulted.
NewTracesAll == {e.child : e \in BatchDiscoveries}

NewTraces == {e.child : e \in BatchDiscoveries} \ seen

\* The orders in which the goroutines of a batch can have appended their results.
Orders(S) == {q \in [1..Cardinality(S) -> S] : \A i, j \in DOMAIN q : q[i] = q[j] => i = j}

\* The discoveries enter seen, and the new ones the stack.
Merge ==
  /\ seen' = seen \cup NewTraces
  /\ \E q \in Orders(NewTraces) : stack' = stack \o q
  /\ batch' = {}
  /\ at' = "loop"

\* Variant: a failed transaction is logged and the loop goes on.
PersistFailsLogged ==
  /\ BatchDiscoveries # {}
  /\ Merge
  /\ UNCHANGED <<nodes, edges>>

\* PersistDiscoveries, one transaction, stores all discoveries of a batch or none.
PersistFails == BatchDiscoveries # {} /\ Fail

Persist ==
  /\ nodes' = nodes \cup UNION {{e.parent, e.child} : e \in EdgesToStore}
  /\ edges' = edges \cup EdgesToStore
  /\ Merge

\* Every call of the batch has returned.
EndBatch ==
  /\ at = "batch"
  /\ \A t \in batch : status[t] # "open"
  /\ PersistFails \/ Persist
  /\ UNCHANGED <<sessions, disk, status, outcome, memory, marking, ctxDone>>

Finish ==
  /\ at = "loop"
  /\ stack = <<>>
  /\ at' = "finished"
  /\ UNCHANGED <<database, stack, seen, batch, status, outcome, memory, marking, ctxDone>>

\* UpdateScanSession, which may fail and leave the row as it is.
CloseSession ==
  /\ at \in {"finished", "failed"}
  /\ LET s == IF at = "finished" THEN "completed" ELSE "failed" IN
       sessions' \in {sessions, [sessions EXCEPT ![scan].status = s]}
  /\ at' = "over"
  /\ UNCHANGED <<nodes, edges, disk, stack, seen, batch, status, outcome, memory,
                 marking, ctxDone>>

\* The process exits or dies, at any point: only the database is left.
ProcessEnds ==
  /\ at # "idle"
  /\ at' = "idle"
  /\ stack' = <<>> /\ seen' = {} /\ batch' = {}
  /\ status' = NoCall /\ outcome' = NoTask
  /\ memory' = {} /\ marking' = {}
  /\ ctxDone' = FALSE
  /\ UNCHANGED database

\* The deadline that RunE sets passes.
Expire ==
  /\ at # "idle"
  /\ ~ctxDone
  /\ ctxDone' = TRUE
  /\ UNCHANGED <<database, at, stack, seen, batch, status, outcome, memory, marking>>

-------------------------------------------------------------------------------
(***************************************************************************)
(* The calls of ProcessTrace of a batch, and the pool below them.          *)
(***************************************************************************)

Settle(t, p, o) == outcome' = [outcome EXCEPT ![t][p] = o]

Submitting(t, p) ==
  /\ status[t] = "open"
  /\ p \in Handles[t]
  /\ outcome[t][p] = "none"

\* Submit finds the key in one of the two caches.
Duplicate(t, p) ==
  /\ Submitting(t, p)
  /\ Key(t, p) \in memory \cup disk
  /\ memory' = memory \cup {Key(t, p)}
  /\ Settle(t, p, "dup")
  /\ UNCHANGED <<database, at, stack, seen, batch, status, marking, ctxDone>>

\* IsDuplicate may miss any key: memory has evicted it, the disk could not be read, or
\* another call looked it up as well before it was recorded. Submit records the key,
\* then queues the task unless the scan has expired.
Accept(t, p) ==
  /\ Submitting(t, p)
  /\ ~ctxDone
  /\ memory' = memory \cup {Key(t, p)}
  /\ Settle(t, p, "queued")
  /\ UNCHANGED <<database, at, stack, seen, batch, status, marking, ctxDone>>

\* Submit records the key and then fails: limiter, full queue or expired scan.
Refuse(t, p) ==
  /\ Submitting(t, p)
  /\ memory' = memory \cup {Key(t, p)}
  /\ Settle(t, p, "refused")
  /\ UNCHANGED <<database, at, stack, seen, batch, status, marking, ctxDone>>

\* A worker runs the plugin, whether or not the call still waits for it.
Execute(t, p) ==
  /\ outcome[t][p] = "queued"
  /\ \/ Settle(t, p, "traces") /\ marking' = marking \cup {Key(t, p)}
     \/ Settle(t, p, "error") /\ UNCHANGED marking
  /\ UNCHANGED <<database, at, stack, seen, batch, status, memory, ctxDone>>

\* Variant: the call returns while plugins still run.
SettledEarly(t) == \A p \in Handles[t] : outcome[t][p] # "none"

Settled(t) == \A p \in Handles[t] : outcome[t][p] \notin {"none", "queued"}

ReturnCall(t) ==
  /\ status[t] = "open"
  /\ Settled(t)
  /\ status' = [status EXCEPT ![t] = "done"]
  /\ UNCHANGED <<database, at, stack, seen, batch, outcome, memory, marking, ctxDone>>

\* The collection loop gives up on an expired scan, though a reply may be ready.
AbortCall(t) ==
  /\ status[t] = "open"
  /\ ctxDone
  /\ \A p \in Handles[t] : outcome[t][p] # "none"
  /\ \E p \in Handles[t] : outcome[t][p] # "refused"
  /\ status' = [status EXCEPT ![t] = "aborted"]
  /\ UNCHANGED <<database, at, stack, seen, batch, outcome, memory, marking, ctxDone>>

\* The goroutine of MarkProcessed; a failed write is only logged.
WriteMarker(k) ==
  /\ k \in marking
  /\ marking' = marking \ {k}
  /\ disk' \in {disk, disk \cup {k}}
  /\ UNCHANGED <<sessions, nodes, edges, at, stack, seen, batch, status, outcome,
                 memory, ctxDone>>

EngineStep ==
  \/ StoreRoot \/ StoreSeedEdge
  \/ TakeBatch \/ EndBatch \/ Finish \/ CloseSession

TaskStep(t, p) == Duplicate(t, p) \/ Accept(t, p) \/ Refuse(t, p) \/ Execute(t, p)

CallStep(t) == ReturnCall(t) \/ AbortCall(t)

\* The last process has ended and no scan is left to start.
NoScanLeft == at = "idle" /\ scan = MaxScans /\ UNCHANGED vars

Next ==
  \/ \E r \in Traces \cup {NoTrace} : StartScan(r)
  \/ EngineStep
  \/ \E t \in Traces : CallStep(t) \/ \E p \in Plugins : TaskStep(t, p)
  \/ \E k \in Keys : WriteMarker(k)
  \/ Expire \/ ProcessEnds \/ NoScanLeft

Spec == Init /\ [][Next]_vars

\* While the loop, a call or a task can go on, one of them does: plugins return.
Fairness ==
  WF_vars(EngineStep \/ \E t \in Traces : CallStep(t) \/ \E p \in Plugins : TaskStep(t, p))

FairSpec == Spec /\ Fairness

-------------------------------------------------------------------------------
(***************************************************************************)
(* Correctness.                                                            *)
(***************************************************************************)

\* The traces connected to the seed of scan s by edges of that scan: the smallest
\* set that holds the seed and is closed under the scan's edges.
Connected(s) ==
  {t \in Traces : \A X \in SUBSET Traces :
     sessions[s].root \in X /\ (\A e \in EdgesOf(s) : e.parent \in X => e.child \in X)
     => t \in X}

\* README.md:17: "you can always trace a fact backward to how Deeper found it". Every
\* edge of every scan, finished, failed, expired or cut off by a crash, hangs on
\* the seed of its scan, and its two ends are stored.
TraceBack ==
  \A e \in edges :
    /\ e.scan \in 1..scan
    /\ e.child \in nodes
    /\ IF e.parent = NoTrace
       THEN e = SeedEdge(sessions[e.scan].root, e.scan)
       ELSE e.parent \in Connected(e.scan) \cap nodes

\* What a scan reports is what its graph holds: the traces it has seen are those
\* some edge of the scan leads to.
ReportedIsStored ==
  InLoop => seen = {e.child : e \in EdgesOf(scan)}

\* spec/trace_graph.md: "it must not also gate whether an edge gets persisted".
\* Once its batch is over, every child a plugin found for a trace has its own edge
\* from that trace, also when the child was seen before.
EveryParentKept ==
  InLoop =>
    \A t \in seen \ batch, p \in Plugins :
      status[t] = "done" /\ outcome[t][p] = "traces" =>
        \A c \in Finds[t][p] :
          [parent |-> t, plugin |-> p, child |-> c, scan |-> scan] \in edges

\* README.md: "until the graph stops growing". When the loop ends, each trace that
\* was reported has been processed, every plugin that wants it has been settled
\* unless the scan expired, and what was found is reported.
GrownOut ==
  at = "finished" =>
    \A t \in seen :
      /\ status[t] \in {"done", "aborted"}
      /\ status[t] = "aborted" => ctxDone
      /\ status[t] = "done" => \A p \in Handles[t] :
           /\ outcome[t][p] \notin {"none", "queued"}
           /\ outcome[t][p] = "traces" => Finds[t][p] \subseteq seen

\* A trace is processed at most once in a scan, also when it is rediscovered
\* (TestEngine_ProcessInput_SeedNotReprocessedWhenRediscovered).
ProcessedOnce ==
  [][\A t \in Traces : status[t] \in {"done", "aborted"} /\ at' # "idle"
       => status'[t] = status[t]]_vars

\* A scan that is under way, seen as an exploration: a trace has been explored once
\* the batch its call belonged to is stored.
Exploring == INSTANCE Exploration WITH
  graph    <- edges,
  id       <- IF InLoop THEN scan ELSE 0,
  found    <- IF InLoop THEN seen ELSE {},
  explored <- IF InLoop THEN {t \in Traces : status[t] # "none"} \ batch ELSE {},
  ended    <- at = "finished"

\* Scans explore "until the graph stops growing" (README.md:9). What is reported and
\* what is stored grow together, a batch at a time, by all that was found in it;
\* nothing is explored twice; and a scan ends only when it has explored all it
\* reports, while a failed, expired or dead one leaves whole batches behind.
ImplementsExploration == Exploring!Spec

\* Every scan comes to an end without help from its deadline: cycles in what the
\* sources answer do not keep the loop running.
ScanEnds == (at # "idle") ~> (at \in {"over", "idle"})


=============================================================================
