-------------------------- MODULE ScanEngine_proofs --------------------------
(***************************************************************************)
(* Theorems about ScanEngine, for any traces, plugins, sources and batch   *)
(* sizes and any number of scans: the stored graph leads back to the seed  *)
(* of every scan wherever a process was cut off, and the loop processes    *)
(* each trace once and stores what it reports.                             *)
(***************************************************************************)
EXTENDS ScanEngine, FunctionTheorems, FiniteSetTheorems, SequenceTheorems, TLAPS

(***************************************************************************)
(* The inductive invariant.                                                *)
(***************************************************************************)

Waiting(t) == \E i \in DOMAIN stack : stack[i] = t

\* A call is open only while its batch runs; one that has returned is settled.
CallShape == \A t \in Traces :
  /\ status[t] = "open" => at = "batch" /\ t \in batch
  /\ status[t] = "done" => \A p \in Handles[t] : outcome[t][p] \notin {"none", "queued"}
  /\ status[t] = "aborted" => ctxDone
  /\ \A p \in Plugins \ Handles[t] : outcome[t][p] = "none"

\* A trace the loop has seen either waits, once, or has been handed to a call.
LoopShape ==
  /\ at \in {"idle", "root", "seed"} =>
       batch = {} /\ seen = {} /\ \A t \in Traces : status[t] = "none"
  /\ at \in {"loop", "finished"} => batch = {}
  /\ at = "finished" => stack = <<>>
  /\ \A t \in batch : status[t] # "none"
  /\ InLoop =>
       /\ \A t \in Traces : t \in seen <=> Waiting(t) \/ status[t] # "none"
       /\ \A t \in Traces : ~(Waiting(t) /\ status[t] # "none")
       /\ \A i, j \in DOMAIN stack : stack[i] = stack[j] => i = j

\* The current scan has a row and, until its seed is stored, no edges.
ScanShape ==
  /\ at # "idle" => scan # 0
  /\ InLoop \/ at \in {"root", "seed"} => root \in Traces
  /\ at \in {"root", "seed"} => EdgesOf(scan) = {}
  /\ at = "seed" => root \in nodes

Shapes == TypeOK /\ CallShape /\ LoopShape /\ ScanShape
IInv == Shapes /\ TraceBack /\ ReportedIsStored /\ EveryParentKept

(***************************************************************************)
(* Sequences: taking a batch off the stack, and appending what is new.     *)
(***************************************************************************)

LEMMA StackRest ==
  ASSUME NEW S, NEW s \in Seq(S), NEW n \in 0..Len(s), NEW r, r = SubSeq(s, n + 1, Len(s))
  PROVE  /\ r \in Seq(S)
         /\ \A i \in DOMAIN r : i + n \in DOMAIN s /\ r[i] = s[i + n] /\ i \in Nat \ {0}
         /\ \A i \in DOMAIN s : i \in 1..n \/ (i - n \in DOMAIN r /\ r[i - n] = s[i])
OBVIOUS

LEMMA StackAppend ==
  ASSUME NEW S, NEW s \in Seq(S), NEW n \in Nat, NEW q \in [1..n -> S]
  PROVE  /\ s \o q \in Seq(S)
         /\ \A i \in DOMAIN s : i \in DOMAIN (s \o q) /\ (s \o q)[i] = s[i]
         /\ \A i \in 1..n : Len(s) + i \in DOMAIN (s \o q) /\ (s \o q)[Len(s) + i] = q[i]
         /\ \A i \in DOMAIN (s \o q) :
              i \in DOMAIN s \/ (i - Len(s) \in 1..n /\ i = Len(s) + (i - Len(s)))
<1>1. q \in Seq(S) /\ Len(q) = n
  OBVIOUS
<1>2. Len(s) \in Nat /\ DOMAIN s = 1..Len(s)
  BY LenProperties
<1>3. /\ s \o q \in Seq(S)
      /\ Len(s \o q) = Len(s) + n
      /\ \A i \in 1 .. Len(s) + n : (s \o q)[i] = IF i <= Len(s) THEN s[i] ELSE q[i - Len(s)]
  BY <1>1, ConcatProperties
<1>4. DOMAIN (s \o q) = 1 .. Len(s) + n
  BY <1>3, LenProperties
<1>. QED
  BY <1>2, <1>3, <1>4

\* An order of a finite set lists all of it.
LEMMA OrderCovers ==
  ASSUME NEW S, IsFiniteSet(S), NEW q \in Orders(S)
  PROVE  /\ Cardinality(S) \in Nat
         /\ q \in [1..Cardinality(S) -> S]
         /\ \A x \in S : \E i \in 1..Cardinality(S) : q[i] = x
<1>1. Cardinality(S) \in Nat
  BY FS_CardinalityType
<1>2. q \in Injection(1..Cardinality(S), S)
  BY DEF Orders, Injection, IsInjective
<1>3. Cardinality(1..Cardinality(S)) = Cardinality(S)
  BY <1>1, FS_Interval
<1>4. q \in Surjection(1..Cardinality(S), S)
  BY <1>2, <1>3, FS_Injection
<1>. QED
  BY <1>1, <1>4 DEF Surjection, Orders

(***************************************************************************)
(* Types.                                                                  *)
(***************************************************************************)

LEMMA DiscoveryType ==
  ASSUME TypeOK
  PROVE  BatchDiscoveries \subseteq
           [parent : batch, plugin : Plugins, child : Traces, scan : {scan}]
BY TraceAssumption DEF TypeOK, BatchDiscoveries, Discoveries

LEMMA NewTracesType ==
  ASSUME TypeOK
  PROVE  /\ NewTraces \subseteq Traces
         /\ IsFiniteSet(NewTraces)
<1>1. NewTraces \subseteq Traces
  BY DiscoveryType DEF NewTraces
<1>. QED
  BY <1>1, TraceAssumption, FS_Subset

LEMMA BatchSizeType ==
  ASSUME TypeOK
  PROVE  BatchSize \in 0..Len(stack)
BY BoundAssumption DEF TypeOK, BatchSize

LEMMA KeyType == \A t \in Traces, p \in Plugins : Key(t, p) \in Keys
BY TraceAssumption DEF Key, Keys

LEMMA TypeInit == Init => TypeOK
<1> SUFFICES ASSUME Init PROVE TypeOK
  OBVIOUS
<1>1. /\ status \in [Traces -> {"none", "open", "done", "aborted"}]
      /\ outcome \in [Traces -> [Plugins ->
           {"none", "queued", "traces", "error", "dup", "refused"}]]
  BY DEF Init, NoCall, NoTask
<1>2. sessions = <<>> /\ stack = <<>>
  BY DEF Init
<1>. QED
  BY <1>1, <1>2, EmptySeq DEF Init, TypeOK

LEMMA SettleType ==
  ASSUME TypeOK, NEW t \in Traces, NEW p \in Plugins,
         NEW o \in {"none", "queued", "traces", "error", "dup", "refused"}, Settle(t, p, o)
  PROVE  outcome' \in [Traces -> [Plugins ->
           {"none", "queued", "traces", "error", "dup", "refused"}]]
BY DEF TypeOK, Settle

LEMMA MergeType ==
  ASSUME TypeOK, Merge
  PROVE  /\ stack' \in Seq(Traces)
         /\ seen' \subseteq Traces
         /\ batch' = {}
         /\ at' = "loop"
<1>1. PICK q \in Orders(NewTraces) : stack' = stack \o q
  BY DEF Merge
<1>2. /\ Cardinality(NewTraces) \in Nat
      /\ q \in [1..Cardinality(NewTraces) -> Traces]
  BY NewTracesType, OrderCovers
<1>3. stack' \in Seq(Traces)
  BY <1>1, <1>2, StackAppend DEF TypeOK
<1>. QED
  BY <1>3, NewTracesType DEF Merge, TypeOK

LEMMA TakeBatchFacts ==
  ASSUME TypeOK, TakeBatch
  PROVE  /\ batch' = {stack[i] : i \in 1..BatchSize}
         /\ batch' \subseteq Traces
         /\ 1..BatchSize \subseteq DOMAIN stack
         /\ stack' = SubSeq(stack, BatchSize + 1, Len(stack))
         /\ stack' \in Seq(Traces)
         /\ \A t \in Traces : status'[t] = IF t \in batch' THEN "open" ELSE status[t]
         /\ status' \in [Traces -> {"none", "open", "done", "aborted"}]
<1>1. BatchSize \in 0..Len(stack)
  BY BatchSizeType
<1>2. 1..BatchSize \subseteq DOMAIN stack
  BY <1>1 DEF TypeOK
<1>3. batch' = {stack[i] : i \in 1..BatchSize} /\ batch' \subseteq Traces
  BY <1>2 DEF TypeOK, TakeBatch
<1>4. stack' = SubSeq(stack, BatchSize + 1, Len(stack)) /\ stack' \in Seq(Traces)
  BY <1>1, StackRest DEF TypeOK, TakeBatch
<1>5. /\ status' = [t \in Traces |-> IF t \in batch' THEN "open" ELSE status[t]]
      /\ status \in [Traces -> {"none", "open", "done", "aborted"}]
  BY DEF TypeOK, TakeBatch
<1>. QED
  BY <1>2, <1>3, <1>4, <1>5

Rows == [root : Traces \cup {NoTrace}, status : {"running", "completed", "failed"}]

LEMMA RowUpdate ==
  ASSUME NEW row \in Rows, NEW v \in {"running", "completed", "failed"}
  PROVE  /\ [row EXCEPT !.status = v] \in Rows
         /\ [row EXCEPT !.status = v].root = row.root
BY DEF Rows

LEMMA CloseSessionFacts ==
  ASSUME TypeOK, ScanShape, CloseSession
  PROVE  /\ sessions' \in Seq(Rows)
         /\ scan' = scan
         /\ \A s \in 1..scan : sessions'[s].root = sessions[s].root
<1>1. sessions \in Seq(Rows) /\ DOMAIN sessions = 1..Len(sessions) /\ Len(sessions) \in Nat
  BY DEF TypeOK, Rows
<1>2. Len(sessions) \in DOMAIN sessions
  BY <1>1 DEF CloseSession, ScanShape, scan
<1>3. PICK v \in {"completed", "failed"} :
        sessions' \in {sessions,
          [sessions EXCEPT ![Len(sessions)] = [sessions[Len(sessions)] EXCEPT !.status = v]]}
  BY DEF CloseSession, scan
<1>4. sessions[Len(sessions)] \in Rows
  BY <1>1, <1>2
<1> DEFINE row == [sessions[Len(sessions)] EXCEPT !.status = v]
<1>5. row \in Rows /\ row.root = sessions[Len(sessions)].root
  BY <1>4, RowUpdate
<1>6. sessions' \in {sessions, [sessions EXCEPT ![Len(sessions)] = row]}
  BY <1>3
<1> HIDE DEF row
<1>7. /\ sessions' \in Seq(Rows)
      /\ Len(sessions') = Len(sessions)
      /\ \A s \in 1..Len(sessions) :
           sessions'[s] = sessions[s] \/ (s = Len(sessions) /\ sessions'[s] = row)
  <2>1. CASE sessions' = sessions
    BY <1>1, <2>1
  <2>2. CASE sessions' = [sessions EXCEPT ![Len(sessions)] = row]
    <3>1. /\ sessions' \in Seq(Rows)
          /\ Len(sessions') = Len(sessions)
          /\ \A s \in 1..Len(sessions) :
               sessions'[s] = IF s = Len(sessions) THEN row ELSE sessions[s]
      BY <1>1, <1>2, <1>5, <2>2, ExceptSeq
    <3>. QED
      BY <3>1
  <2>. QED
    BY <1>6, <2>1, <2>2
<1>8. \A s \in 1..Len(sessions) : sessions'[s].root = sessions[s].root
  <2> TAKE s \in 1..Len(sessions)
  <2>1. CASE sessions'[s] = sessions[s]
    BY <2>1
  <2>2. CASE s = Len(sessions) /\ sessions'[s] = row
    BY <1>5, <2>2
  <2>. QED
    BY <1>7, <2>1, <2>2
<1>. QED
  BY <1>7, <1>8 DEF scan

LEMMA EngineTyped ==
  ASSUME TypeOK, ScanShape, EngineStep
  PROVE  TypeOK'
<1>0. scan \in Nat
  BY DEF TypeOK, scan
<1>1. CASE StoreRoot
  <2>1. root \in Traces
    BY <1>1 DEF ScanShape, StoreRoot
  <2>. QED
    BY <1>1, <2>1 DEF TypeOK, StoreRoot, Fail
<1>2. CASE StoreSeedEdge
  <2>1. root \in Traces
    BY <1>2 DEF ScanShape, StoreSeedEdge
  <2>2. SeedEdge(root, scan) \in Edges
    BY <1>0, <2>1 DEF SeedEdge, Edges
  <2>3. <<root>> \in Seq(Traces)
    BY <2>1
  <2>4. edges \cup {SeedEdge(root, scan)} \subseteq Edges
    BY <2>2 DEF TypeOK
  <2>. HIDE DEF root, scan, SeedEdge
  <2>5. CASE Fail
    BY <1>2, <2>5 DEF TypeOK, StoreSeedEdge, Fail
  <2>6. CASE ~Fail
    BY <1>2, <2>1, <2>3, <2>4, <2>6 DEF TypeOK, StoreSeedEdge
  <2>. QED
    BY <2>5, <2>6
<1>3. CASE TakeBatch
  BY <1>3, TakeBatchFacts DEF TypeOK, TakeBatch, database
<1>4. CASE EndBatch
  <2>1. CASE PersistFails
    BY <1>4, <2>1 DEF TypeOK, EndBatch, PersistFails, Fail
  <2>2. CASE Persist
    <3>1. /\ EdgesToStore \subseteq Edges
          /\ \A e \in EdgesToStore : e.parent \in Traces /\ e.child \in Traces
      BY <1>0, DiscoveryType DEF EdgesToStore, Edges, TypeOK
    <3>2. nodes' \subseteq Traces /\ edges' \subseteq Edges
      BY <2>2, <3>1 DEF TypeOK, Persist
    <3>. QED
      BY <1>4, <2>2, <3>2, MergeType DEF TypeOK, EndBatch, Persist
  <2>. QED
    BY <1>4, <2>1, <2>2 DEF EndBatch
<1>5. CASE Finish
  BY <1>5 DEF TypeOK, Finish, database
<1>6. CASE CloseSession
  BY <1>6, CloseSessionFacts DEF TypeOK, CloseSession, Rows
<1>. QED
  BY <1>1, <1>2, <1>3, <1>4, <1>5, <1>6 DEF EngineStep

LEMMA CallTyped ==
  ASSUME TypeOK, NEW t \in Traces,
         CallStep(t) \/ \E p \in Plugins : TaskStep(t, p)
  PROVE  TypeOK'
<1> USE DEF TypeOK, database
<1>1. CASE CallStep(t)
  BY <1>1 DEF CallStep, ReturnCall, AbortCall
<1>2. ASSUME NEW p \in Plugins, TaskStep(t, p) PROVE TypeOK'
  <2>1. Key(t, p) \in Keys
    BY KeyType
  <2>2. CASE Duplicate(t, p)
    BY <2>1, <2>2, SettleType DEF Duplicate
  <2>3. CASE Accept(t, p)
    BY <2>1, <2>3, SettleType DEF Accept
  <2>4. CASE Refuse(t, p)
    BY <2>1, <2>4, SettleType DEF Refuse
  <2>5. CASE Execute(t, p)
    BY <2>1, <2>5, SettleType DEF Execute
  <2>. QED
    BY <1>2, <2>2, <2>3, <2>4, <2>5 DEF TaskStep
<1>. QED
  BY <1>1, <1>2

LEMMA ScanTyped ==
  ASSUME TypeOK,
         \/ \E r \in Traces \cup {NoTrace} : StartScan(r)
         \/ \E k \in Keys : WriteMarker(k)
         \/ Expire \/ ProcessEnds
  PROVE  TypeOK'
<1> USE DEF TypeOK, database
<1>1. ASSUME NEW r \in Traces \cup {NoTrace}, StartScan(r) PROVE TypeOK'
  BY <1>1 DEF StartScan
<1>2. ASSUME NEW k \in Keys, WriteMarker(k) PROVE TypeOK'
  BY <1>2 DEF WriteMarker
<1>3. CASE Expire
  BY <1>3 DEF Expire
<1>4. CASE ProcessEnds
  BY <1>4, EmptySeq DEF ProcessEnds, NoCall, NoTask
<1>. QED
  BY <1>1, <1>2, <1>3, <1>4

LEMMA TypeNext == TypeOK /\ ScanShape /\ [Next]_vars => TypeOK'
<1>1. TypeOK /\ (NoScanLeft \/ UNCHANGED vars) => TypeOK'
  BY DEF NoScanLeft, vars, TypeOK
<1>. QED
  BY <1>1, EngineTyped, CallTyped, ScanTyped DEF Next

(***************************************************************************)
(* Calls.                                                                  *)
(***************************************************************************)

\* A step of a task changes one outcome, of a plugin that wants the trace, and
\* never one of a call that has returned.
LEMMA TaskFacts ==
  ASSUME TypeOK, CallShape, NEW t \in Traces, NEW p \in Plugins, TaskStep(t, p)
  PROVE  /\ p \in Handles[t]
         /\ status[t] # "done"
         /\ \A u \in Traces, q \in Plugins :
              u # t \/ q # p => outcome'[u][q] = outcome[u][q]
         /\ UNCHANGED <<database, at, stack, seen, batch, status, ctxDone>>
<1>0. /\ outcome \in [Traces -> [Plugins ->
           {"none", "queued", "traces", "error", "dup", "refused"}]]
      /\ Handles[t] \subseteq Plugins
  BY TraceAssumption DEF TypeOK
<1>1. CASE \/ Duplicate(t, p) \/ Accept(t, p) \/ Refuse(t, p)
  BY <1>0, <1>1 DEF Duplicate, Accept, Refuse, Submitting, Settle
<1>2. CASE Execute(t, p)
  BY <1>0, <1>2 DEF Execute, Settle, CallShape
<1>. QED
  BY <1>1, <1>2 DEF TaskStep

LEMMA CallShapeInit == Init => CallShape
BY TraceAssumption DEF Init, CallShape, NoCall, NoTask

LEMMA CallShapeNext ==
  ASSUME TypeOK, CallShape, LoopShape, [Next]_vars
  PROVE  CallShape'
<1> USE DEF TypeOK, CallShape
<1>1. ASSUME NEW t \in Traces, NEW p \in Plugins, TaskStep(t, p) PROVE CallShape'
  <2> SUFFICES ASSUME NEW u \in Traces
               PROVE  /\ status'[u] = "open" => at' = "batch" /\ u \in batch'
                      /\ status'[u] = "done" =>
                           \A q \in Handles[u] : outcome'[u][q] \notin {"none", "queued"}
                      /\ status'[u] = "aborted" => ctxDone'
                      /\ \A q \in Plugins \ Handles[u] : outcome'[u][q] = "none"
    OBVIOUS
  <2>0. Handles[u] \subseteq Plugins
    BY TraceAssumption
  <2>. QED
    BY <1>1, <2>0, TaskFacts
<1>2. ASSUME NEW t \in Traces, CallStep(t) PROVE CallShape'
  BY <1>2 DEF CallStep, ReturnCall, AbortCall, Settled, database
<1>3. CASE TakeBatch
  BY <1>3, TakeBatchFacts DEF TakeBatch
<1>4. CASE EndBatch
  BY <1>4 DEF EndBatch
<1>5. CASE StoreRoot \/ StoreSeedEdge \/ Finish \/ CloseSession
  BY <1>5 DEF StoreRoot, StoreSeedEdge, Finish, CloseSession, Fail, LoopShape
<1>6. ASSUME NEW r \in Traces \cup {NoTrace}, StartScan(r) PROVE CallShape'
  BY <1>6 DEF StartScan, LoopShape
<1>7. CASE ProcessEnds
  BY <1>7, TraceAssumption DEF ProcessEnds, NoCall, NoTask
<1>8. CASE Expire
  BY <1>8 DEF Expire
<1>9. ASSUME NEW k \in Keys, WriteMarker(k) PROVE CallShape'
  BY <1>9 DEF WriteMarker
<1>10. CASE NoScanLeft \/ UNCHANGED vars
  BY <1>10 DEF NoScanLeft, vars
<1>. QED
  BY <1>1, <1>2, <1>3, <1>4, <1>5, <1>6, <1>7, <1>8, <1>9, <1>10 DEF Next, EngineStep

(***************************************************************************)
(* The loop.                                                               *)
(***************************************************************************)

LEMMA LoopShapeInit == Init => LoopShape
BY DEF Init, LoopShape, InLoop, NoCall

\* A batch takes distinct traces off the stack, and the rest still waits.
LEMMA TakeBatchWaiting ==
  ASSUME TypeOK, TakeBatch,
         \A i, j \in DOMAIN stack : stack[i] = stack[j] => i = j
  PROVE  /\ \A t \in Traces : Waiting(t) <=> t \in batch' \/ Waiting(t)'
         /\ \A t \in Traces : ~(t \in batch' /\ Waiting(t)')
         /\ \A i, j \in DOMAIN stack' : stack'[i] = stack'[j] => i = j
<1> DEFINE n == BatchSize
<1>1. n \in 0..Len(stack) /\ stack \in Seq(Traces)
  BY BatchSizeType DEF TypeOK
<1>2. /\ batch' = {stack[i] : i \in 1..n}
      /\ 1..n \subseteq DOMAIN stack
      /\ stack' = SubSeq(stack, n + 1, Len(stack))
  BY TakeBatchFacts
<1> HIDE DEF n
<1>3. /\ \A i \in DOMAIN stack' :
           i + n \in DOMAIN stack /\ stack'[i] = stack[i + n] /\ i \in Nat \ {0}
      /\ \A i \in DOMAIN stack :
           i \in 1..n \/ (i - n \in DOMAIN stack' /\ stack'[i - n] = stack[i])
  BY <1>1, <1>2, StackRest
<1>4. n \in Nat
  BY <1>1
<1>5. \A i, j \in DOMAIN stack' : stack'[i] = stack'[j] => i = j
  <2> TAKE i, j \in DOMAIN stack'
  <2>1. stack'[i] = stack'[j] => i + n = j + n
    BY <1>3
  <2>. QED
    BY <1>3, <1>4, <2>1
<1>6. \A t \in Traces : ~(t \in batch' /\ Waiting(t)')
  <2> SUFFICES ASSUME NEW i \in 1..n, NEW j \in DOMAIN stack', stack[i] = stack'[j]
               PROVE  FALSE
    BY <1>2 DEF Waiting
  <2>1. i = j + n
    BY <1>2, <1>3
  <2>2. j \in Nat \ {0}
    BY <1>3
  <2>. QED
    BY <1>4, <2>1, <2>2
<1>7. \A t \in Traces : Waiting(t) <=> t \in batch' \/ Waiting(t)'
  <2> TAKE t \in Traces
  <2>1. ASSUME NEW i \in DOMAIN stack, stack[i] = t
        PROVE  t \in batch' \/ Waiting(t)'
    <3>1. CASE i \in 1..n
      BY <1>2, <2>1, <3>1
    <3>2. CASE i - n \in DOMAIN stack' /\ stack'[i - n] = stack[i]
      BY <2>1, <3>2 DEF Waiting
    <3>. QED
      BY <1>3, <3>1, <3>2
  <2>2. t \in batch' => Waiting(t)
    BY <1>2 DEF Waiting
  <2>3. Waiting(t)' => Waiting(t)
    BY <1>3 DEF Waiting
  <2>. QED
    BY <2>1, <2>2, <2>3 DEF Waiting
<1>. QED
  BY <1>5, <1>6, <1>7

\* The merge puts every new trace on the stack, once.
LEMMA MergeWaiting ==
  ASSUME TypeOK, Merge,
         \A t \in NewTraces : ~Waiting(t),
         \A i, j \in DOMAIN stack : stack[i] = stack[j] => i = j
  PROVE  /\ \A t \in Traces : Waiting(t)' <=> Waiting(t) \/ t \in NewTraces
         /\ \A i, j \in DOMAIN stack' : stack'[i] = stack'[j] => i = j
<1> DEFINE n == Cardinality(NewTraces)
<1>1. PICK q \in Orders(NewTraces) : stack' = stack \o q
  BY DEF Merge
<1>2. /\ n \in Nat
      /\ q \in [1..n -> NewTraces]
      /\ \A t \in NewTraces : \E i \in 1..n : q[i] = t
      /\ \A i, j \in 1..n : q[i] = q[j] => i = j
  BY NewTracesType, OrderCovers DEF Orders
<1> HIDE DEF n
<1>3. stack \in Seq(Traces) /\ q \in [1..n -> Traces] /\ Len(stack) \in Nat
  BY <1>2, NewTracesType DEF TypeOK
<1>4. /\ \A i \in DOMAIN stack : i \in DOMAIN stack' /\ stack'[i] = stack[i]
      /\ \A i \in 1..n : Len(stack) + i \in DOMAIN stack' /\ stack'[Len(stack) + i] = q[i]
      /\ \A i \in DOMAIN stack' :
           i \in DOMAIN stack \/ (i - Len(stack) \in 1..n
                                  /\ i = Len(stack) + (i - Len(stack)))
  BY <1>1, <1>2, <1>3, StackAppend
\* The place of an entry: below the old top, or in the order of the new traces.
<1>5. \A i \in DOMAIN stack' :
        \/ i \in DOMAIN stack /\ stack'[i] = stack[i] /\ stack'[i] \notin NewTraces
        \/ \E k \in 1..n : i = Len(stack) + k /\ stack'[i] = q[k] /\ stack'[i] \in NewTraces
  <2> TAKE i \in DOMAIN stack'
  <2>1. CASE i \in DOMAIN stack
    <3>1. stack'[i] = stack[i] /\ Waiting(stack[i])
      BY <1>4, <2>1 DEF Waiting
    <3>. QED
      BY <2>1, <3>1
  <2>2. CASE i \notin DOMAIN stack
    <3>1. PICK k \in 1..n : i = Len(stack) + k
      BY <1>4, <2>2
    <3>2. stack'[i] = q[k] /\ q[k] \in NewTraces
      BY <1>2, <1>4, <3>1
    <3>. QED
      BY <3>1, <3>2
  <2>. QED
    BY <2>1, <2>2
<1>6. \A t \in Traces : Waiting(t)' <=> Waiting(t) \/ t \in NewTraces
  <2> TAKE t \in Traces
  <2>1. Waiting(t)' => Waiting(t) \/ t \in NewTraces
    BY <1>5 DEF Waiting
  <2>2. Waiting(t) => Waiting(t)'
    BY <1>4 DEF Waiting
  <2>3. t \in NewTraces => Waiting(t)'
    BY <1>2, <1>4 DEF Waiting
  <2>. QED
    BY <2>1, <2>2, <2>3
<1>7. \A i, j \in DOMAIN stack' : stack'[i] = stack'[j] => i = j
  <2> SUFFICES ASSUME NEW i \in DOMAIN stack', NEW j \in DOMAIN stack',
                      stack'[i] = stack'[j]
               PROVE  i = j
    OBVIOUS
  <2>1. CASE stack'[i] \in NewTraces
    BY <1>2, <1>5, <2>1
  <2>2. CASE stack'[i] \notin NewTraces
    BY <1>5, <2>2
  <2>. QED
    BY <2>1, <2>2
<1>. QED
  BY <1>6, <1>7

LEMMA LoopShapeNext ==
  ASSUME TypeOK, CallShape, LoopShape, [Next]_vars
  PROVE  LoopShape'
<1>1. ASSUME NEW t \in Traces, NEW p \in Plugins, TaskStep(t, p) PROVE LoopShape'
  BY <1>1, TaskFacts DEF LoopShape, InLoop, Waiting
<1>2. ASSUME NEW t \in Traces, CallStep(t) PROVE LoopShape'
  <2>1. /\ status[t] = "open"
        /\ status'[t] # "none"
        /\ \A u \in Traces : u # t => status'[u] = status[u]
        /\ UNCHANGED <<at, stack, seen, batch>>
    BY <1>2 DEF CallStep, ReturnCall, AbortCall, TypeOK
  <2>2. at = "batch" /\ t \in batch /\ batch \subseteq Traces
    BY <2>1 DEF CallShape, TypeOK
  <2>3. \A u \in Traces : status'[u] = "none" <=> status[u] = "none"
    BY <2>1
  <2>. QED
    BY <2>1, <2>2, <2>3 DEF LoopShape, InLoop, Waiting
<1>3. CASE TakeBatch
  <2>1. at = "loop" /\ at' = "batch" /\ UNCHANGED seen
    BY <1>3 DEF TakeBatch
  <2>2. \A i, j \in DOMAIN stack : stack[i] = stack[j] => i = j
    BY <2>1 DEF LoopShape, InLoop
  <2>3. \A t \in Traces : status'[t] # "none" <=> status[t] # "none" \/ t \in batch'
    BY <1>3, TakeBatchFacts
  <2>4. /\ \A t \in Traces : Waiting(t) <=> t \in batch' \/ Waiting(t)'
        /\ \A t \in Traces : ~(t \in batch' /\ Waiting(t)')
        /\ \A i, j \in DOMAIN stack' : stack'[i] = stack'[j] => i = j
    BY <1>3, <2>2, TakeBatchWaiting
  <2>5. batch' \subseteq Traces
    BY <1>3, TakeBatchFacts
  <2>6. \A t \in Traces : t \in seen <=> Waiting(t) \/ status[t] # "none"
    BY <2>1 DEF LoopShape, InLoop
  <2>7. \A t \in Traces : ~(Waiting(t) /\ status[t] # "none")
    BY <2>1 DEF LoopShape, InLoop
  <2>8. \A t \in Traces : t \in seen' <=> Waiting(t)' \/ status'[t] # "none"
    BY <2>1, <2>3, <2>4, <2>6
  <2>9. \A t \in Traces : ~(Waiting(t)' /\ status'[t] # "none")
    BY <2>3, <2>4, <2>7
  <2>. QED
    BY <2>1, <2>3, <2>4, <2>5, <2>8, <2>9 DEF LoopShape
<1>4. CASE EndBatch
  <2>1. CASE PersistFails
    BY <1>4, <2>1 DEF EndBatch, PersistFails, Fail, LoopShape, InLoop
  <2>2. CASE Persist
    <3>1. at = "batch" /\ UNCHANGED status /\ Merge
      BY <1>4, <2>2 DEF EndBatch, Persist
    <3>2. at' = "loop" /\ batch' = {} /\ seen' = seen \cup NewTraces
      BY <3>1 DEF Merge
    <3>3. /\ \A t \in Traces : t \in seen <=> Waiting(t) \/ status[t] # "none"
          /\ \A t \in Traces : ~(Waiting(t) /\ status[t] # "none")
          /\ \A i, j \in DOMAIN stack : stack[i] = stack[j] => i = j
      BY <3>1 DEF LoopShape, InLoop
    <3>4. NewTraces \subseteq Traces \ seen
      BY NewTracesType DEF NewTraces
    <3>5. \A t \in NewTraces : ~Waiting(t) /\ status[t] = "none"
      BY <3>3, <3>4
    <3>6. /\ \A t \in Traces : Waiting(t)' <=> Waiting(t) \/ t \in NewTraces
          /\ \A i, j \in DOMAIN stack' : stack'[i] = stack'[j] => i = j
      BY <3>1, <3>3, <3>5, MergeWaiting
    <3>7. \A t \in Traces : t \in seen' <=> Waiting(t)' \/ status'[t] # "none"
      BY <3>1, <3>2, <3>3, <3>6
    <3>8. \A t \in Traces : ~(Waiting(t)' /\ status'[t] # "none")
      BY <3>1, <3>3, <3>5, <3>6
    <3>. QED
      BY <3>2, <3>6, <3>7, <3>8 DEF LoopShape
  <2>. QED
    BY <1>4, <2>1, <2>2 DEF EndBatch
<1>5. CASE StoreSeedEdge
  <2>1. CASE Fail
    BY <1>5, <2>1 DEF StoreSeedEdge, Fail, LoopShape, InLoop
  <2>2. CASE at' = "loop" /\ stack' = <<root>> /\ seen' = {root}
    <3>1. \A t \in Traces : Waiting(t)' <=> t = root
      BY <2>2 DEF Waiting
    <3>2. \A i, j \in DOMAIN stack' : stack'[i] = stack'[j] => i = j
      BY <2>2
    <3>3. /\ \A t \in Traces : status'[t] = "none"
          /\ batch' = {}
      BY <1>5, <2>2 DEF StoreSeedEdge, Fail, LoopShape
    <3>. QED
      BY <2>2, <3>1, <3>2, <3>3 DEF LoopShape
  <2>. QED
    BY <1>5, <2>1, <2>2 DEF StoreSeedEdge
<1>6. CASE StoreRoot \/ Finish \/ CloseSession
  BY <1>6 DEF StoreRoot, Finish, CloseSession, Fail, LoopShape, InLoop, Waiting
<1>7. ASSUME NEW r \in Traces \cup {NoTrace}, StartScan(r) PROVE LoopShape'
  BY <1>7 DEF StartScan, LoopShape, InLoop
<1>8. CASE ProcessEnds
  BY <1>8 DEF ProcessEnds, NoCall, LoopShape, InLoop
<1>9. CASE Expire \/ \E k \in Keys : WriteMarker(k)
  BY <1>9 DEF Expire, WriteMarker, LoopShape, InLoop, Waiting
<1>10. CASE NoScanLeft \/ UNCHANGED vars
  BY <1>10 DEF NoScanLeft, vars, LoopShape, InLoop, Waiting
<1>. QED
  BY <1>1, <1>2, <1>3, <1>4, <1>5, <1>6, <1>7, <1>8, <1>9, <1>10 DEF Next, EngineStep

(***************************************************************************)
(* The graph.                                                              *)
(***************************************************************************)

\* Connected grows with the edges, and along them.
LEMMA ConnectedGrows ==
  ASSUME NEW s, edges \subseteq edges', sessions'[s].root = sessions[s].root
  PROVE  Connected(s) \subseteq Connected(s)'
<1> SUFFICES ASSUME NEW t \in Connected(s), NEW X \in SUBSET Traces,
                    sessions'[s].root \in X,
                    \A e \in EdgesOf(s)' : e.parent \in X => e.child \in X
             PROVE  t \in X
  BY DEF Connected
<1>1. EdgesOf(s) \subseteq EdgesOf(s)'
  BY DEF EdgesOf
<1>2. sessions[s].root \in X /\ \A e \in EdgesOf(s) : e.parent \in X => e.child \in X
  BY <1>1
<1>. QED
  BY <1>2 DEF Connected

LEMMA RootConnected ==
  ASSUME NEW s, sessions[s].root \in Traces
  PROVE  sessions[s].root \in Connected(s)
BY DEF Connected

LEMMA EdgeConnects ==
  ASSUME NEW s, NEW e \in EdgesOf(s), e.parent \in Connected(s), e.child \in Traces
  PROVE  e.child \in Connected(s)
BY DEF Connected

\* Whatever the current scan has an edge to is connected to its seed.
LEMMA ChildrenConnected ==
  ASSUME TypeOK, ScanShape, TraceBack, InLoop, NEW e \in EdgesOf(scan)
  PROVE  e.child \in Connected(scan) \cap nodes
<1>1. e \in edges /\ e.scan = scan /\ e \in Edges
  BY DEF EdgesOf, TypeOK
<1>2. e.child \in nodes /\ e.child \in Traces
  BY <1>1 DEF TraceBack, Edges
<1>3. CASE e.parent = NoTrace
  <2>1. e.child = sessions[scan].root
    BY <1>1, <1>3 DEF TraceBack, SeedEdge
  <2>2. sessions[scan].root \in Traces
    BY DEF ScanShape, root
  <2>. QED
    BY <1>2, <2>1, <2>2, RootConnected
<1>4. CASE e.parent # NoTrace
  BY <1>1, <1>2, <1>4, EdgeConnects DEF TraceBack
<1>. QED
  BY <1>3, <1>4

LEMMA GraphInit == Init => ScanShape /\ TraceBack /\ ReportedIsStored /\ EveryParentKept
BY DEF Init, ScanShape, TraceBack, ReportedIsStored, EveryParentKept, InLoop

\* A step that only adds nodes, and edges of the current scan that hang on its
\* graph, keeps every edge of every scan connected to its seed.
LEMMA TraceBackGrows ==
  ASSUME TypeOK, TraceBack, nodes \subseteq nodes', edges \subseteq edges',
         scan <= scan', scan' \in Nat,
         \A s \in 1..scan : sessions'[s].root = sessions[s].root,
         \A e \in edges' \ edges :
           /\ e.scan \in 1..scan'
           /\ e.child \in nodes'
           /\ IF e.parent = NoTrace
              THEN e = SeedEdge(sessions'[e.scan].root, e.scan)
              ELSE e.parent \in Connected(e.scan)' \cap nodes'
  PROVE  TraceBack'
<1> SUFFICES ASSUME NEW e \in edges
             PROVE  /\ e.scan \in 1..scan'
                    /\ e.child \in nodes'
                    /\ IF e.parent = NoTrace
                       THEN e = SeedEdge(sessions'[e.scan].root, e.scan)
                       ELSE e.parent \in Connected(e.scan)' \cap nodes'
  BY DEF TraceBack
<1>1. scan \in Nat
  BY DEF TypeOK, scan
<1>2. /\ e.scan \in 1..scan
      /\ e.child \in nodes
      /\ IF e.parent = NoTrace
         THEN e = SeedEdge(sessions[e.scan].root, e.scan)
         ELSE e.parent \in Connected(e.scan) \cap nodes
  BY DEF TraceBack
<1>3. sessions'[e.scan].root = sessions[e.scan].root
  BY <1>2
<1>4. Connected(e.scan) \subseteq Connected(e.scan)'
  BY <1>3, ConnectedGrows
<1>5. e.scan \in 1..scan'
  BY <1>1, <1>2
<1>. QED
  BY <1>2, <1>3, <1>4, <1>5

\* What the other steps leave of the graph and its scan.
LEMMA GraphFrame ==
  ASSUME TypeOK, CallShape, [Next]_vars,
         ~StoreRoot, ~StoreSeedEdge, ~EndBatch, ~CloseSession,
         \A r \in Traces \cup {NoTrace} : ~StartScan(r)
  PROVE  /\ UNCHANGED <<sessions, nodes, edges>>
         /\ at' # "idle" => at # "idle"
         /\ at' \in {"root", "seed"} => at' = at
         /\ InLoop' => InLoop /\ UNCHANGED seen
<1>1. ASSUME NEW t \in Traces, NEW p \in Plugins, TaskStep(t, p)
      PROVE  UNCHANGED <<sessions, nodes, edges, at, seen>>
  BY <1>1, TaskFacts DEF database
<1>2. ASSUME NEW t \in Traces, CallStep(t)
      PROVE  UNCHANGED <<sessions, nodes, edges, at, seen>>
  BY <1>2 DEF CallStep, ReturnCall, AbortCall, database
<1>3. CASE TakeBatch \/ Finish \/ ProcessEnds
  BY <1>3 DEF TakeBatch, Finish, ProcessEnds, database, InLoop
<1>4. CASE Expire \/ NoScanLeft \/ UNCHANGED vars \/ \E k \in Keys : WriteMarker(k)
  BY <1>4 DEF Expire, NoScanLeft, WriteMarker, database, vars, InLoop
<1>. QED
  BY <1>1, <1>2, <1>3, <1>4 DEF Next, EngineStep, InLoop

LEMMA StartScanFacts ==
  ASSUME TypeOK, NEW r \in Traces \cup {NoTrace}, StartScan(r)
  PROVE  /\ scan' = scan + 1
         /\ sessions'[scan'].root = r
         /\ \A s \in 1..scan : sessions'[s].root = sessions[s].root
         /\ at' \in {"root", "failed"}
         /\ at' = "root" => r # NoTrace
         /\ UNCHANGED <<nodes, edges>>
<1> DEFINE row == [root |-> r, status |-> "running"]
<1>1. sessions \in Seq(Rows) /\ row \in Rows /\ row.root = r
  BY DEF TypeOK, Rows
<1>2. sessions' = Append(sessions, row)
  BY DEF StartScan
<1> HIDE DEF row
<1>3. /\ Len(sessions') = Len(sessions) + 1
      /\ sessions'[Len(sessions) + 1] = row
      /\ \A s \in 1..Len(sessions) : sessions'[s] = sessions[s]
  BY <1>1, <1>2
<1>. QED
  BY <1>1, <1>3 DEF StartScan, scan

\* What a stored batch adds to the graph.
LEMMA PersistFacts ==
  ASSUME TypeOK, Persist
  PROVE  /\ edges' = edges \cup BatchDiscoveries
         /\ nodes' = nodes \cup UNION {{e.parent, e.child} : e \in BatchDiscoveries}
         /\ seen' = seen \cup NewTraces
         /\ at' = "loop"
         /\ batch' = {}
BY DEF Persist, Merge, EdgesToStore

LEMMA ScanShapeNext ==
  ASSUME TypeOK, CallShape, ScanShape, TraceBack, [Next]_vars
  PROVE  ScanShape'
<1>0. scan \in Nat
  BY DEF TypeOK, scan
<1>1. ASSUME NEW r \in Traces \cup {NoTrace}, StartScan(r) PROVE ScanShape'
  <2>1. EdgesOf(scan)' = {}
    BY <1>0, <1>1, StartScanFacts DEF EdgesOf, TraceBack
  <2>2. scan' # 0 /\ at' \in {"root", "failed"} /\ (at' = "root" => root' \in Traces)
    BY <1>0, <1>1, StartScanFacts DEF root
  <2>. QED
    BY <2>1, <2>2 DEF ScanShape, InLoop
<1>2. CASE StoreRoot
  BY <1>2 DEF StoreRoot, Fail, ScanShape, InLoop, root, scan, EdgesOf
<1>3. CASE StoreSeedEdge
  BY <1>3 DEF StoreSeedEdge, Fail, ScanShape, InLoop, root, scan
<1>4. CASE EndBatch
  BY <1>4, PersistFacts DEF EndBatch, PersistFails, Fail, ScanShape, InLoop, root, scan
<1>5. CASE CloseSession
  BY <1>5, CloseSessionFacts DEF CloseSession, ScanShape, InLoop
<1>6. CASE UNCHANGED <<sessions, nodes, edges>> /\ (at' # "idle" => at # "idle")
           /\ (at' \in {"root", "seed"} => at' = at) /\ (InLoop' => InLoop)
  BY <1>6 DEF ScanShape, root, scan, EdgesOf
<1>. QED
  BY <1>1, <1>2, <1>3, <1>4, <1>5, <1>6, GraphFrame

LEMMA TraceBackNext ==
  ASSUME TypeOK, CallShape, LoopShape, ScanShape, TraceBack, ReportedIsStored, [Next]_vars
  PROVE  TraceBack'
<1>0. scan \in Nat
  BY DEF TypeOK, scan
<1>1. ASSUME NEW r \in Traces \cup {NoTrace}, StartScan(r) PROVE TraceBack'
  BY <1>0, <1>1, StartScanFacts, TraceBackGrows
<1>2. CASE StoreRoot
  <2>1. /\ nodes \subseteq nodes' /\ edges' = edges
        /\ sessions' = sessions /\ scan' = scan
    BY <1>2 DEF StoreRoot, Fail, scan
  <2>. QED
    BY <1>0, <2>1, TraceBackGrows
<1>3. CASE StoreSeedEdge
  <2>1. CASE edges' = edges /\ nodes' = nodes
    BY <1>0, <1>3, <2>1, TraceBackGrows DEF StoreSeedEdge, scan
  <2>2. CASE edges' = edges \cup {SeedEdge(root, scan)} /\ nodes' = nodes
    <3>1. at = "seed" /\ sessions' = sessions /\ scan' = scan
      BY <1>3 DEF StoreSeedEdge, scan
    <3>2. root \in nodes /\ scan \in 1..scan
      BY <1>0, <3>1 DEF ScanShape
    <3>3. \A e \in edges' \ edges :
            /\ e = SeedEdge(sessions'[e.scan].root, e.scan)
            /\ e.parent = NoTrace
            /\ e.child = root
            /\ e.scan = scan
      BY <2>2, <3>1 DEF SeedEdge, root
    <3>. QED
      BY <1>0, <2>2, <3>1, <3>2, <3>3, TraceBackGrows
  <2>. QED
    BY <1>3, <2>1, <2>2 DEF StoreSeedEdge, Fail
<1>4. CASE EndBatch
  <2>1. CASE PersistFails
    BY <1>0, <1>4, <2>1, TraceBackGrows DEF EndBatch, PersistFails, Fail, scan
  <2>2. CASE Persist
    <3>1. at = "batch" /\ sessions' = sessions /\ scan' = scan
      BY <1>4 DEF EndBatch, scan
    <3>2. scan \in 1..scan /\ InLoop
      BY <1>0, <3>1 DEF ScanShape, InLoop
    <3>3. /\ edges' = edges \cup BatchDiscoveries
          /\ nodes' = nodes \cup UNION {{e.parent, e.child} : e \in BatchDiscoveries}
      BY <2>2, PersistFacts
    <3>4. \A t \in batch : t \in Traces /\ t \in Connected(scan) \cap nodes
      <4> TAKE t \in batch
      <4>1. t \in Traces /\ t \in seen
        BY <3>2 DEF LoopShape, TypeOK
      <4>2. \E e \in EdgesOf(scan) : t = e.child
        BY <3>2, <4>1 DEF ReportedIsStored, InLoop
      <4>. QED
        BY <3>2, <4>1, <4>2, ChildrenConnected
    <3>5. Connected(scan) \subseteq Connected(scan)'
      BY <3>1, <3>3, ConnectedGrows
    <3>6. ASSUME NEW e \in BatchDiscoveries
          PROVE  /\ e.scan = scan
                 /\ e.child \in nodes'
                 /\ e.parent # NoTrace
                 /\ e.parent \in Connected(scan)' \cap nodes'
      <4>1. e.scan = scan /\ e.parent \in batch
        BY DiscoveryType
      <4>2. e.child \in nodes'
        BY <3>3
      <4>3. e.parent \in Traces /\ e.parent \in Connected(scan) \cap nodes
        BY <3>4, <4>1
      <4>. QED
        BY <3>3, <3>5, <4>1, <4>2, <4>3, TraceAssumption
    <3>7. \A e \in edges' \ edges :
            /\ e.scan \in 1..scan'
            /\ e.child \in nodes'
            /\ e.parent # NoTrace
            /\ e.parent \in Connected(e.scan)' \cap nodes'
      BY <3>1, <3>2, <3>3, <3>6
    <3>. QED
      BY <1>0, <3>1, <3>3, <3>7, TraceBackGrows
  <2>. QED
    BY <1>4, <2>1, <2>2 DEF EndBatch
<1>5. CASE CloseSession
  <2>1. /\ nodes' = nodes /\ edges' = edges /\ scan' = scan
        /\ \A s \in 1..scan : sessions'[s].root = sessions[s].root
    BY <1>5, CloseSessionFacts DEF CloseSession
  <2>. QED
    BY <1>0, <2>1, TraceBackGrows
<1>6. CASE UNCHANGED <<sessions, nodes, edges>>
  BY <1>0, <1>6, TraceBackGrows DEF scan
<1>. QED
  BY <1>1, <1>2, <1>3, <1>4, <1>5, <1>6, GraphFrame

LEMMA ReportedNext ==
  ASSUME TypeOK, CallShape, ScanShape, TraceBack, ReportedIsStored, [Next]_vars
  PROVE  ReportedIsStored'
<1>1. ASSUME NEW r \in Traces \cup {NoTrace}, StartScan(r) PROVE ReportedIsStored'
  BY <1>1, StartScanFacts DEF ReportedIsStored, InLoop
<1>2. CASE StoreRoot \/ CloseSession
  BY <1>2 DEF StoreRoot, CloseSession, Fail, ReportedIsStored, InLoop
<1>3. CASE StoreSeedEdge
  <2>1. CASE Fail
    BY <2>1 DEF Fail, ReportedIsStored, InLoop
  <2>2. CASE seen' = {root} /\ edges' = edges \cup {SeedEdge(root, scan)}
    <3>1. scan' = scan /\ EdgesOf(scan) = {}
      BY <1>3 DEF StoreSeedEdge, ScanShape, scan
    <3>2. SeedEdge(root, scan).scan = scan /\ SeedEdge(root, scan).child = root
      BY DEF SeedEdge
    <3>3. EdgesOf(scan)' = {SeedEdge(root, scan)}
      BY <2>2, <3>1, <3>2 DEF EdgesOf
    <3>. QED
      BY <2>2, <3>2, <3>3 DEF ReportedIsStored
  <2>. QED
    BY <1>3, <2>1, <2>2 DEF StoreSeedEdge
<1>4. CASE EndBatch
  <2>1. CASE PersistFails
    BY <2>1 DEF PersistFails, Fail, ReportedIsStored, InLoop
  <2>2. CASE Persist
    <3>1. seen = {e.child : e \in EdgesOf(scan)} /\ scan' = scan
      BY <1>4 DEF EndBatch, ReportedIsStored, InLoop, scan
    <3>2. edges' = edges \cup BatchDiscoveries /\ seen' = seen \cup NewTraces
      BY <2>2, PersistFacts
    <3>3. \A e \in BatchDiscoveries : e.scan = scan
      BY DiscoveryType
    <3>4. EdgesOf(scan)' = EdgesOf(scan) \cup BatchDiscoveries
      BY <3>1, <3>2, <3>3 DEF EdgesOf
    <3>5. seen' = seen \cup {e.child : e \in BatchDiscoveries}
      BY <3>2 DEF NewTraces
    <3>. QED
      BY <3>1, <3>4, <3>5 DEF ReportedIsStored
  <2>. QED
    BY <1>4, <2>1, <2>2 DEF EndBatch
<1>5. CASE UNCHANGED <<sessions, edges>> /\ (InLoop' => InLoop /\ UNCHANGED seen)
  BY <1>5 DEF ReportedIsStored, InLoop, EdgesOf, scan
<1>. QED
  BY <1>1, <1>2, <1>3, <1>4, <1>5, GraphFrame

\* The edges a call that has returned stands for.
Found(t) ==
  status[t] = "done" => \A p \in Plugins : outcome[t][p] = "traces" =>
    \A c \in Finds[t][p] :
      [parent |-> t, plugin |-> p, child |-> c, scan |-> scan] \in edges

LEMMA ParentsAreFound ==
  InLoop => (EveryParentKept <=> \A t \in seen \ batch : Found(t))
BY DEF InLoop, EveryParentKept, Found

\* No step takes anything away from what a returned call has found.
LEMMA FoundStays ==
  ASSUME TypeOK, CallShape, edges \subseteq edges', scan' = scan, NEW t \in Traces, Found(t),
         status'[t] = status[t],
         status[t] = "done" => \A p \in Plugins : outcome'[t][p] = outcome[t][p]
  PROVE  Found(t)'
BY DEF Found

LEMMA ParentsNext ==
  ASSUME TypeOK, CallShape, LoopShape, ScanShape, EveryParentKept, [Next]_vars
  PROVE  EveryParentKept'
<1> SUFFICES ASSUME InLoop', NEW t \in seen', t \notin batch' PROVE Found(t)'
  BY ParentsAreFound DEF EveryParentKept, Found, InLoop
<1>0. ASSUME InLoop, t \in seen, t \notin batch PROVE t \in Traces /\ Found(t)
  BY <1>0, ParentsAreFound DEF TypeOK
<1>1. ASSUME NEW u \in Traces, NEW p \in Plugins, TaskStep(u, p) PROVE Found(t)'
  <2>1. /\ UNCHANGED <<edges, at, seen, batch, status>> /\ scan' = scan
        /\ status[u] # "done"
        /\ \A q \in Plugins, v \in Traces : v # u => outcome'[v][q] = outcome[v][q]
    BY <1>1, TaskFacts DEF database, scan
  <2>2. InLoop /\ t \in Traces /\ Found(t)
    BY <1>0, <2>1 DEF InLoop
  <2>. QED
    BY <2>1, <2>2, FoundStays
<1>2. ASSUME NEW u \in Traces, CallStep(u) PROVE Found(t)'
  <2>1. /\ UNCHANGED <<edges, at, seen, batch, outcome>> /\ scan' = scan
        /\ status[u] = "open"
        /\ \A v \in Traces : v # u => status'[v] = status[v]
    BY <1>2 DEF CallStep, ReturnCall, AbortCall, database, scan, TypeOK
  <2>2. InLoop /\ t \in Traces /\ Found(t) /\ t # u
    BY <1>0, <2>1 DEF InLoop, CallShape
  <2>. QED
    BY <2>1, <2>2, FoundStays
<1>3. CASE TakeBatch
  <2>1. /\ UNCHANGED <<edges, seen, outcome>> /\ scan' = scan /\ batch = {} /\ InLoop
    BY <1>3 DEF TakeBatch, database, scan, LoopShape, InLoop
  <2>2. t \in Traces /\ Found(t) /\ status'[t] = status[t]
    BY <1>0, <1>3, <2>1, TakeBatchFacts
  <2>. QED
    BY <2>1, <2>2, FoundStays
<1>4. CASE EndBatch
  <2>1. Persist /\ at = "batch" /\ InLoop /\ UNCHANGED <<status, outcome>> /\ scan' = scan
    BY <1>4 DEF EndBatch, PersistFails, Fail, InLoop, scan
  <2>2. edges' = edges \cup BatchDiscoveries /\ seen' = seen \cup NewTraces
    BY <2>1, PersistFacts
  <2>3. CASE t \in batch
    BY <2>1, <2>2, <2>3 DEF Found, BatchDiscoveries, Discoveries
  <2>4. CASE t \in seen /\ t \notin batch
    BY <1>0, <2>1, <2>2, <2>4, FoundStays
  <2>5. CASE t \in NewTraces
    <3>1. t \in Traces /\ t \notin seen
      BY <2>5, NewTracesType DEF NewTraces
    <3>2. status[t] = "none"
      BY <2>1, <3>1 DEF LoopShape
    <3>. QED
      BY <2>1, <3>2 DEF Found
  <2>. QED
    BY <2>2, <2>3, <2>4, <2>5
<1>5. CASE StoreSeedEdge
  <2>1. seen' = {root} /\ UNCHANGED status /\ root \in Traces
    BY <1>5 DEF StoreSeedEdge, Fail, InLoop, ScanShape
  <2>2. status'[t] = "none"
    BY <1>5, <2>1 DEF StoreSeedEdge, LoopShape
  <2>. QED
    BY <2>2 DEF Found
<1>6. CASE StoreRoot \/ CloseSession \/ ProcessEnds
  BY <1>6 DEF StoreRoot, CloseSession, ProcessEnds, Fail, InLoop
<1>7. ASSUME NEW r \in Traces \cup {NoTrace}, StartScan(r) PROVE Found(t)'
  BY <1>7 DEF StartScan, InLoop
<1>8. CASE Finish \/ Expire \/ NoScanLeft \/ UNCHANGED vars \/ \E k \in Keys : WriteMarker(k)
  <2>1. /\ UNCHANGED <<edges, seen, batch, status, outcome>> /\ scan' = scan
        /\ InLoop' => InLoop
    BY <1>8 DEF Finish, Expire, NoScanLeft, WriteMarker, vars, database, scan, InLoop
  <2>. QED
    BY <1>0, <2>1, FoundStays
<1>. QED
  BY <1>1, <1>2, <1>3, <1>4, <1>5, <1>6, <1>7, <1>8 DEF Next, EngineStep

(***************************************************************************)
(* The theorems.                                                           *)
(***************************************************************************)

LEMMA IInvInit == Init => IInv
BY TypeInit, CallShapeInit, LoopShapeInit, GraphInit DEF IInv, Shapes

LEMMA IInvNext == IInv /\ [Next]_vars => IInv'
BY TypeNext, CallShapeNext, LoopShapeNext, ScanShapeNext, TraceBackNext, ReportedNext,
   ParentsNext
   DEF IInv, Shapes

LEMMA IInvAlways == Spec => []IInv
BY IInvInit, IInvNext, PTL DEF Spec

\* The database and the process keep their types.
THEOREM ScanTypeCorrect == Spec => []TypeOK
<1>1. IInv => TypeOK
  BY DEF IInv, Shapes
<1>. QED
  BY <1>1, IInvAlways, PTL

\* Every stored fact leads back to the seed of its scan, wherever the process was
\* cut off and whatever other scans did before and after.
THEOREM FactsLeadBack == Spec => []TraceBack
<1>1. IInv => TraceBack
  BY DEF IInv
<1>. QED
  BY <1>1, IInvAlways, PTL

\* What a scan reports is what its graph holds.
THEOREM ReportsAreStored == Spec => []ReportedIsStored
<1>1. IInv => ReportedIsStored
  BY DEF IInv
<1>. QED
  BY <1>1, IInvAlways, PTL

\* The seen map decides what is processed, never which edges are stored.
THEOREM ParentsAreKept == Spec => []EveryParentKept
<1>1. IInv => EveryParentKept
  BY DEF IInv
<1>. QED
  BY <1>1, IInvAlways, PTL

\* A loop that ends has processed and settled everything it reports.
THEOREM GraphIsGrownOut == Spec => []GrownOut
<1>1. IInv => GrownOut
  <2> SUFFICES ASSUME IInv, at = "finished", NEW t \in seen
               PROVE  /\ status[t] \in {"done", "aborted"}
                      /\ status[t] = "aborted" => ctxDone
                      /\ status[t] = "done" => \A p \in Handles[t] :
                           /\ outcome[t][p] \notin {"none", "queued"}
                           /\ outcome[t][p] = "traces" => Finds[t][p] \subseteq seen
    BY DEF GrownOut
  <2>1. TypeOK /\ CallShape /\ LoopShape /\ InLoop /\ ReportedIsStored /\ EveryParentKept
    BY DEF IInv, Shapes, InLoop
  <2>2. t \in Traces /\ Handles[t] \subseteq Plugins
    BY <2>1, TraceAssumption DEF TypeOK
  <2>3. batch = {} /\ ~Waiting(t)
    BY <2>1 DEF LoopShape, Waiting
  <2>4. status[t] \in {"done", "aborted"}
    BY <2>1, <2>2, <2>3 DEF LoopShape, CallShape, TypeOK
  <2>5. ASSUME NEW p \in Handles[t], status[t] = "done", outcome[t][p] = "traces",
               NEW c \in Finds[t][p]
        PROVE  c \in seen
    <3> DEFINE e == [parent |-> t, plugin |-> p, child |-> c, scan |-> scan]
    <3>1. e \in edges
      BY <2>1, <2>2, <2>3, <2>5 DEF EveryParentKept, InLoop
    <3>. QED
      BY <2>1, <3>1 DEF ReportedIsStored, InLoop, EdgesOf
  <2>. QED
    BY <2>1, <2>2, <2>4, <2>5 DEF CallShape
<1>. QED
  BY <1>1, IInvAlways, PTL

\* A trace is handed to one call of a scan at most, however often it is found.
THEOREM TracesProcessedOnce == Spec => ProcessedOnce
<1> DEFINE Once == \A t \in Traces : status[t] \in {"done", "aborted"} /\ at' # "idle"
                      => status'[t] = status[t]
<1>1. IInv /\ [Next]_vars => [Once]_vars
  <2> SUFFICES ASSUME IInv, [Next]_vars, NEW t \in Traces,
                      status[t] \in {"done", "aborted"}, at' # "idle"
               PROVE  status'[t] = status[t]
    OBVIOUS
  <2>0. TypeOK /\ CallShape /\ LoopShape
    BY DEF IInv, Shapes
  <2>1. ASSUME NEW u \in Traces, NEW p \in Plugins, TaskStep(u, p)
        PROVE  UNCHANGED status
    BY <2>0, <2>1, TaskFacts
  <2>2. ASSUME NEW u \in Traces, CallStep(u) PROVE status'[t] = status[t]
    BY <2>0, <2>2 DEF CallStep, ReturnCall, AbortCall, TypeOK
  <2>3. CASE TakeBatch
    <3>1. InLoop /\ \A i, j \in DOMAIN stack : stack[i] = stack[j] => i = j
      BY <2>0, <2>3 DEF TakeBatch, LoopShape, InLoop
    <3>2. t \in batch' => Waiting(t)
      BY <2>0, <2>3, <3>1, TakeBatchWaiting
    <3>3. ~Waiting(t)
      BY <2>0, <3>1 DEF LoopShape
    <3>. QED
      BY <2>0, <2>3, <3>2, <3>3, TakeBatchFacts
  <2>4. CASE \/ StoreRoot \/ StoreSeedEdge \/ EndBatch \/ Finish \/ CloseSession
             \/ Expire \/ NoScanLeft \/ UNCHANGED vars
             \/ (\E k \in Keys : WriteMarker(k))
             \/ (\E r \in Traces \cup {NoTrace} : StartScan(r))
    BY <2>4 DEF StoreRoot, StoreSeedEdge, EndBatch, Finish, CloseSession, Expire,
                NoScanLeft, vars, WriteMarker, StartScan
  <2>5. ~ProcessEnds
    BY DEF ProcessEnds
  <2>. QED
    BY <2>1, <2>2, <2>3, <2>4, <2>5 DEF Next, EngineStep
<1>. QED
  BY <1>1, IInvAlways, PTL DEF Spec, ProcessedOnce


(***************************************************************************)
(* A scan is an exploration.                                               *)
(***************************************************************************)

\* A batch that runs has somebody in it, and no more than are allowed.
BatchShape == at = "batch" => batch # {} /\ Cardinality(batch) <= MaxConcurrency

LEMMA BatchTaken ==
  ASSUME TypeOK, TakeBatch
  PROVE  batch' # {} /\ Cardinality(batch') <= MaxConcurrency
<1> DEFINE n == BatchSize
           f == [i \in 1..n |-> stack[i]]
<1>0. batch' = {stack[i] : i \in 1..n} /\ batch' \subseteq Traces
  BY TakeBatchFacts, Zenon
<1>1. n \in Nat /\ n <= MaxConcurrency /\ MaxConcurrency \in Nat
  BY BoundAssumption DEF BatchSize, TypeOK
<1>2. 1 \in 1..n
  BY BoundAssumption DEF BatchSize, TakeBatch, TypeOK
<1>3. IsFiniteSet(1..n) /\ Cardinality(1..n) = n
  BY <1>1, FS_Interval
<1> HIDE DEF n
<1>4. f \in Surjection(1..n, batch')
  BY <1>0 DEF Surjection
<1>5. Cardinality(batch') <= n /\ Cardinality(batch') \in Nat
  BY <1>3, <1>4, FS_Surjection, FS_CardinalityType
<1> QED
  BY <1>0, <1>1, <1>2, <1>5

LEMMA BatchShapeNext ==
  ASSUME TypeOK, CallShape, BatchShape, [Next]_vars
  PROVE  BatchShape'
<1>1. CASE TakeBatch
  BY <1>1, BatchTaken DEF BatchShape
<1>2. CASE EndBatch
  BY <1>2 DEF EndBatch, PersistFails, Fail, Persist, Merge, BatchShape
<1>3. ASSUME NEW t \in Traces, NEW p \in Plugins, TaskStep(t, p) PROVE BatchShape'
  BY <1>3, TaskFacts DEF BatchShape
<1>4. ASSUME NEW t \in Traces, CallStep(t) PROVE BatchShape'
  BY <1>4 DEF CallStep, ReturnCall, AbortCall, BatchShape
<1>5. CASE StoreRoot \/ StoreSeedEdge \/ Finish \/ CloseSession \/ ProcessEnds
  BY <1>5 DEF StoreRoot, StoreSeedEdge, Fail, Finish, CloseSession, ProcessEnds, BatchShape
<1>6. CASE \/ Expire \/ NoScanLeft \/ UNCHANGED vars
           \/ \E k \in Keys : WriteMarker(k)
           \/ \E r \in Traces \cup {NoTrace} : StartScan(r)
  BY <1>6 DEF Expire, NoScanLeft, vars, WriteMarker, StartScan, BatchShape
<1> QED
  BY <1>1, <1>2, <1>3, <1>4, <1>5, <1>6 DEF Next, EngineStep

\* A step that the exploration does not notice.
LEMMA ExplorationFrame ==
  ASSUME UNCHANGED <<edges, seen, batch>>, InLoop => at' = at /\ scan' = scan,
         InLoop' => InLoop,
         \A t \in Traces : status'[t] # "none" <=> status[t] # "none"
  PROVE  UNCHANGED Exploring!vars
BY DEF Exploring!vars, InLoop

\* A scan that fails, is closed or dies leaves its edges.
LEMMA ExplorationLeft ==
  ASSUME TypeOK, ScanShape, UNCHANGED edges, at # "idle", ~InLoop'
  PROVE  Exploring!Leave \/ UNCHANGED Exploring!vars
<1>1. CASE InLoop
  BY <1>1 DEF Exploring!Leave, InLoop, ScanShape
<1>2. CASE ~InLoop
  BY <1>2 DEF Exploring!vars, InLoop
<1> QED
  BY <1>1, <1>2

\* The seed begins one, under an id that no edge has.
LEMMA SeedBegins ==
  ASSUME TypeOK, LoopShape, ScanShape, StoreSeedEdge, at' # "failed"
  PROVE  Exploring!Next
<1>1. /\ at = "seed" /\ at' = "loop" /\ ~InLoop /\ InLoop'
      /\ edges' = edges \cup {SeedEdge(root, scan)} /\ seen' = {root}
      /\ UNCHANGED <<sessions, status, batch>>
  BY DEF StoreSeedEdge, Fail, InLoop
<1>2. scan' = scan /\ scan \in Nat \ {0} /\ root \in Traces
  BY <1>1 DEF TypeOK, ScanShape, scan
<1>3. \A e \in edges : e.scan # scan
  BY <1>1 DEF ScanShape, EdgesOf
<1>4. batch = {} /\ \A t \in Traces : status[t] = "none"
  BY <1>1 DEF LoopShape
<1>5. PICK seed \in Traces : seed = root
  BY <1>2
<1> HIDE DEF scan, root
<1>6. /\ (IF InLoop THEN scan ELSE 0) = 0 /\ (IF InLoop THEN scan ELSE 0)' = scan
      /\ (IF InLoop THEN seen ELSE {})' = {root}
      /\ (at = "finished")' = (at = "finished")
  BY <1>1, <1>2
<1>7. UNCHANGED (IF InLoop THEN {t \in Traces : status[t] # "none"} \ batch ELSE {})
  BY <1>1, <1>4
<1>8. scan \in Nat \ ({0} \cup {e.scan : e \in edges})
  BY <1>2, <1>3
<1>9. edges' = edges \cup {Exploring!Edge(NoTrace, SeedPlugin, seed)'}
  BY <1>1, <1>5, <1>6 DEF Exploring!Edge, SeedEdge
<1>10. Exploring!Begin(seed)
  BY <1>5, <1>6, <1>7, <1>8, <1>9 DEF Exploring!Begin
<1> QED
  BY <1>10 DEF Exploring!Next

\* A batch that is stored has been explored.
LEMMA BatchExplored ==
  ASSUME TypeOK, CallShape, LoopShape, ScanShape, BatchShape, EndBatch, Persist
  PROVE  Exploring!Next
<1> DEFINE answered == {q \in Exploring!Questions(batch) :
                          status[q[1]] = "done" /\ outcome[q[1]][q[2]] = "traces"}
<1>1. /\ at = "batch" /\ at' = "loop" /\ InLoop /\ InLoop' /\ batch' = {}
      /\ edges' = edges \cup BatchDiscoveries
      /\ seen' = seen \cup {e.child : e \in BatchDiscoveries}
      /\ UNCHANGED <<sessions, status>>
  BY DEF EndBatch, Persist, Merge, NewTraces, EdgesToStore, InLoop
<1>2. scan' = scan /\ scan \in Nat \ {0}
  BY <1>1 DEF TypeOK, ScanShape, scan
<1>3. batch \subseteq Traces /\ \A t \in batch : status[t] # "none" /\ t \in seen
  BY <1>1 DEF TypeOK, LoopShape
<1>4. BatchDiscoveries = Exploring!EdgesFrom(answered)
  <2>1. ASSUME NEW t \in batch, NEW p \in Plugins, status[t] = "done", outcome[t][p] = "traces"
        PROVE  p \in Handles[t]
    BY <1>3, <2>1 DEF CallShape
  <2>2. ASSUME NEW t \in batch, NEW p \in Plugins, NEW c \in Finds[t][p]
        PROVE  Exploring!Edge(t, p, c) = [parent |-> t, plugin |-> p, child |-> c, scan |-> scan]
    BY <1>1 DEF Exploring!Edge
  <2>3. BatchDiscoveries \subseteq Exploring!EdgesFrom(answered)
    <3> SUFFICES ASSUME NEW e \in BatchDiscoveries PROVE e \in Exploring!EdgesFrom(answered)
      OBVIOUS
    <3>1. PICK t \in batch : e \in Discoveries(t)
      BY DEF BatchDiscoveries
    <3>2. PICK p \in Plugins : /\ status[t] = "done" /\ outcome[t][p] = "traces"
                               /\ \E c \in Finds[t][p] : e =
                                    [parent |-> t, plugin |-> p, child |-> c, scan |-> scan]
      BY <3>1 DEF Discoveries
    <3>3. <<t, p>> \in answered
      BY <2>1, <3>2 DEF Exploring!Questions
    <3> QED
      BY <2>2, <3>2, <3>3 DEF Exploring!EdgesFrom
  <2>4. Exploring!EdgesFrom(answered) \subseteq BatchDiscoveries
    <3> SUFFICES ASSUME NEW e \in Exploring!EdgesFrom(answered) PROVE e \in BatchDiscoveries
      OBVIOUS
    <3>1. PICK q \in answered : \E c \in Finds[q[1]][q[2]] : e = Exploring!Edge(q[1], q[2], c)
      BY DEF Exploring!EdgesFrom
    <3>2. q[1] \in batch /\ q[2] \in Plugins
      BY <3>1 DEF Exploring!Questions
    <3>3. e \in Discoveries(q[1])
      BY <2>2, <3>1, <3>2 DEF Discoveries
    <3> QED
      BY <3>2, <3>3 DEF BatchDiscoveries
  <2> QED
    BY <2>3, <2>4
<1>5. answered \in SUBSET Exploring!Questions(batch)
  OBVIOUS
<1> HIDE DEF answered
<1> DEFINE done == {t \in Traces : status[t] # "none"}
<1>6. batch # {} /\ Cardinality(batch) <= MaxConcurrency
  BY <1>1 DEF BatchShape
<1>7. /\ (IF InLoop THEN scan ELSE 0) = scan /\ (IF InLoop THEN scan ELSE 0)' = scan
      /\ (IF InLoop THEN seen ELSE {}) = seen /\ (IF InLoop THEN seen ELSE {})' = seen'
      /\ (at = "finished") = FALSE /\ (at = "finished")' = FALSE
  BY <1>1, <1>2
<1>8. /\ (IF InLoop THEN done \ batch ELSE {}) = done \ batch
      /\ (IF InLoop THEN done \ batch ELSE {})' = (done \ batch) \cup batch
  BY <1>1, <1>3
<1>9. Exploring!Cardinality(batch) = Cardinality(batch)
  BY Zenon DEF Exploring!Cardinality, Cardinality
<1>10. PICK B : B = batch
  OBVIOUS
<1>11. B \in SUBSET ((IF InLoop THEN seen ELSE {}) \ (IF InLoop THEN done \ batch ELSE {}))
  BY <1>3, <1>7, <1>8, <1>10
<1>12. Exploring!Explore(B)
  BY <1>1, <1>2, <1>4, <1>5, <1>6, <1>7, <1>8, <1>9, <1>10 DEF Exploring!Explore
<1> QED
  BY <1>11, <1>12 DEF Exploring!Next

\* A loop that has run out of traces has explored all it has seen.
LEMMA LoopEnded ==
  ASSUME TypeOK, LoopShape, ScanShape, Finish
  PROVE  Exploring!Next
<1>1. /\ at = "loop" /\ at' = "finished" /\ InLoop /\ InLoop' /\ stack = <<>> /\ batch = {}
      /\ UNCHANGED <<sessions, edges, seen, batch, status>>
  BY DEF Finish, database, LoopShape, InLoop
<1>2. scan' = scan /\ scan # 0
  BY <1>1 DEF ScanShape, scan
<1>3. seen = {t \in Traces : status[t] # "none"} \ batch
  BY <1>1 DEF LoopShape, Waiting, TypeOK
<1>4. Exploring!End
  BY <1>1, <1>2, <1>3 DEF Exploring!End
<1> QED
  BY <1>4 DEF Exploring!Next

\* Taking a batch is not noticed: none of its traces was handed to a call before.
LEMMA BatchUnexplored ==
  ASSUME TypeOK, LoopShape, TakeBatch
  PROVE  UNCHANGED Exploring!vars
<1>1. /\ at = "loop" /\ at' = "batch" /\ InLoop /\ InLoop' /\ batch = {}
      /\ UNCHANGED <<sessions, edges, seen>>
  BY DEF TakeBatch, database, LoopShape, InLoop
<1>2. scan' = scan
  BY <1>1 DEF scan
<1>3. \A t \in batch' : Waiting(t)
  BY TakeBatchFacts DEF Waiting
<1>4. \A t \in Traces : t \in batch' => status[t] = "none"
  BY <1>1, <1>3 DEF LoopShape
<1>5. {t \in Traces : status'[t] # "none"} \ batch' = {t \in Traces : status[t] # "none"} \ batch
  BY <1>1, <1>4, TakeBatchFacts
<1> QED
  BY <1>1, <1>2, <1>5 DEF Exploring!vars

EInv == IInv /\ BatchShape

LEMMA StepExplores == EInv /\ [Next]_vars => [Exploring!Next]_(Exploring!vars)
<1> SUFFICES ASSUME EInv, [Next]_vars PROVE Exploring!Next \/ UNCHANGED Exploring!vars
  OBVIOUS
<1>0. TypeOK /\ CallShape /\ LoopShape /\ ScanShape /\ BatchShape
  BY DEF EInv, IInv, Shapes
<1>1. CASE StoreSeedEdge
  <2>1. CASE at' = "failed"
    BY <1>0, <1>1, <2>1, ExplorationLeft DEF StoreSeedEdge, InLoop, Exploring!Next, Fail
  <2>2. CASE at' # "failed"
    BY <1>0, <1>1, <2>2, SeedBegins
  <2> QED
    BY <2>1, <2>2
<1>2. CASE EndBatch
  <2>1. CASE PersistFails
    BY <1>0, <1>2, <2>1, ExplorationLeft DEF EndBatch, PersistFails, Fail, InLoop, Exploring!Next
  <2>2. CASE Persist
    BY <1>0, <1>2, <2>2, BatchExplored
  <2> QED
    BY <1>2, <2>1, <2>2 DEF EndBatch
<1>3. CASE TakeBatch
  BY <1>0, <1>3, BatchUnexplored
<1>4. CASE Finish
  BY <1>0, <1>4, LoopEnded
<1>5. CASE StoreRoot \/ CloseSession \/ ProcessEnds
  <2>1. UNCHANGED edges /\ at # "idle" /\ ~InLoop'
    BY <1>5 DEF StoreRoot, Fail, CloseSession, ProcessEnds, database, InLoop
  <2> QED
    BY <1>0, <2>1, ExplorationLeft DEF Exploring!Next
<1>6. ASSUME NEW r \in Traces \cup {NoTrace}, StartScan(r) PROVE UNCHANGED Exploring!vars
  <2>1. ~InLoop /\ ~InLoop' /\ UNCHANGED <<edges, seen, batch, status>>
    BY <1>6 DEF StartScan, InLoop
  <2> QED
    BY <2>1, ExplorationFrame
<1>7. ASSUME NEW t \in Traces, NEW p \in Plugins, TaskStep(t, p) PROVE UNCHANGED Exploring!vars
  <2>1. UNCHANGED <<sessions, edges, at, seen, batch, status>>
    BY <1>0, <1>7, TaskFacts DEF database
  <2> QED
    BY <2>1, ExplorationFrame DEF scan, InLoop
<1>8. ASSUME NEW t \in Traces, CallStep(t) PROVE UNCHANGED Exploring!vars
  <2>1. /\ UNCHANGED <<sessions, edges, at, seen, batch>>
        /\ \A u \in Traces : status'[u] # "none" <=> status[u] # "none"
    BY <1>0, <1>8 DEF CallStep, ReturnCall, AbortCall, database, TypeOK
  <2> QED
    BY <2>1, ExplorationFrame DEF scan, InLoop
<1>9. CASE Expire \/ NoScanLeft \/ UNCHANGED vars \/ \E k \in Keys : WriteMarker(k)
  <2>1. UNCHANGED <<sessions, edges, at, seen, batch, status>>
    BY <1>9 DEF Expire, NoScanLeft, vars, WriteMarker, database
  <2> QED
    BY <2>1, ExplorationFrame DEF scan, InLoop
<1> QED
  BY <1>1, <1>2, <1>3, <1>4, <1>5, <1>6, <1>7, <1>8, <1>9 DEF Next, EngineStep

\* Whatever fails, expires or dies, the scans of a database explore what the sources
\* connect: by whole batches, each trace once, reporting exactly what they store, and
\* ending by themselves only when nothing they report is left to explore.
THEOREM ScansExplore == Spec => ImplementsExploration
<1>1. Init => EInv /\ Exploring!Init
  <2> SUFFICES ASSUME Init PROVE EInv /\ Exploring!Init
    OBVIOUS
  <2>1. EInv
    BY IInvInit DEF EInv, BatchShape, Init
  <2> QED
    BY <2>1 DEF Init, Exploring!Init, InLoop
<1>2. EInv /\ [Next]_vars => EInv'
  BY IInvNext, BatchShapeNext DEF EInv, IInv, Shapes
<1>3. Spec => Exploring!Spec
  BY <1>1, <1>2, StepExplores, PTL DEF Spec, Exploring!Spec
<1> QED
  BY <1>3 DEF ImplementsExploration

=============================================================================
