------------------------------ MODULE WorkerPool ------------------------------
(***************************************************************************)
(* The processing pipeline of one scan: concurrent calls of                *)
(* Processor.ProcessTrace submit one task per plugin to the worker pool,   *)
(* whose workers run the plugin and answer on the reply channel of the     *)
(* call (internal/app/deeper/processor, internal/pkg/workerpool).          *)
(*                                                                         *)
(* A step of a call is what it does between two accesses to state shared   *)
(* with another goroutine; every other step of the code is folded into it. *)
(***************************************************************************)
EXTENDS Naturals, Sequences, FiniteSets

CONSTANTS
  Calls,        \* the concurrent calls of ProcessTrace, one per trace of a batch
  Plugins,      \* the registered plugins
  Workers,      \* the goroutines of startWorkers
  Values,       \* the values of the traces; two traces may share one
  ValueOf,      \* [Calls -> Values]
  Candidates,   \* [Calls -> SUBSET Plugins], state.ActivePlugins[trace.Type]
  Wanted,       \* [Calls -> SUBSET Plugins], those no TraceMatcher turns down
  QueueSize,    \* capacity of taskQueue
  MemorySize,   \* capacity of the in-memory deduplication cache
  Threshold,    \* FailureThreshold of a circuit breaker
  Dedup,        \* EnableDeduplication, with its memory and persistent parts
  NoPlugin,     \* cur[c] between two submissions
  NoTask        \* task[w] of an idle worker

ASSUME SetAssumption ==
  /\ IsFiniteSet(Plugins)
  /\ NoPlugin \notin Plugins
  /\ NoTask \notin Calls \X Plugins
ASSUME CallAssumption ==
  /\ ValueOf \in [Calls -> Values]
  /\ Candidates \in [Calls -> SUBSET Plugins]
  /\ Wanted \in [Calls -> SUBSET Plugins]
  /\ \A c \in Calls : Wanted[c] \subseteq Candidates[c]
ASSUME SizeAssumption ==
  /\ QueueSize \in Nat \ {0}
  /\ MemorySize \in Nat \ {0}
  /\ Threshold \in Nat \ {0}
  /\ Dedup \in BOOLEAN

VARIABLES
  \* ProcessTrace: the locals of call c
  pc,         \* where the call is
  todo,       \* candidate plugins the submit loop has not reached
  cur,        \* the plugin whose task is being submitted
  submitted,  \* submittedTasks
  received,   \* the index i of the collection loop
  got,        \* what the call holds for each plugin: its discoveries and errors
  replyTo,    \* the buffered reply channel of the call
  ctxDone,    \* the scan's context has expired
  \* WorkerPool
  queue,      \* taskQueue
  phase,      \* where worker w is in run / processTask
  task,       \* the task worker w holds
  pool,       \* "up", then through Shutdown
  failures,   \* failureCount of the breaker of a task ID
  tripped,    \* the breaker of a task ID is in StateOpen
  \* DeduplicationCache
  memory,     \* keys in the LRU cache
  marking,    \* keys whose MarkProcessed goroutine has not written yet
  disk,       \* keys marked in the persistent cache
  \* history
  executed,   \* how often the plugin of a key was started in this process
  succeeded   \* keys whose plugin succeeded, now or in an earlier process

callVars  == <<pc, todo, cur, submitted, received, got>>
poolVars  == <<queue, phase, task>>
breakers  == <<failures, tripped>>
dedupVars == <<memory, marking, disk>>
history   == <<executed, succeeded>>
vars == <<pc, todo, cur, submitted, received, got, replyTo, ctxDone, queue,
          phase, task, pool, failures, tripped, memory, marking, disk,
          executed, succeeded>>

Keys  == Values \X Plugins     \* Task.ID and the identity the cache hashes
Tasks == Calls \X Plugins      \* one task per call and plugin
Reply == [plugin : Plugins, kind : {"traces", "error", "dup"}]

\* The task ID leaves out the trace's type, so two calls can share a key.
Key(c, p) == <<ValueOf[c], p>>

CallTypeOK ==
  /\ pc \in [Calls -> {"submit", "disk", "mark", "rate", "send", "done", "aborted"}]
  /\ todo \in [Calls -> SUBSET Plugins]
  /\ cur \in [Calls -> Plugins \cup {NoPlugin}]
  /\ submitted \in [Calls -> Nat]
  /\ received \in [Calls -> Nat]
  /\ got \in [Calls -> [Plugins -> {"none", "traces", "error", "dup", "refused"}]]

ChannelTypeOK ==
  /\ replyTo \in [Calls -> Seq(Reply)]
  /\ queue \in Seq(Tasks)
  /\ ctxDone \in BOOLEAN

WorkerTypeOK ==
  /\ phase \in [Workers -> {"idle", "picked", "running", "ok", "failed", "exited"}]
  /\ task \in [Workers -> Tasks \cup {NoTask}]
  /\ pool \in {"up", "stopping", "stopped", "timedout"}

RecordTypeOK ==
  /\ failures \in [Keys -> Nat]
  /\ tripped \in [Keys -> BOOLEAN]
  /\ memory \subseteq Keys
  /\ marking \subseteq Keys
  /\ disk \subseteq Keys
  /\ executed \in [Keys -> Nat]
  /\ succeeded \subseteq Keys

TypeOK == CallTypeOK /\ ChannelTypeOK /\ WorkerTypeOK /\ RecordTypeOK

\* A scan starts with an empty process and whatever earlier scans marked.
Init ==
  /\ pc = [c \in Calls |-> "submit"]
  /\ todo = Wanted
  /\ cur = [c \in Calls |-> NoPlugin]
  /\ submitted = [c \in Calls |-> 0]
  /\ received = [c \in Calls |-> 0]
  /\ got = [c \in Calls |-> [p \in Plugins |-> "none"]]
  /\ replyTo = [c \in Calls |-> <<>>]
  /\ ctxDone = FALSE
  /\ queue = <<>>
  /\ phase = [w \in Workers |-> "idle"]
  /\ task = [w \in Workers |-> NoTask]
  /\ pool = "up"
  /\ failures = [k \in Keys |-> 0]
  /\ tripped = [k \in Keys |-> FALSE]
  /\ memory = {}
  /\ marking = {}
  /\ disk \in SUBSET Keys
  /\ executed = [k \in Keys |-> 0]
  /\ succeeded = disk

-------------------------------------------------------------------------------
(***************************************************************************)
(* Processor.ProcessTrace and WorkerPool.Submit, run by call c.            *)
(***************************************************************************)

\* Variant: a buffer for one reply.
ReplyCapacityOne(c) == 1

\* make(chan *TaskResult, len(candidatePlugins))
ReplyCapacity(c) == Cardinality(Candidates[c])

\* A send on the reply channel waits while the buffer is full.
Answer(c, p, kind) ==
  /\ Len(replyTo[c]) < ReplyCapacity(c)
  /\ replyTo' = [replyTo EXCEPT ![c] = Append(@, [plugin |-> p, kind |-> kind])]

\* LRUCache.Put, for any choice of the entry a full cache evicts.
Put(k) ==
  \/ /\ k \in memory \/ Cardinality(memory) < MemorySize
     /\ memory' = memory \cup {k}
  \/ /\ k \notin memory /\ Cardinality(memory) >= MemorySize
     /\ \E victim \in memory : memory' = (memory \ {victim}) \cup {k}

\* Variant: a duplicate is counted as submitted and never answered.
ReturnDuplicateSilently(c, p) ==
  /\ submitted' = [submitted EXCEPT ![c] = @ + 1]
  /\ pc' = [pc EXCEPT ![c] = "submit"]
  /\ cur' = [cur EXCEPT ![c] = NoPlugin]
  /\ UNCHANGED replyTo

\* Submit returns nil without queueing the task, having answered it itself.
ReturnDuplicate(c, p) ==
  /\ Answer(c, p, "dup")
  /\ submitted' = [submitted EXCEPT ![c] = @ + 1]
  /\ pc' = [pc EXCEPT ![c] = "submit"]
  /\ cur' = [cur EXCEPT ![c] = NoPlugin]

\* Submit returns an error, which the submit loop adds to allErrors.
Refuse(c) ==
  /\ got' = [got EXCEPT ![c][cur[c]] = "refused"]
  /\ pc' = [pc EXCEPT ![c] = "submit"]
  /\ cur' = [cur EXCEPT ![c] = NoPlugin]
  /\ UNCHANGED <<todo, submitted, received, replyTo, queue>>

\* The submit loop takes the next candidate; IsDuplicate reads the memory cache.
Submit(c, p) ==
  /\ pc[c] = "submit"
  /\ p \in todo[c]
  /\ todo' = [todo EXCEPT ![c] = @ \ {p}]
  /\ IF Dedup /\ Key(c, p) \in memory
     THEN ReturnDuplicate(c, p)
     ELSE /\ pc' = [pc EXCEPT ![c] = IF Dedup THEN "disk" ELSE "mark"]
          /\ cur' = [cur EXCEPT ![c] = p]
          /\ UNCHANGED <<submitted, replyTo>>
  /\ UNCHANGED <<received, got, ctxDone, poolVars, pool, breakers, dedupVars, history>>

\* IsDuplicate reads the persistent cache. A failed read counts as a miss.
CheckDisk(c) ==
  /\ pc[c] = "disk"
  /\ \/ /\ Key(c, cur[c]) \in disk
        /\ Put(Key(c, cur[c]))
        /\ ReturnDuplicate(c, cur[c])
     \/ /\ pc' = [pc EXCEPT ![c] = "mark"]
        /\ UNCHANGED <<submitted, cur, replyTo, memory>>
  /\ UNCHANGED <<todo, received, got, ctxDone, poolVars, pool, breakers, marking,
                 disk, history>>

\* IsDuplicate puts the key in the memory cache, then Submit asks the breaker.
MarkAndCheckBreaker(c) ==
  /\ pc[c] = "mark"
  /\ IF Dedup THEN Put(Key(c, cur[c])) ELSE UNCHANGED memory
  /\ IF tripped[Key(c, cur[c])]
     THEN Refuse(c)
     ELSE /\ pc' = [pc EXCEPT ![c] = "rate"]
          /\ UNCHANGED <<todo, cur, submitted, received, got, replyTo, queue>>
  /\ UNCHANGED <<ctxDone, phase, task, pool, breakers, marking, disk, history>>

\* The rate limiter grants a slot, never to an expired context.
RateAllowed(c) ==
  /\ pc[c] = "rate"
  /\ ~ctxDone
  /\ pc' = [pc EXCEPT ![c] = "send"]
  /\ UNCHANGED <<todo, cur, submitted, received, got, replyTo, ctxDone, poolVars,
                 pool, breakers, dedupVars, history>>

\* The limiter gives up: the context has expired, or would before the slot.
RateRefused(c) ==
  /\ pc[c] = "rate"
  /\ Refuse(c)
  /\ UNCHANGED <<ctxDone, phase, task, pool, breakers, dedupVars, history>>

QueueHasRoom == Len(queue) < QueueSize

Enqueue(c) ==
  /\ pc[c] = "send"
  /\ QueueHasRoom
  /\ queue' = Append(queue, <<c, cur[c]>>)
  /\ submitted' = [submitted EXCEPT ![c] = @ + 1]
  /\ pc' = [pc EXCEPT ![c] = "submit"]
  /\ cur' = [cur EXCEPT ![c] = NoPlugin]
  /\ UNCHANGED <<todo, received, got, replyTo, ctxDone, phase, task, pool, breakers,
                 dedupVars, history>>

\* The enqueue never waits: it fails when the queue is full or the scan expired.
QueueRefused(c) ==
  /\ pc[c] = "send"
  /\ ctxDone \/ ~QueueHasRoom
  /\ Refuse(c)
  /\ UNCHANGED <<ctxDone, phase, task, pool, breakers, dedupVars, history>>

\* Variant: replies are collected before every candidate was submitted.
CollectingEarly(c) == pc[c] = "submit"

\* The submit loop is over, the collection loop runs.
Collecting(c) == pc[c] = "submit" /\ todo[c] = {}

\* The collection loop takes one reply and files it under its plugin.
Collect(c) ==
  /\ Collecting(c)
  /\ received[c] < submitted[c]
  /\ replyTo[c] # <<>>
  /\ received' = [received EXCEPT ![c] = @ + 1]
  /\ replyTo' = [replyTo EXCEPT ![c] = Tail(@)]
  /\ got' = [got EXCEPT ![c][Head(replyTo[c]).plugin] = Head(replyTo[c]).kind]
  /\ UNCHANGED <<pc, todo, cur, submitted, ctxDone, poolVars, pool, breakers,
                 dedupVars, history>>

\* The scan's context expires while the loop still waits for replies.
Abort(c) ==
  /\ Collecting(c)
  /\ received[c] < submitted[c]
  /\ ctxDone
  /\ pc' = [pc EXCEPT ![c] = "aborted"]
  /\ UNCHANGED <<todo, cur, submitted, received, got, replyTo, ctxDone, poolVars,
                 pool, breakers, dedupVars, history>>

\* Variant: the loop ends one reply early.
AllCollectedButOne(c) == received[c] + 1 >= submitted[c]

AllCollected(c) == received[c] = submitted[c]

Return(c) ==
  /\ Collecting(c)
  /\ AllCollected(c)
  /\ pc' = [pc EXCEPT ![c] = "done"]
  /\ UNCHANGED <<todo, cur, submitted, received, got, replyTo, ctxDone, poolVars,
                 pool, breakers, dedupVars, history>>

CallStep(c) ==
  \/ \E p \in Plugins : Submit(c, p)
  \/ CheckDisk(c) \/ MarkAndCheckBreaker(c)
  \/ RateAllowed(c) \/ RateRefused(c)
  \/ Enqueue(c) \/ QueueRefused(c)
  \/ Collect(c) \/ Abort(c) \/ Return(c)

-------------------------------------------------------------------------------
(***************************************************************************)
(* Worker.run and processTask, run by worker w; the goroutines of          *)
(* MarkProcessed; Shutdown.                                                *)
(***************************************************************************)

ShuttingDown == pool # "up"

\* run's select may pick a task even when the pool's context is done.
TakeTask(w) ==
  /\ phase[w] = "idle"
  /\ queue # <<>>
  /\ queue' = Tail(queue)
  /\ task' = [task EXCEPT ![w] = Head(queue)]
  /\ phase' = [phase EXCEPT ![w] = "picked"]
  /\ UNCHANGED <<callVars, replyTo, ctxDone, pool, breakers, dedupVars, history>>

\* The task handler fails a task of a cancelled pool without running its plugin.
HandlerRuns == ~ShuttingDown

HeldKey(w) == Key(task[w][1], task[w][2])

StartPlugin(w) ==
  /\ phase[w] = "picked"
  /\ HandlerRuns
  /\ phase' = [phase EXCEPT ![w] = "running"]
  /\ executed' = [executed EXCEPT ![HeldKey(w)] = @ + 1]
  /\ UNCHANGED <<callVars, replyTo, ctxDone, queue, task, pool, breakers, dedupVars,
                 succeeded>>

\* CircuitBreaker.recordFailure, taken as one step.
RecordFailure(k) ==
  /\ failures' = [failures EXCEPT ![k] = @ + 1]
  /\ tripped' = [tripped EXCEPT ![k] = @ \/ failures[k] + 1 >= Threshold]

\* Variant: a success takes one failure back.
RecordSuccessDecrement(k) ==
  /\ failures' = [failures EXCEPT ![k] = @ - 1]
  /\ UNCHANGED tripped

\* CircuitBreaker.recordSuccess: an open breaker stays open.
RecordSuccess(k) ==
  /\ failures' = [failures EXCEPT ![k] = 0]
  /\ UNCHANGED tripped

\* Variant: a failed task is marked like a successful one.
RecordAnyResult(k, success) ==
  /\ marking' = IF Dedup THEN marking \cup {k} ELSE marking
  /\ IF success THEN RecordSuccess(k) ELSE RecordFailure(k)

\* recordTaskResult: MarkProcessed starts a goroutine for a success only.
RecordTaskResult(k, success) ==
  /\ marking' = IF success /\ Dedup THEN marking \cup {k} ELSE marking
  /\ IF success THEN RecordSuccess(k) ELSE RecordFailure(k)

\* The plugin returns its traces; recordTaskResult.
PluginSucceeds(w) ==
  /\ phase[w] = "running"
  /\ phase' = [phase EXCEPT ![w] = "ok"]
  /\ succeeded' = succeeded \cup {HeldKey(w)}
  /\ RecordTaskResult(HeldKey(w), TRUE)
  /\ UNCHANGED <<callVars, replyTo, ctxDone, queue, task, pool, memory, disk, executed>>

\* The plugin, or the handler before it, returns an error; recordTaskResult.
TaskFails(w) ==
  /\ phase[w] = "running" \/ (phase[w] = "picked" /\ ~HandlerRuns)
  /\ phase' = [phase EXCEPT ![w] = "failed"]
  /\ RecordTaskResult(HeldKey(w), FALSE)
  /\ UNCHANGED <<callVars, replyTo, ctxDone, queue, task, pool, memory, disk, history>>

ReplyKind(w) == IF phase[w] = "ok" THEN "traces" ELSE "error"

\* Variant: the send races the task's deadline and may be dropped.
DeliverOrDrop(w) ==
  \/ Answer(task[w][1], task[w][2], ReplyKind(w))
  \/ UNCHANGED replyTo

\* The unconditional send on the task's own reply channel.
Deliver(w) == Answer(task[w][1], task[w][2], ReplyKind(w))

SendReply(w) ==
  /\ phase[w] \in {"ok", "failed"}
  /\ Deliver(w)
  /\ phase' = [phase EXCEPT ![w] = "idle"]
  /\ task' = [task EXCEPT ![w] = NoTask]
  /\ UNCHANGED <<callVars, ctxDone, queue, pool, breakers, dedupVars, history>>

Exit(w) ==
  /\ phase[w] = "idle"
  /\ ShuttingDown
  /\ phase' = [phase EXCEPT ![w] = "exited"]
  /\ UNCHANGED <<callVars, replyTo, ctxDone, queue, task, pool, breakers, dedupVars,
                 history>>

WorkerStep(w) ==
  \/ TakeTask(w) \/ StartPlugin(w) \/ PluginSucceeds(w) \/ TaskFails(w)
  \/ SendReply(w) \/ Exit(w)

\* storeInPersistentCache in a goroutine of its own; a failed write is logged only.
WriteMarker(k) ==
  /\ k \in marking
  /\ marking' = marking \ {k}
  /\ disk' \in {disk, disk \cup {k}}
  /\ UNCHANGED <<callVars, replyTo, ctxDone, poolVars, pool, breakers, memory, history>>

BeginShutdown ==
  /\ pool = "up"
  /\ pool' = "stopping"
  /\ UNCHANGED <<callVars, replyTo, ctxDone, poolVars, breakers, dedupVars, history>>

\* Variant: the wait group counts idle workers as gone.
NoWorkerBusy == \A w \in Workers : phase[w] \in {"idle", "exited"}

WorkersDone == \A w \in Workers : phase[w] = "exited"

\* Shutdown returns once every worker goroutine has, or when its timer fires.
EndShutdown ==
  /\ pool = "stopping"
  /\ \/ /\ WorkersDone
        /\ pool' = "stopped"
     \/ pool' = "timedout"
  /\ UNCHANGED <<callVars, replyTo, ctxDone, poolVars, breakers, dedupVars, history>>

\* The deadline of the scan passes (scan.go wraps ProcessInput in a timeout).
Expire ==
  /\ ~ctxDone
  /\ ctxDone' = TRUE
  /\ UNCHANGED <<callVars, replyTo, poolVars, pool, breakers, dedupVars, history>>

Returned(c) == pc[c] \in {"done", "aborted"}

\* Every call has returned: the rest of the process may do nothing more.
AllReturned ==
  /\ \A c \in Calls : Returned(c)
  /\ UNCHANGED vars

Next ==
  \/ \E c \in Calls : CallStep(c)
  \/ \E w \in Workers : WorkerStep(w)
  \/ \E k \in Keys : WriteMarker(k)
  \/ BeginShutdown \/ EndShutdown \/ Expire
  \/ AllReturned

Spec == Init /\ [][Next]_vars

\* The scheduler runs every goroutine that can run, and every plugin returns.
Fairness ==
  /\ \A c \in Calls : WF_vars(CallStep(c))
  /\ \A w \in Workers : WF_vars(WorkerStep(w))

FairSpec == Spec /\ Fairness

-------------------------------------------------------------------------------
(***************************************************************************)
(* Correctness.                                                            *)
(***************************************************************************)

\* The plugins call c has an answer to come from: accepted and not collected.
Owed(c) == {p \in Wanted[c] \ todo[c] : p # cur[c] /\ got[c][p] = "none"}

\* Where the one task, or the one reply, of call c for plugin p can be.
InQueue(c, p)  == \E i \in DOMAIN queue : queue[i] = <<c, p>>
Held(c, p)     == \E w \in Workers : task[w] = <<c, p>>
Answered(c, p) == \E i \in DOMAIN replyTo[c] : replyTo[c][i].plugin = p

\* No send on a reply channel ever waits: neither a worker that holds a result
\* nor Submit answering a duplicate finds the buffer full. processTask's comment
\* claims it of the buffer's size; workers of other scans' calls depend on it.
ReplyNeverBlocks ==
  /\ \A w \in Workers : phase[w] \in {"ok", "failed"} =>
       Len(replyTo[task[w][1]]) < ReplyCapacity(task[w][1])
  /\ \A c \in Calls : pc[c] = "disk" \/ (pc[c] = "submit" /\ todo[c] # {}) =>
       Len(replyTo[c]) < ReplyCapacity(c)

\* Every accepted task the call has no answer for is queued, on a worker, or
\* answered in the channel, whatever was deduplicated, refused, cancelled or
\* shut down on the way: no reply is lost, so no collection loop waits in vain.
NoReplyLost ==
  \A c \in Calls : \A p \in Owed(c) : InQueue(c, p) \/ Held(c, p) \/ Answered(c, p)

\* The bookkeeping the two properties above rest on.
CursorShape ==
  \A c \in Calls : cur[c] # NoPlugin <=> pc[c] \in {"disk", "mark", "rate", "send"}

WorkerShape ==
  \A w \in Workers : task[w] = NoTask <=> phase[w] \in {"idle", "exited"}

CallShape == \A c \in Calls :
  /\ todo[c] \subseteq Wanted[c]
  /\ cur[c] # NoPlugin => cur[c] \in Wanted[c] \ todo[c] /\ got[c][cur[c]] = "none"
  /\ \A p \in todo[c] : got[c][p] = "none"
  /\ Returned(c) => todo[c] = {}
  /\ pc[c] = "done" => received[c] = submitted[c]

\* submittedTasks counts the collected replies and the owed ones.
OwedCounted == \A c \in Calls : submitted[c] = received[c] + Cardinality(Owed(c))

OnlyOwed == \A c \in Calls, p \in Plugins :
  InQueue(c, p) \/ Held(c, p) \/ Answered(c, p) => p \in Owed(c)

OneCopy ==
  /\ \A i, j \in DOMAIN queue : queue[i] = queue[j] => i = j
  /\ \A v, w \in Workers : task[v] # NoTask /\ task[v] = task[w] => v = w
  /\ \A c \in Calls : \A i, j \in DOMAIN replyTo[c] :
       replyTo[c][i].plugin = replyTo[c][j].plugin => i = j
  /\ \A c \in Calls, p \in Plugins :
       /\ ~(InQueue(c, p) /\ Held(c, p))
       /\ ~(InQueue(c, p) /\ Answered(c, p))
       /\ ~(Held(c, p) /\ Answered(c, p))

\* A task handed to the pool is in one place, once, until its reply is collected,
\* and the loop's counters agree with what is outstanding.
Accounting ==
  CursorShape /\ WorkerShape /\ CallShape /\ OwedCounted /\ OnlyOwed /\ NoReplyLost /\ OneCopy

\* A call that returns without an error has an outcome for every plugin that
\* wanted its trace, though its loop only counts replies and never names them.
ReturnsComplete ==
  \A c \in Calls : pc[c] = "done" => \A p \in Wanted[c] : got[c][p] # "none"

\* Only a pair whose plugin succeeded is, or is about to be, marked in the
\* persistent cache: a failed or refused attempt never suppresses a later scan.
MarkerMeansSuccess == disk \cup marking \subseteq succeeded

\* When Shutdown reports success the workers are through: no plugin call is cut
\* off or still to come, no verdict on a task is outstanding. Only calls that were
\* under way and MarkProcessed goroutines go on.
StoppedIsQuiet == [][pool = "stopped" => UNCHANGED <<phase, task, breakers, history>>]_vars

\* Every call of ProcessTrace returns: under the scan's deadline even when a shutdown
\* leaves its tasks in the queue for ever, and without any deadline, whatever is
\* refused, deduplicated or evicted, unless there is a shutdown.
CallsReturn == <>ctxDone \/ []~ShuttingDown => \A c \in Calls : <>Returned(c)

Service == INSTANCE TraceCalls WITH
  outcome <- got,
  status  <- [c \in Calls |-> IF Returned(c) THEN pc[c] ELSE "open"]

\* The calls, seen from the engine, behave as TraceCalls promises: each plugin
\* resolves once, a normal return has resolved all, nothing changes afterwards
\* although late replies still arrive in the channel of an aborted call.
ImplementsTraceCalls == Service!Spec

\* What deduplication.go:100-104 says of IsDuplicate: "concurrent submissions
\* of the identical task within one run collapse into one".
CollapseIntoOne == \A k \in Keys : executed[k] <= 1

=============================================================================
