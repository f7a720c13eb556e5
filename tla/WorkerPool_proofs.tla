-------------------------- MODULE WorkerPool_proofs --------------------------
(***************************************************************************)
(* Theorems about WorkerPool for any number of calls, plugins and workers  *)
(* and any queue size.                                                     *)
(***************************************************************************)
EXTENDS WorkerPool, FiniteSetTheorems, FunctionTheorems, TLAPS

(***************************************************************************)
(* Types.  TypeOK is inductive together with what the control state says   *)
(* of the plugin a call is submitting and of the task a worker holds.      *)
(***************************************************************************)

Typed == TypeOK /\ CursorShape /\ WorkerShape

LEMMA KeyType == \A c \in Calls, p \in Plugins : Key(c, p) \in Keys
BY CallAssumption DEF Key, Keys

\* The plugin a call is submitting.
LEMMA CursorType ==
  ASSUME Typed, NEW c \in Calls, pc[c] \in {"disk", "mark", "rate", "send"}
  PROVE  cur[c] \in Plugins /\ Key(c, cur[c]) \in Keys
BY KeyType DEF Typed, TypeOK, CallTypeOK, CursorShape

\* The task a worker has taken and not answered yet.
LEMMA HeldType ==
  ASSUME Typed, NEW w \in Workers, phase[w] \in {"picked", "running", "ok", "failed"}
  PROVE  /\ task[w] \in Tasks
         /\ task[w][1] \in Calls
         /\ task[w][2] \in Plugins
         /\ task[w] = <<task[w][1], task[w][2]>>
         /\ HeldKey(w) \in Keys
<1>1. task[w] \in Tasks
  BY DEF Typed, TypeOK, WorkerTypeOK, WorkerShape
<1>. QED
  BY <1>1, KeyType DEF Tasks, HeldKey

LEMMA AnswerType ==
  ASSUME TypeOK, NEW c \in Calls, NEW p \in Plugins,
         NEW kind \in {"traces", "error", "dup"}, Answer(c, p, kind)
  PROVE  replyTo' \in [Calls -> Seq(Reply)]
<1> DEFINE r == [plugin |-> p, kind |-> kind]
<1>1. r \in Reply
  BY DEF Reply
<1>2. replyTo \in [Calls -> Seq(Reply)]
  BY DEF TypeOK, ChannelTypeOK
<1>3. replyTo' = [replyTo EXCEPT ![c] = Append(@, r)]
  BY DEF Answer
<1> HIDE DEF r
<1>. QED
  BY <1>1, <1>2, <1>3

LEMMA TypedInit == Init => Typed
<1> SUFFICES ASSUME Init PROVE Typed
  OBVIOUS
<1>1. CallTypeOK
  BY CallAssumption DEF Init, CallTypeOK
<1>2. ChannelTypeOK
  <2>1. <<>> \in Seq(Reply) /\ <<>> \in Seq(Tasks)
    OBVIOUS
  <2>. QED
    BY <2>1 DEF Init, ChannelTypeOK
<1>3. WorkerTypeOK
  BY DEF Init, WorkerTypeOK
<1>4. RecordTypeOK
  BY DEF Init, RecordTypeOK
<1>5. CursorShape /\ WorkerShape
  BY SetAssumption DEF Init, CursorShape, WorkerShape
<1>. QED
  BY <1>1, <1>2, <1>3, <1>4, <1>5 DEF Typed, TypeOK

\* What a duplicate's answer does to the types; the caller changes the memory.
LEMMA DuplicateTyped ==
  ASSUME Typed, NEW c \in Calls, NEW p \in Plugins, ReturnDuplicate(c, p),
         pc[c] \in {"submit", "disk"},
         todo' \in [Calls -> SUBSET Plugins], memory' \subseteq Keys,
         UNCHANGED <<received, got, ctxDone, queue, phase, task, pool, failures,
                     tripped, marking, disk, executed, succeeded>>
  PROVE  Typed'
<1> USE DEF Typed, TypeOK
<1>1. CallTypeOK'
  <2>1. /\ pc' = [pc EXCEPT ![c] = "submit"]
        /\ cur' = [cur EXCEPT ![c] = NoPlugin]
        /\ submitted' = [submitted EXCEPT ![c] = @ + 1]
    BY DEF ReturnDuplicate
  <2>2. /\ pc' \in [Calls -> {"submit", "disk", "mark", "rate", "send", "done", "aborted"}]
        /\ cur' \in [Calls -> Plugins \cup {NoPlugin}]
        /\ submitted' \in [Calls -> Nat]
    BY <2>1 DEF CallTypeOK
  <2>. QED
    BY <2>2 DEF CallTypeOK
<1>2. CursorShape'
  <2>1. /\ pc' = [pc EXCEPT ![c] = "submit"]
        /\ cur' = [cur EXCEPT ![c] = NoPlugin]
    BY DEF ReturnDuplicate
  <2>. QED
    BY <2>1 DEF CallTypeOK, CursorShape
<1>3. ChannelTypeOK'
  BY AnswerType DEF ReturnDuplicate, ChannelTypeOK
<1>4. WorkerTypeOK' /\ WorkerShape'
  BY DEF WorkerTypeOK, WorkerShape
<1>5. RecordTypeOK'
  BY DEF RecordTypeOK
<1>. QED
  BY <1>1, <1>2, <1>3, <1>4, <1>5

\* What a refusal does to the types; the caller may have changed the memory.
LEMMA RefuseTyped ==
  ASSUME Typed, NEW c \in Calls, Refuse(c), cur[c] \in Plugins,
         memory' \subseteq Keys,
         UNCHANGED <<ctxDone, phase, task, pool, failures, tripped, marking, disk,
                     executed, succeeded>>
  PROVE  Typed'
<1> USE DEF Typed, TypeOK
<1>1. CallTypeOK' /\ CursorShape'
  BY SetAssumption DEF CallTypeOK, CursorShape, Refuse
<1>2. ChannelTypeOK' /\ WorkerTypeOK' /\ WorkerShape'
  BY DEF Refuse, ChannelTypeOK, WorkerTypeOK, WorkerShape
<1>3. RecordTypeOK'
  BY DEF RecordTypeOK
<1>. QED
  BY <1>1, <1>2, <1>3

LEMMA CallTyped ==
  ASSUME Typed, NEW c \in Calls, CallStep(c)
  PROVE  Typed'
<1> USE SetAssumption DEF Typed, TypeOK, poolVars, breakers, dedupVars, history
<1>1. ASSUME NEW p \in Plugins, Submit(c, p) PROVE Typed'
  <2>1. todo' \in [Calls -> SUBSET Plugins]
    BY <1>1 DEF Submit, CallTypeOK
  <2>2. CASE ReturnDuplicate(c, p)
    BY <1>1, <2>1, <2>2, DuplicateTyped DEF Submit, RecordTypeOK
  <2>3. CASE /\ pc' = [pc EXCEPT ![c] = IF Dedup THEN "disk" ELSE "mark"]
             /\ cur' = [cur EXCEPT ![c] = p]
             /\ UNCHANGED <<submitted, replyTo>>
    <3>1. CallTypeOK' /\ CursorShape'
      BY <1>1, <2>1, <2>3 DEF Submit, CallTypeOK, CursorShape
    <3>2. ChannelTypeOK' /\ WorkerTypeOK' /\ WorkerShape' /\ RecordTypeOK'
      BY <1>1, <2>3 DEF Submit, ChannelTypeOK, WorkerTypeOK, WorkerShape, RecordTypeOK
    <3>. QED
      BY <3>1, <3>2
  <2>. QED
    BY <1>1, <2>2, <2>3 DEF Submit
<1>2. ASSUME CheckDisk(c) PROVE Typed'
  <2>1. cur[c] \in Plugins /\ Key(c, cur[c]) \in Keys
    BY <1>2, CursorType DEF CheckDisk
  <2>2. CASE Put(Key(c, cur[c])) /\ ReturnDuplicate(c, cur[c])
    <3>1. memory' \subseteq Keys
      BY <2>1, <2>2 DEF Put, RecordTypeOK
    <3>. QED
      BY <1>2, <2>1, <2>2, <3>1, DuplicateTyped DEF CheckDisk, CallTypeOK
  <2>3. CASE pc' = [pc EXCEPT ![c] = "mark"] /\ UNCHANGED <<submitted, cur, replyTo, memory>>
    BY <1>2, <2>3
    DEF CheckDisk, CallTypeOK, CursorShape, ChannelTypeOK, WorkerTypeOK, WorkerShape, RecordTypeOK
  <2>. QED
    BY <1>2, <2>2, <2>3 DEF CheckDisk
<1>3. ASSUME MarkAndCheckBreaker(c) PROVE Typed'
  <2>1. cur[c] \in Plugins /\ Key(c, cur[c]) \in Keys
    BY <1>3, CursorType DEF MarkAndCheckBreaker
  <2>2. memory' \subseteq Keys
    BY <1>3, <2>1 DEF MarkAndCheckBreaker, Put, RecordTypeOK
  <2>3. CASE Refuse(c)
    BY <1>3, <2>1, <2>2, <2>3, RefuseTyped DEF MarkAndCheckBreaker
  <2>4. CASE /\ pc' = [pc EXCEPT ![c] = "rate"]
             /\ UNCHANGED <<todo, cur, submitted, received, got, replyTo, queue>>
    <3>1. CallTypeOK' /\ CursorShape'
      BY <1>3, <2>4 DEF MarkAndCheckBreaker, CallTypeOK, CursorShape
    <3>2. ChannelTypeOK' /\ WorkerTypeOK' /\ WorkerShape' /\ RecordTypeOK'
      BY <1>3, <2>2, <2>4
      DEF MarkAndCheckBreaker, ChannelTypeOK, WorkerTypeOK, WorkerShape, RecordTypeOK
    <3>. QED
      BY <3>1, <3>2
  <2>. QED
    BY <1>3, <2>3, <2>4 DEF MarkAndCheckBreaker
<1>4. ASSUME RateAllowed(c) PROVE Typed'
  BY <1>4
  DEF RateAllowed, CallTypeOK, CursorShape, ChannelTypeOK, WorkerTypeOK, WorkerShape, RecordTypeOK
<1>5. ASSUME RateRefused(c) \/ QueueRefused(c) PROVE Typed'
  <2>1. cur[c] \in Plugins /\ memory' \subseteq Keys
    BY <1>5, CursorType DEF RateRefused, QueueRefused, RecordTypeOK
  <2>. QED
    BY <1>5, <2>1, RefuseTyped DEF RateRefused, QueueRefused
<1>6. ASSUME Enqueue(c) PROVE Typed'
  <2>1. cur[c] \in Plugins
    BY <1>6, CursorType DEF Enqueue
  <2>2. CallTypeOK' /\ CursorShape'
    BY <1>6 DEF Enqueue, CallTypeOK, CursorShape
  <2>3. <<c, cur[c]>> \in Tasks
    BY <2>1 DEF Tasks
  <2>4. ChannelTypeOK'
    BY <1>6, <2>3 DEF Enqueue, ChannelTypeOK
  <2>5. WorkerTypeOK' /\ WorkerShape' /\ RecordTypeOK'
    BY <1>6 DEF Enqueue, WorkerTypeOK, WorkerShape, RecordTypeOK
  <2>. QED
    BY <2>2, <2>4, <2>5
<1>7. ASSUME Collect(c) PROVE Typed'
  <2>1. Head(replyTo[c]) \in Reply /\ Tail(replyTo[c]) \in Seq(Reply)
    BY <1>7 DEF Collect, ChannelTypeOK
  <2>2. CallTypeOK' /\ CursorShape'
    BY <1>7, <2>1 DEF Collect, CallTypeOK, CursorShape, Reply
  <2>3. ChannelTypeOK'
    BY <1>7, <2>1 DEF Collect, ChannelTypeOK
  <2>4. WorkerTypeOK' /\ WorkerShape' /\ RecordTypeOK'
    BY <1>7 DEF Collect, WorkerTypeOK, WorkerShape, RecordTypeOK
  <2>. QED
    BY <2>2, <2>3, <2>4
<1>8. ASSUME Abort(c) \/ Return(c) PROVE Typed'
  <2>1. CallTypeOK' /\ CursorShape'
    BY <1>8 DEF Abort, Return, Collecting, CallTypeOK, CursorShape
  <2>2. ChannelTypeOK' /\ WorkerTypeOK' /\ WorkerShape' /\ RecordTypeOK'
    BY <1>8 DEF Abort, Return, ChannelTypeOK, WorkerTypeOK, WorkerShape, RecordTypeOK
  <2>. QED
    BY <2>1, <2>2
<1>. QED
  BY <1>1, <1>2, <1>3, <1>4, <1>5, <1>6, <1>7, <1>8 DEF CallStep

LEMMA WorkerTyped ==
  ASSUME Typed, NEW w \in Workers, WorkerStep(w)
  PROVE  Typed'
<1> USE SetAssumption DEF Typed, TypeOK, callVars, breakers, dedupVars, history
<1>1. ASSUME TakeTask(w) PROVE Typed'
  <2>1. Head(queue) \in Tasks /\ Tail(queue) \in Seq(Tasks)
    BY <1>1 DEF TakeTask, ChannelTypeOK
  <2>2. WorkerTypeOK' /\ WorkerShape'
    BY <1>1, <2>1 DEF TakeTask, WorkerTypeOK, WorkerShape, Tasks
  <2>3. CallTypeOK' /\ CursorShape' /\ ChannelTypeOK' /\ RecordTypeOK'
    BY <1>1, <2>1 DEF TakeTask, CallTypeOK, CursorShape, ChannelTypeOK, RecordTypeOK
  <2>. QED
    BY <2>2, <2>3
<1>2. ASSUME StartPlugin(w) \/ PluginSucceeds(w) \/ TaskFails(w) PROVE Typed'
  <2>1. phase[w] \in {"picked", "running"}
    BY <1>2 DEF StartPlugin, PluginSucceeds, TaskFails
  <2>2. HeldKey(w) \in Keys
    BY <2>1, HeldType
  <2>3. RecordTypeOK'
    <3>1. CASE StartPlugin(w)
      BY <2>2, <3>1 DEF StartPlugin, RecordTypeOK
    <3>2. CASE PluginSucceeds(w)
      BY <2>2, <3>2 DEF PluginSucceeds, RecordTaskResult, RecordSuccess, RecordTypeOK
    <3>3. CASE TaskFails(w)
      <4>1. failures' \in [Keys -> Nat]
        BY <3>3 DEF TaskFails, RecordTaskResult, RecordFailure, RecordTypeOK
      <4>2. tripped' \in [Keys -> BOOLEAN]
        <5> DEFINE over == failures[HeldKey(w)] + 1 >= Threshold
        <5>1. tripped' = [tripped EXCEPT ![HeldKey(w)] = @ \/ over]
          BY <3>3 DEF TaskFails, RecordTaskResult, RecordFailure
        <5>2. tripped \in [Keys -> BOOLEAN]
          BY DEF RecordTypeOK
        <5> HIDE DEF over
        <5>. QED
          BY <5>1, <5>2
      <4>3. UNCHANGED <<memory, marking, disk, executed, succeeded>>
        BY <3>3 DEF TaskFails, RecordTaskResult
      <4>. QED
        BY <4>1, <4>2, <4>3 DEF RecordTypeOK
    <3>. QED
      BY <1>2, <3>1, <3>2, <3>3
  <2>4. WorkerTypeOK' /\ WorkerShape'
    BY <1>2, <2>1 DEF StartPlugin, PluginSucceeds, TaskFails, WorkerTypeOK, WorkerShape
  <2>5. CallTypeOK' /\ CursorShape' /\ ChannelTypeOK'
    BY <1>2
    DEF StartPlugin, PluginSucceeds, TaskFails, CallTypeOK, CursorShape, ChannelTypeOK
  <2>. QED
    BY <2>3, <2>4, <2>5
<1>3. ASSUME SendReply(w) PROVE Typed'
  <2>1. /\ task[w][1] \in Calls
        /\ task[w][2] \in Plugins
        /\ ReplyKind(w) \in {"traces", "error", "dup"}
    BY <1>3, HeldType DEF SendReply, ReplyKind
  <2>2. ChannelTypeOK'
    BY <1>3, <2>1, AnswerType DEF SendReply, Deliver, ChannelTypeOK
  <2>3. WorkerTypeOK' /\ WorkerShape'
    BY <1>3 DEF SendReply, WorkerTypeOK, WorkerShape
  <2>4. CallTypeOK' /\ CursorShape' /\ RecordTypeOK'
    BY <1>3 DEF SendReply, CallTypeOK, CursorShape, RecordTypeOK
  <2>. QED
    BY <2>2, <2>3, <2>4
<1>4. ASSUME Exit(w) PROVE Typed'
  BY <1>4
  DEF Exit, CallTypeOK, CursorShape, ChannelTypeOK, WorkerTypeOK, WorkerShape, RecordTypeOK
<1>. QED
  BY <1>1, <1>2, <1>3, <1>4 DEF WorkerStep

LEMMA TypedNext == Typed /\ [Next]_vars => Typed'
<1> SUFFICES ASSUME Typed, [Next]_vars PROVE Typed'
  OBVIOUS
<1> USE DEF Typed, TypeOK, callVars, poolVars, breakers, dedupVars, history, CallTypeOK,
            CursorShape, ChannelTypeOK, WorkerTypeOK, WorkerShape, RecordTypeOK
<1>1. ASSUME NEW k \in Keys, WriteMarker(k) PROVE Typed'
  BY <1>1 DEF WriteMarker
<1>2. CASE BeginShutdown \/ EndShutdown
  BY <1>2 DEF BeginShutdown, EndShutdown
<1>3. CASE Expire
  BY <1>3 DEF Expire
<1>4. CASE UNCHANGED vars
  BY <1>4 DEF vars
<1>. QED
  BY <1>1, <1>2, <1>3, <1>4, CallTyped, WorkerTyped DEF Next, AllReturned

\* Every variable keeps its type.
THEOREM TypeCorrect == Spec => []TypeOK
<1>1. Typed => TypeOK
  BY DEF Typed
<1>. QED
  BY TypedInit, TypedNext, <1>1, PTL DEF Spec

(***************************************************************************)
(* What needs no accounting.                                               *)
(***************************************************************************)

\* A key is, or is about to be, marked in the persistent cache only if its
\* plugin succeeded, in this process or in an earlier one.
THEOREM MarkersAreEarned == Spec => []MarkerMeansSuccess
<1>1. Init => MarkerMeansSuccess
  BY DEF Init, MarkerMeansSuccess
<1>2. MarkerMeansSuccess /\ [Next]_vars => MarkerMeansSuccess'
  <2> SUFFICES ASSUME MarkerMeansSuccess, [Next]_vars PROVE MarkerMeansSuccess'
    OBVIOUS
  <2> USE DEF MarkerMeansSuccess, breakers, dedupVars, history
  <2>1. ASSUME NEW c \in Calls, CallStep(c) PROVE MarkerMeansSuccess'
    BY <2>1
    DEF CallStep, Submit, CheckDisk, MarkAndCheckBreaker, RateAllowed, RateRefused,
        Enqueue, QueueRefused, Collect, Abort, Return
  <2>2. ASSUME NEW w \in Workers, WorkerStep(w) PROVE MarkerMeansSuccess'
    <3>1. CASE PluginSucceeds(w)
      BY <3>1 DEF PluginSucceeds, RecordTaskResult
    <3>2. CASE TaskFails(w)
      BY <3>2 DEF TaskFails, RecordTaskResult
    <3>3. CASE TakeTask(w) \/ StartPlugin(w) \/ SendReply(w) \/ Exit(w)
      BY <3>3 DEF TakeTask, StartPlugin, SendReply, Exit
    <3>. QED
      BY <2>2, <3>1, <3>2, <3>3 DEF WorkerStep
  <2>3. ASSUME NEW k \in Keys, WriteMarker(k) PROVE MarkerMeansSuccess'
    BY <2>3 DEF WriteMarker
  <2>4. CASE BeginShutdown \/ EndShutdown \/ Expire \/ AllReturned \/ UNCHANGED vars
    BY <2>4 DEF BeginShutdown, EndShutdown, Expire, AllReturned, vars
  <2>. QED
    BY <2>1, <2>2, <2>3, <2>4 DEF Next
<1>. QED
  BY <1>1, <1>2, PTL DEF Spec

\* The workers of a pool that Shutdown reported stopped have all exited.
StoppedMeansExited == pool = "stopped" => WorkersDone

\* After a Shutdown without error no worker takes, runs or records a task.
THEOREM StoppedStaysQuiet == Spec => StoppedIsQuiet
<1> USE DEF StoppedMeansExited, WorkersDone
<1>1. Init => StoppedMeansExited
  BY DEF Init
<1>2. ASSUME NEW w \in Workers, WorkerStep(w), TypeOK
      PROVE  /\ pool' = pool
             /\ phase[w] # "exited"
  BY <1>2 DEF WorkerStep, TakeTask, StartPlugin, PluginSucceeds, TaskFails, SendReply, Exit
<1>3. TypeOK /\ StoppedMeansExited /\ [Next]_vars =>
        /\ StoppedMeansExited'
        /\ pool = "stopped" => UNCHANGED <<phase, task, breakers, history>>
  <2> SUFFICES ASSUME TypeOK, StoppedMeansExited, [Next]_vars
               PROVE  /\ StoppedMeansExited'
                      /\ pool = "stopped" => UNCHANGED <<phase, task, breakers, history>>
    OBVIOUS
  <2> USE DEF poolVars
  <2>1. CASE \E c \in Calls : CallStep(c)
    BY <2>1
    DEF CallStep, Submit, CheckDisk, MarkAndCheckBreaker, RateAllowed, RateRefused,
        Enqueue, QueueRefused, Collect, Abort, Return
  <2>2. ASSUME NEW w \in Workers, WorkerStep(w)
        PROVE  pool # "stopped" /\ pool' # "stopped"
    BY <1>2, <2>2
  <2>3. CASE \/ \E k \in Keys : WriteMarker(k)
             \/ BeginShutdown \/ EndShutdown \/ Expire \/ AllReturned \/ UNCHANGED vars
    BY <2>3
    DEF WriteMarker, BeginShutdown, EndShutdown, Expire, AllReturned, vars, breakers, history
  <2>. QED
    BY <2>1, <2>2, <2>3 DEF Next
<1>. QED
  BY <1>1, <1>3, TypeCorrect, PTL DEF Spec, StoppedIsQuiet

-------------------------------------------------------------------------------
(***************************************************************************)
(* The accounting of replies: every accepted task is in one place until    *)
(* its reply is collected, so no reply is lost, no send on a reply channel *)
(* waits, and counting replies is enough for ProcessTrace.                 *)
(***************************************************************************)

(***************************************************************************)
(* Sequences: what a send and a receive do to the elements of a channel.   *)
(***************************************************************************)

LEMMA AppendElements ==
  ASSUME NEW S, NEW s \in Seq(S), NEW e \in S
  PROVE  /\ Append(s, e) \in Seq(S)
         /\ Len(s) + 1 \notin DOMAIN s
         /\ DOMAIN Append(s, e) = DOMAIN s \cup {Len(s) + 1}
         /\ Append(s, e)[Len(s) + 1] = e
         /\ \A i \in DOMAIN s : Append(s, e)[i] = s[i]
OBVIOUS

LEMMA TailElements ==
  ASSUME NEW S, NEW s \in Seq(S), s # <<>>
  PROVE  /\ Tail(s) \in Seq(S)
         /\ 1 \in DOMAIN s
         /\ Head(s) = s[1]
         /\ \A i \in DOMAIN Tail(s) : i + 1 \in DOMAIN s /\ Tail(s)[i] = s[i + 1]
         /\ \A i \in DOMAIN s : i # 1 => i - 1 \in DOMAIN Tail(s) /\ Tail(s)[i - 1] = s[i]
         /\ \A i \in DOMAIN Tail(s) : i \in Nat \ {0}
         /\ \A i \in DOMAIN s : i \in Nat \ {0}
OBVIOUS

(***************************************************************************)
(* Places: what a send and a receive do to the places of a task.            *)
(***************************************************************************)

Counted == OwedCounted /\ OnlyOwed /\ NoReplyLost /\ OneCopy
IInv == Typed /\ CallShape /\ Counted

LEMMA OwedFinite ==
  \A c \in Calls : IsFiniteSet(Owed(c)) /\ Cardinality(Owed(c)) \in Nat
<1> TAKE c \in Calls
<1>1. Owed(c) \in SUBSET Plugins
  BY CallAssumption DEF Owed
<1>2. IsFiniteSet(Owed(c))
  BY <1>1, SetAssumption, FS_Subset
<1>. QED
  BY <1>2, FS_CardinalityType

\* A reply for plugin p is put in the channel of call c.
LEMMA AnswerPlaces ==
  ASSUME Typed, OneCopy, NEW c \in Calls, NEW p \in Plugins,
         NEW kind \in {"traces", "error", "dup"}, Answer(c, p, kind), ~Answered(c, p)
  PROVE  /\ \A d \in Calls, q \in Plugins :
              Answered(d, q)' <=> Answered(d, q) \/ (d = c /\ q = p)
         /\ \A d \in Calls : \A i, j \in DOMAIN replyTo'[d] :
              replyTo'[d][i].plugin = replyTo'[d][j].plugin => i = j
<1> DEFINE r == [plugin |-> p, kind |-> kind]
<1>1. r \in Reply /\ r.plugin = p
  BY DEF Reply
<1>2. replyTo \in [Calls -> Seq(Reply)]
  BY DEF Typed, TypeOK, ChannelTypeOK
<1>3. replyTo' = [replyTo EXCEPT ![c] = Append(replyTo[c], r)]
  BY DEF Answer
<1>4. replyTo[c] \in Seq(Reply)
  BY <1>2
<1> HIDE DEF r
<1>5. /\ Len(replyTo[c]) + 1 \notin DOMAIN replyTo[c]
      /\ DOMAIN replyTo'[c] = DOMAIN replyTo[c] \cup {Len(replyTo[c]) + 1}
      /\ replyTo'[c][Len(replyTo[c]) + 1] = r
      /\ \A i \in DOMAIN replyTo[c] : replyTo'[c][i] = replyTo[c][i]
  BY <1>1, <1>2, <1>3, <1>4, AppendElements
<1>6. \A d \in Calls : d # c => replyTo'[d] = replyTo[d]
  BY <1>2, <1>3
<1>7. \A d \in Calls, q \in Plugins :
        Answered(d, q)' <=> Answered(d, q) \/ (d = c /\ q = p)
  BY <1>1, <1>5, <1>6 DEF Answered
<1>8. \A d \in Calls : \A i, j \in DOMAIN replyTo'[d] :
        replyTo'[d][i].plugin = replyTo'[d][j].plugin => i = j
  BY <1>1, <1>5, <1>6 DEF OneCopy, Answered
<1>. QED
  BY <1>7, <1>8

\* A call takes the first reply out of its channel.
LEMMA CollectPlaces ==
  ASSUME Typed, OneCopy, NEW c \in Calls, replyTo[c] # <<>>,
         replyTo' = [replyTo EXCEPT ![c] = Tail(@)]
  PROVE  /\ Head(replyTo[c]) \in Reply
         /\ Head(replyTo[c]).plugin \in Plugins
         /\ Answered(c, Head(replyTo[c]).plugin)
         /\ \A d \in Calls, q \in Plugins :
              Answered(d, q)' <=>
                Answered(d, q) /\ ~(d = c /\ q = Head(replyTo[c]).plugin)
         /\ \A d \in Calls : \A i, j \in DOMAIN replyTo'[d] :
              replyTo'[d][i].plugin = replyTo'[d][j].plugin => i = j
<1>1. replyTo \in [Calls -> Seq(Reply)] /\ replyTo[c] \in Seq(Reply)
  BY DEF Typed, TypeOK, ChannelTypeOK
<1>2. replyTo'[c] = Tail(replyTo[c])
  BY <1>1
<1>3. \A d \in Calls : d # c => replyTo'[d] = replyTo[d]
  BY <1>1
<1> DEFINE s == replyTo[c]
<1>4. /\ 1 \in DOMAIN s
      /\ Head(s) = s[1]
      /\ \A i \in DOMAIN Tail(s) : i + 1 \in DOMAIN s /\ Tail(s)[i] = s[i + 1]
      /\ \A i \in DOMAIN s : i # 1 => i - 1 \in DOMAIN Tail(s) /\ Tail(s)[i - 1] = s[i]
      /\ \A i \in DOMAIN Tail(s) : i \in Nat \ {0}
      /\ \A i \in DOMAIN s : i \in Nat \ {0}
  BY <1>1, TailElements
<1>5. s[1] \in Reply /\ s[1].plugin \in Plugins
  <2>1. s[1] \in Reply
    BY <1>1, <1>4
  <2>. QED
    BY <2>1 DEF Reply
<1>6. \A i, j \in DOMAIN s : s[i].plugin = s[j].plugin => i = j
  <2>1. \A d \in Calls : \A i, j \in DOMAIN replyTo[d] :
          replyTo[d][i].plugin = replyTo[d][j].plugin => i = j
    BY DEF OneCopy
  <2>. QED
    BY <2>1
<1> HIDE DEF s
<1>7. \A q \in Plugins : (\E i \in DOMAIN Tail(s) : Tail(s)[i].plugin = q) <=>
                         (\E i \in DOMAIN s : s[i].plugin = q) /\ q # s[1].plugin
  <2> TAKE q \in Plugins
  <2>1. ASSUME NEW i \in DOMAIN Tail(s), Tail(s)[i].plugin = q
        PROVE  i + 1 \in DOMAIN s /\ s[i + 1].plugin = q /\ q # s[1].plugin
    BY <1>4, <1>6, <2>1
  <2>2. ASSUME NEW i \in DOMAIN s, s[i].plugin = q, q # s[1].plugin
        PROVE  i - 1 \in DOMAIN Tail(s) /\ Tail(s)[i - 1].plugin = q
    BY <1>4, <2>2
  <2>. QED
    BY <2>1, <2>2
<1>8. \A i, j \in DOMAIN Tail(s) : Tail(s)[i].plugin = Tail(s)[j].plugin => i = j
  BY <1>4, <1>6
<1>9. \A d \in Calls, q \in Plugins :
        Answered(d, q)' <=> Answered(d, q) /\ ~(d = c /\ q = s[1].plugin)
  <2> TAKE d \in Calls, q \in Plugins
  <2>1. CASE d = c
    <3>1. Answered(c, q) <=> \E i \in DOMAIN s : s[i].plugin = q
      BY DEF Answered, s
    <3>2. replyTo'[c] = Tail(s)
      BY <1>2 DEF s
    <3>3. Answered(c, q)' <=> \E i \in DOMAIN Tail(s) : Tail(s)[i].plugin = q
      BY <3>2 DEF Answered
    <3>. QED
      BY <1>7, <2>1, <3>1, <3>3
  <2>2. CASE d # c
    BY <1>3, <2>2 DEF Answered
  <2>. QED
    BY <2>1, <2>2
<1>10. \A d \in Calls : \A i, j \in DOMAIN replyTo'[d] :
         replyTo'[d][i].plugin = replyTo'[d][j].plugin => i = j
  BY <1>2, <1>3, <1>8 DEF OneCopy, s
<1>. QED
  BY <1>4, <1>5, <1>9, <1>10 DEF Answered, s

\* A task is appended to the queue.
LEMMA EnqueuePlaces ==
  ASSUME Typed, OneCopy, NEW c \in Calls, NEW p \in Plugins, ~InQueue(c, p),
         queue' = Append(queue, <<c, p>>)
  PROVE  /\ \A d \in Calls, q \in Plugins :
              InQueue(d, q)' <=> InQueue(d, q) \/ (d = c /\ q = p)
         /\ \A i, j \in DOMAIN queue' : queue'[i] = queue'[j] => i = j
<1>1. queue \in Seq(Tasks) /\ <<c, p>> \in Tasks
  BY DEF Typed, TypeOK, ChannelTypeOK, Tasks
<1>2. /\ Len(queue) + 1 \notin DOMAIN queue
      /\ DOMAIN queue' = DOMAIN queue \cup {Len(queue) + 1}
      /\ queue'[Len(queue) + 1] = <<c, p>>
      /\ \A i \in DOMAIN queue : queue'[i] = queue[i]
  BY <1>1, AppendElements
<1>3. \A d \in Calls, q \in Plugins : InQueue(d, q)' <=> InQueue(d, q) \/ (d = c /\ q = p)
  BY <1>2 DEF InQueue
<1>4. \A i, j \in DOMAIN queue' : queue'[i] = queue'[j] => i = j
  BY <1>2 DEF OneCopy, InQueue
<1>. QED
  BY <1>3, <1>4

\* The first task is taken out of the queue.
LEMMA DequeuePlaces ==
  ASSUME Typed, OneCopy, queue # <<>>, queue' = Tail(queue)
  PROVE  /\ Head(queue) \in Tasks
         /\ \A d \in Calls, q \in Plugins : Head(queue) = <<d, q>> => InQueue(d, q)
         /\ \A d \in Calls, q \in Plugins :
              InQueue(d, q)' <=> InQueue(d, q) /\ Head(queue) # <<d, q>>
         /\ \A i, j \in DOMAIN queue' : queue'[i] = queue'[j] => i = j
<1>1. queue \in Seq(Tasks)
  BY DEF Typed, TypeOK, ChannelTypeOK
<1>2. /\ 1 \in DOMAIN queue
      /\ Head(queue) = queue[1]
      /\ \A i \in DOMAIN queue' : i + 1 \in DOMAIN queue /\ queue'[i] = queue[i + 1]
      /\ \A i \in DOMAIN queue : i # 1 => i - 1 \in DOMAIN queue' /\ queue'[i - 1] = queue[i]
      /\ \A i \in DOMAIN queue' : i \in Nat \ {0}
      /\ \A i \in DOMAIN queue : i \in Nat \ {0}
  BY <1>1, TailElements
<1>3. \A i, j \in DOMAIN queue : queue[i] = queue[j] => i = j
  BY DEF OneCopy
<1>4. Head(queue) \in Tasks
  BY <1>1, <1>2
<1>5. \A d \in Calls, q \in Plugins :
        InQueue(d, q)' <=> InQueue(d, q) /\ Head(queue) # <<d, q>>
  <2> TAKE d \in Calls, q \in Plugins
  <2>1. ASSUME NEW i \in DOMAIN queue', queue'[i] = <<d, q>>
        PROVE  i + 1 \in DOMAIN queue /\ queue[i + 1] = <<d, q>> /\ queue[1] # <<d, q>>
    BY <1>2, <1>3, <2>1
  <2>2. ASSUME NEW i \in DOMAIN queue, queue[i] = <<d, q>>, queue[1] # <<d, q>>
        PROVE  i - 1 \in DOMAIN queue' /\ queue'[i - 1] = <<d, q>>
    BY <1>2, <2>2
  <2>. QED
    BY <1>2, <2>1, <2>2 DEF InQueue
<1>6. \A i, j \in DOMAIN queue' : queue'[i] = queue'[j] => i = j
  BY <1>2, <1>3
<1>. QED
  BY <1>2, <1>4, <1>5, <1>6 DEF InQueue

(***************************************************************************)
(* The five ways a step touches what is counted.                           *)
(***************************************************************************)

\* It touches nothing.
LEMMA FrameCounted ==
  ASSUME Counted, UNCHANGED <<queue, task, replyTo, submitted, received>>,
         \A d \in Calls : Owed(d)' = Owed(d)
  PROVE  Counted'
<1>1. \A d \in Calls, q \in Plugins :
        /\ InQueue(d, q)' <=> InQueue(d, q)
        /\ Held(d, q)' <=> Held(d, q)
        /\ Answered(d, q)' <=> Answered(d, q)
  BY DEF InQueue, Held, Answered
<1>2. OwedCounted'
  BY DEF Counted, OwedCounted
<1>3. OnlyOwed'
  BY <1>1 DEF Counted, OnlyOwed
<1>4. NoReplyLost'
  <2>1. \A d \in Calls : \A q \in Owed(d) : q \in Plugins
    BY CallAssumption DEF Owed
  <2>. QED
    BY <1>1, <2>1 DEF Counted, NoReplyLost
<1>5. OneCopy'
  BY <1>1 DEF Counted, OneCopy
<1>. QED
  BY <1>2, <1>3, <1>4, <1>5 DEF Counted

\* Submit accepts a task: it queues it, or answers a duplicate itself.
LEMMA AcceptCounted ==
  ASSUME IInv, NEW c \in Calls, NEW p \in Plugins, p \notin Owed(c),
         \A d \in Calls : Owed(d)' = IF d = c THEN Owed(c) \cup {p} ELSE Owed(d),
         submitted' = [submitted EXCEPT ![c] = @ + 1], UNCHANGED <<received, task>>,
         \/ Answer(c, p, "dup") /\ UNCHANGED queue
         \/ queue' = Append(queue, <<c, p>>) /\ UNCHANGED replyTo
  PROVE  Counted'
<1>1. ~InQueue(c, p) /\ ~Held(c, p) /\ ~Answered(c, p)
  BY DEF IInv, Counted, OnlyOwed
<1>2. \A d \in Calls, q \in Plugins : Held(d, q)' <=> Held(d, q)
  BY DEF Held
<1>3. /\ \A d \in Calls, q \in Plugins :
           InQueue(d, q)' \/ Answered(d, q)' <=>
             InQueue(d, q) \/ Answered(d, q) \/ (d = c /\ q = p)
      /\ OneCopy'
  <2>1. CASE Answer(c, p, "dup") /\ UNCHANGED queue
    <3>1. /\ \A d \in Calls, q \in Plugins :
               Answered(d, q)' <=> Answered(d, q) \/ (d = c /\ q = p)
          /\ \A d \in Calls : \A i, j \in DOMAIN replyTo'[d] :
               replyTo'[d][i].plugin = replyTo'[d][j].plugin => i = j
      BY <1>1, <2>1, AnswerPlaces DEF IInv, Counted
    <3>2. \A d \in Calls, q \in Plugins : InQueue(d, q)' <=> InQueue(d, q)
      BY <2>1 DEF InQueue
    <3>. QED
      BY <1>1, <1>2, <2>1, <3>1, <3>2 DEF IInv, Counted, OneCopy
  <2>2. CASE queue' = Append(queue, <<c, p>>) /\ UNCHANGED replyTo
    <3>1. /\ \A d \in Calls, q \in Plugins :
               InQueue(d, q)' <=> InQueue(d, q) \/ (d = c /\ q = p)
          /\ \A i, j \in DOMAIN queue' : queue'[i] = queue'[j] => i = j
      BY <1>1, <2>2, EnqueuePlaces DEF IInv, Counted
    <3>2. \A d \in Calls, q \in Plugins : Answered(d, q)' <=> Answered(d, q)
      BY <2>2 DEF Answered
    <3>. QED
      BY <1>1, <1>2, <2>2, <3>1, <3>2 DEF IInv, Counted, OneCopy
  <2>. QED
    BY <2>1, <2>2
<1>4. OwedCounted'
  <2> SUFFICES ASSUME NEW d \in Calls
               PROVE  (submitted[d] = received[d] + Cardinality(Owed(d)))'
    BY DEF OwedCounted
  <2>1. submitted \in [Calls -> Nat] /\ received \in [Calls -> Nat]
    BY DEF IInv, Typed, TypeOK, CallTypeOK
  <2>2. Cardinality(Owed(c) \cup {p}) = Cardinality(Owed(c)) + 1
    BY OwedFinite, FS_AddElement
  <2>3. submitted[d] = received[d] + Cardinality(Owed(d))
    BY DEF IInv, Counted, OwedCounted
  <2>4. Cardinality(Owed(d)) \in Nat
    BY OwedFinite
  <2>5. CASE d = c
    <3>1. Cardinality(Owed(d)') = Cardinality(Owed(d)) + 1
      BY <2>2, <2>5
    <3>. QED
      BY <2>1, <2>3, <2>4, <2>5, <3>1
  <2>6. CASE d # c
    BY <2>1, <2>3, <2>6
  <2>. QED
    BY <2>5, <2>6
<1>5. OnlyOwed'
  BY <1>2, <1>3 DEF IInv, Counted, OnlyOwed
<1>6. NoReplyLost'
  <2>1. \A d \in Calls : \A q \in Owed(d) : q \in Plugins
    BY CallAssumption DEF Owed
  <2>. QED
    BY <1>2, <1>3, <2>1 DEF IInv, Counted, NoReplyLost
<1>. QED
  BY <1>3, <1>4, <1>5, <1>6 DEF Counted

\* A worker takes the first task of the queue.
LEMMA TakeCounted ==
  ASSUME IInv, NEW w \in Workers, TakeTask(w)
  PROVE  Counted'
<1> DEFINE c == Head(queue)[1]
           p == Head(queue)[2]
<1>1. /\ queue # <<>>
      /\ queue' = Tail(queue)
      /\ task' = [task EXCEPT ![w] = Head(queue)]
      /\ phase[w] = "idle"
      /\ UNCHANGED <<pc, todo, cur, submitted, received, got, replyTo>>
  BY DEF TakeTask, callVars
<1>2. /\ Head(queue) \in Tasks
      /\ \A d \in Calls, q \in Plugins : Head(queue) = <<d, q>> => InQueue(d, q)
      /\ \A d \in Calls, q \in Plugins :
           InQueue(d, q)' <=> InQueue(d, q) /\ Head(queue) # <<d, q>>
      /\ \A i, j \in DOMAIN queue' : queue'[i] = queue'[j] => i = j
  BY <1>1, DequeuePlaces DEF IInv, Counted
<1>3. c \in Calls /\ p \in Plugins /\ Head(queue) = <<c, p>> /\ Head(queue) # NoTask
  BY <1>2, SetAssumption DEF Tasks
<1>4. InQueue(c, p) /\ ~Held(c, p)
  BY <1>2, <1>3 DEF IInv, Counted, OneCopy
<1> HIDE DEF c, p
<1>5. task \in [Workers -> Tasks \cup {NoTask}] /\ task[w] = NoTask
  BY <1>1 DEF IInv, Typed, TypeOK, WorkerTypeOK, WorkerShape
<1>6. \A d \in Calls, q \in Plugins : Held(d, q)' <=> Held(d, q) \/ (d = c /\ q = p)
  <2> TAKE d \in Calls, q \in Plugins
  <2>1. task'[w] = <<c, p>>
    BY <1>1, <1>3, <1>5
  <2>2. \A v \in Workers : v # w => task'[v] = task[v]
    BY <1>1, <1>5
  <2>3. task[w] # <<d, q>>
    BY <1>5, SetAssumption
  <2>. QED
    BY <2>1, <2>2, <2>3 DEF Held
<1>7. \A d \in Calls, q \in Plugins : InQueue(d, q)' <=> InQueue(d, q) /\ ~(d = c /\ q = p)
  BY <1>2, <1>3
<1>8. \A d \in Calls, q \in Plugins : Answered(d, q)' <=> Answered(d, q)
  BY <1>1 DEF Answered
<1>9. \A v, u \in Workers : task'[v] # NoTask /\ task'[v] = task'[u] => v = u
  <2> TAKE v, u \in Workers
  <2>1. \A x \in Workers : x # w => task'[x] = task[x] /\ task'[x] # <<c, p>>
    BY <1>1, <1>4, <1>5 DEF Held
  <2>2. task'[w] = <<c, p>>
    BY <1>1, <1>3, <1>5
  <2>. QED
    BY <2>1, <2>2 DEF IInv, Counted, OneCopy
<1>10. \A d \in Calls : Owed(d)' = Owed(d)
  BY <1>1 DEF Owed
<1>11. OneCopy'
  BY <1>1, <1>2, <1>4, <1>6, <1>7, <1>8, <1>9 DEF IInv, Counted, OneCopy
<1>12. OwedCounted'
  BY <1>1, <1>10 DEF IInv, Counted, OwedCounted
<1>13. OnlyOwed'
  BY <1>4, <1>6, <1>7, <1>8, <1>10 DEF IInv, Counted, OnlyOwed
<1>14. NoReplyLost'
  <2>1. \A d \in Calls : \A q \in Owed(d) : q \in Plugins
    BY CallAssumption DEF Owed
  <2>. QED
    BY <1>6, <1>7, <1>8, <1>10, <2>1 DEF IInv, Counted, NoReplyLost
<1>. QED
  BY <1>11, <1>12, <1>13, <1>14 DEF Counted

\* A worker answers the task it holds and lets it go.
LEMMA ReplyCounted ==
  ASSUME IInv, NEW w \in Workers, SendReply(w)
  PROVE  Counted'
<1> DEFINE c == task[w][1]
           p == task[w][2]
<1>1. /\ phase[w] \in {"ok", "failed"}
      /\ task' = [task EXCEPT ![w] = NoTask]
      /\ Answer(c, p, ReplyKind(w))
      /\ ReplyKind(w) \in {"traces", "error", "dup"}
      /\ UNCHANGED <<pc, todo, cur, submitted, received, got, queue>>
  BY DEF SendReply, Deliver, callVars, ReplyKind
<1>2. c \in Calls /\ p \in Plugins /\ task[w] = <<c, p>>
  BY <1>1, HeldType DEF IInv
<1> HIDE DEF c, p
<1>3. Held(c, p) /\ ~InQueue(c, p) /\ ~Answered(c, p)
  BY <1>2 DEF IInv, Counted, OneCopy, Held
<1>4. /\ \A d \in Calls, q \in Plugins :
           Answered(d, q)' <=> Answered(d, q) \/ (d = c /\ q = p)
      /\ \A d \in Calls : \A i, j \in DOMAIN replyTo'[d] :
           replyTo'[d][i].plugin = replyTo'[d][j].plugin => i = j
  BY <1>1, <1>2, <1>3, AnswerPlaces DEF IInv, Counted
<1>5. /\ task \in [Workers -> Tasks \cup {NoTask}]
      /\ \A v \in Workers : v # w => task'[v] = task[v]
      /\ task'[w] = NoTask
  BY <1>1 DEF IInv, Typed, TypeOK, WorkerTypeOK
<1>6. \A v \in Workers : v # w => task[v] # <<c, p>>
  <2>1. <<c, p>> # NoTask
    BY <1>2, SetAssumption
  <2>2. \A u, v \in Workers : task[v] # NoTask /\ task[v] = task[u] => v = u
    BY DEF IInv, Counted, OneCopy
  <2>. QED
    BY <1>2, <2>1, <2>2
<1>7. \A d \in Calls, q \in Plugins : Held(d, q)' <=> Held(d, q) /\ ~(d = c /\ q = p)
  <2> TAKE d \in Calls, q \in Plugins
  <2>1. <<d, q>> # NoTask
    BY SetAssumption
  <2>2. CASE d = c /\ q = p
    BY <1>5, <1>6, <2>1, <2>2 DEF Held
  <2>3. CASE ~(d = c /\ q = p)
    BY <1>2, <1>5, <2>1, <2>3 DEF Held
  <2>. QED
    BY <2>2, <2>3
<1>8. \A d \in Calls, q \in Plugins : InQueue(d, q)' <=> InQueue(d, q)
  BY <1>1 DEF InQueue
<1>9. \A v, u \in Workers : task'[v] # NoTask /\ task'[v] = task'[u] => v = u
  BY <1>5 DEF IInv, Counted, OneCopy
<1>10. \A d \in Calls : Owed(d)' = Owed(d)
  BY <1>1 DEF Owed
<1>11. OneCopy'
  BY <1>1, <1>3, <1>4, <1>7, <1>8, <1>9 DEF IInv, Counted, OneCopy
<1>12. OwedCounted'
  BY <1>1, <1>10 DEF IInv, Counted, OwedCounted
<1>13. OnlyOwed'
  BY <1>3, <1>4, <1>7, <1>8, <1>10 DEF IInv, Counted, OnlyOwed
<1>14. NoReplyLost'
  <2>1. \A d \in Calls : \A q \in Owed(d) : q \in Plugins
    BY CallAssumption DEF Owed
  <2>. QED
    BY <1>4, <1>7, <1>8, <1>10, <2>1 DEF IInv, Counted, NoReplyLost
<1>. QED
  BY <1>11, <1>12, <1>13, <1>14 DEF Counted

\* A call collects a reply: the plugin is owed no more.
LEMMA CollectCounted ==
  ASSUME IInv, NEW c \in Calls, Collect(c)
  PROVE  Counted'
<1> DEFINE p == Head(replyTo[c]).plugin
           kind == Head(replyTo[c]).kind
<1>1. /\ Collecting(c)
      /\ replyTo[c] # <<>>
      /\ received' = [received EXCEPT ![c] = @ + 1]
      /\ replyTo' = [replyTo EXCEPT ![c] = Tail(@)]
      /\ got' = [got EXCEPT ![c][p] = kind]
      /\ UNCHANGED <<pc, todo, cur, submitted, queue, task>>
  BY DEF Collect, poolVars
<1>2. /\ Head(replyTo[c]) \in Reply
      /\ p \in Plugins
      /\ Answered(c, p)
      /\ \A d \in Calls, q \in Plugins :
           Answered(d, q)' <=> Answered(d, q) /\ ~(d = c /\ q = p)
      /\ \A d \in Calls : \A i, j \in DOMAIN replyTo'[d] :
           replyTo'[d][i].plugin = replyTo'[d][j].plugin => i = j
  BY <1>1, CollectPlaces DEF IInv, Counted
<1>3. kind # "none"
  BY <1>2 DEF Reply
<1> HIDE DEF p, kind
<1>4. p \in Owed(c) /\ ~InQueue(c, p) /\ ~Held(c, p)
  BY <1>2 DEF IInv, Counted, OnlyOwed, OneCopy
<1>5. \A d \in Calls, q \in Plugins :
        (InQueue(d, q)' <=> InQueue(d, q)) /\ (Held(d, q)' <=> Held(d, q))
  BY <1>1 DEF InQueue, Held
<1>6. \A d \in Calls : Owed(d)' = IF d = c THEN Owed(c) \ {p} ELSE Owed(d)
  <2>1. got \in [Calls -> [Plugins -> {"none", "traces", "error", "dup", "refused"}]]
    BY DEF IInv, Typed, TypeOK, CallTypeOK
  <2>2. \A d \in Calls : d # c => got'[d] = got[d]
    BY <1>1, <2>1
  <2>3. \A q \in Plugins : got'[c][q] = IF q = p THEN kind ELSE got[c][q]
    BY <1>1, <1>2, <2>1
  <2>4. \A d \in Calls : d # c => Owed(d)' = Owed(d)
    BY <1>1, <2>2 DEF Owed
  <2>5. Owed(c)' = Owed(c) \ {p}
    BY <1>1, <1>3, <2>3, CallAssumption DEF Owed
  <2>. QED
    BY <2>4, <2>5
<1>7. OwedCounted'
  <2> SUFFICES ASSUME NEW d \in Calls
               PROVE  (submitted[d] = received[d] + Cardinality(Owed(d)))'
    BY DEF OwedCounted
  <2>1. submitted \in [Calls -> Nat] /\ received \in [Calls -> Nat]
    BY DEF IInv, Typed, TypeOK, CallTypeOK
  <2>2. Cardinality(Owed(c) \ {p}) = Cardinality(Owed(c)) - 1
    BY <1>4, OwedFinite, FS_RemoveElement
  <2>3. submitted[d] = received[d] + Cardinality(Owed(d))
    BY DEF IInv, Counted, OwedCounted
  <2>4. Cardinality(Owed(d)) \in Nat
    BY OwedFinite
  <2>5. CASE d = c
    <3>1. Cardinality(Owed(d)') = Cardinality(Owed(d)) - 1
      BY <1>6, <2>2, <2>5
    <3>. QED
      BY <1>1, <2>1, <2>3, <2>4, <2>5, <3>1
  <2>6. CASE d # c
    BY <1>1, <1>6, <2>1, <2>3, <2>6
  <2>. QED
    BY <2>5, <2>6
<1>8. OnlyOwed'
  BY <1>2, <1>4, <1>5, <1>6 DEF IInv, Counted, OnlyOwed
<1>9. NoReplyLost'
  <2>1. \A d \in Calls : \A q \in Owed(d) : q \in Plugins
    BY CallAssumption DEF Owed
  <2>. QED
    BY <1>2, <1>5, <1>6, <2>1 DEF IInv, Counted, NoReplyLost
<1>10. OneCopy'
  BY <1>1, <1>2, <1>5 DEF IInv, Counted, OneCopy
<1>. QED
  BY <1>7, <1>8, <1>9, <1>10 DEF Counted

(***************************************************************************)
(* The inductive invariant.                                                *)
(***************************************************************************)

\* CallShape of one call.
Shape(c) ==
  /\ todo[c] \subseteq Wanted[c]
  /\ cur[c] # NoPlugin => cur[c] \in Wanted[c] \ todo[c] /\ got[c][cur[c]] = "none"
  /\ \A p \in todo[c] : got[c][p] = "none"
  /\ Returned(c) => todo[c] = {}
  /\ pc[c] = "done" => received[c] = submitted[c]

LEMMA ShapeOfAll == CallShape <=> \A c \in Calls : Shape(c)
BY DEF CallShape, Shape

LEMMA IInvInit == Init => IInv
<1> SUFFICES ASSUME Init PROVE IInv
  OBVIOUS
<1>1. \A c \in Calls : Shape(c) /\ Owed(c) = {}
  BY CallAssumption DEF Init, Shape, Returned, Owed
<1>2. \A c \in Calls, p \in Plugins : ~InQueue(c, p) /\ ~Held(c, p) /\ ~Answered(c, p)
  BY SetAssumption DEF Init, InQueue, Held, Answered
<1>3. OwedCounted
  <2>1. \A c \in Calls : Cardinality(Owed(c)) = 0
    BY <1>1, FS_EmptySet
  <2>2. \A c \in Calls : submitted[c] = 0 /\ received[c] = 0
    BY DEF Init
  <2>. QED
    BY <2>1, <2>2 DEF OwedCounted
<1>4. OneCopy
  BY <1>2 DEF Init, OneCopy
<1>. QED
  BY <1>1, <1>2, <1>3, <1>4, TypedInit, ShapeOfAll
  DEF IInv, Counted, OnlyOwed, NoReplyLost

\* A step of call c leaves the other calls alone.
LEMMA OtherCalls ==
  ASSUME IInv, NEW c \in Calls, CallStep(c), NEW d \in Calls, d # c
  PROVE  /\ UNCHANGED <<pc[d], todo[d], cur[d], submitted[d], received[d], got[d]>>
         /\ Shape(d)'
         /\ Owed(d)' = Owed(d)
<1> USE DEF poolVars, breakers, dedupVars, history
<1>1. UNCHANGED <<pc[d], todo[d], cur[d], submitted[d], received[d], got[d]>>
  <2>1. CallTypeOK
    BY DEF IInv, Typed, TypeOK
  <2>2. ASSUME NEW p \in Plugins, Submit(c, p)
        PROVE  UNCHANGED <<pc[d], todo[d], cur[d], submitted[d], received[d], got[d]>>
    BY <2>1, <2>2 DEF Submit, ReturnDuplicate, CallTypeOK
  <2>3. ASSUME CheckDisk(c) \/ MarkAndCheckBreaker(c)
        PROVE  UNCHANGED <<pc[d], todo[d], cur[d], submitted[d], received[d], got[d]>>
    BY <2>1, <2>3 DEF CheckDisk, ReturnDuplicate, MarkAndCheckBreaker, Refuse, CallTypeOK
  <2>4. ASSUME RateAllowed(c) \/ RateRefused(c) \/ QueueRefused(c)
        PROVE  UNCHANGED <<pc[d], todo[d], cur[d], submitted[d], received[d], got[d]>>
    BY <2>1, <2>4 DEF RateAllowed, RateRefused, QueueRefused, Refuse, CallTypeOK
  <2>5. ASSUME Enqueue(c) \/ Collect(c)
        PROVE  UNCHANGED <<pc[d], todo[d], cur[d], submitted[d], received[d], got[d]>>
    BY <2>1, <2>5 DEF Enqueue, Collect, CallTypeOK
  <2>6. ASSUME Abort(c) \/ Return(c)
        PROVE  UNCHANGED <<pc[d], todo[d], cur[d], submitted[d], received[d], got[d]>>
    BY <2>1, <2>6 DEF Abort, Return, CallTypeOK
  <2>. QED
    BY <2>2, <2>3, <2>4, <2>5, <2>6 DEF CallStep
<1>2. Shape(d)
  BY ShapeOfAll DEF IInv
<1>. QED
  BY <1>1, <1>2 DEF Shape, Owed, Returned

\* The call drops the plugin it was submitting.
LEMMA RefuseKeeps ==
  ASSUME IInv, NEW c \in Calls, Refuse(c), UNCHANGED task,
         pc[c] \in {"mark", "rate", "send"}
  PROVE  /\ Shape(c)'
         /\ Owed(c)' = Owed(c)
         /\ UNCHANGED <<queue, task, replyTo, submitted, received>>
<1>1. CallTypeOK /\ Shape(c)
  BY ShapeOfAll DEF IInv, Typed, TypeOK
<1>2. cur[c] \in Plugins /\ cur[c] # NoPlugin
  BY CursorType, SetAssumption DEF IInv
<1>3. /\ todo' = todo /\ submitted' = submitted /\ received' = received
      /\ pc'[c] = "submit" /\ cur'[c] = NoPlugin
      /\ \A p \in Plugins : got'[c][p] = IF p = cur[c] THEN "refused" ELSE got[c][p]
  BY <1>1, <1>2 DEF Refuse, CallTypeOK
<1>4. Wanted[c] \subseteq Plugins
  BY CallAssumption
<1>5. Shape(c)'
  BY <1>1, <1>2, <1>3, <1>4 DEF Shape, Returned
<1>6. Owed(c)' = Owed(c)
  BY <1>1, <1>2, <1>3, <1>4, SetAssumption DEF Shape, Owed
<1>. QED
  BY <1>5, <1>6 DEF Refuse

\* The call is through with the plugin it was submitting, which now owes it a reply.
LEMMA AcceptKeeps ==
  ASSUME IInv, NEW c \in Calls, NEW p \in Plugins,
         \/ /\ pc[c] = "submit" /\ p \in todo[c]
            /\ todo' = [todo EXCEPT ![c] = @ \ {p}]
         \/ /\ pc[c] \in {"disk", "send"} /\ p = cur[c]
            /\ todo' = todo,
         pc' = [pc EXCEPT ![c] = "submit"],
         cur' = [cur EXCEPT ![c] = NoPlugin],
         UNCHANGED got
  PROVE  /\ Shape(c)'
         /\ p \notin Owed(c)
         /\ Owed(c)' = Owed(c) \cup {p}
<1>1. CallTypeOK /\ Shape(c) /\ Wanted[c] \subseteq Plugins
  BY CallAssumption, ShapeOfAll DEF IInv, Typed, TypeOK
<1>2. pc'[c] = "submit" /\ cur'[c] = NoPlugin /\ got'[c] = got[c]
  BY <1>1 DEF CallTypeOK
<1>3. CASE pc[c] = "submit" /\ p \in todo[c] /\ todo' = [todo EXCEPT ![c] = @ \ {p}]
  <2>1. todo'[c] = todo[c] \ {p}
    BY <1>1, <1>3 DEF CallTypeOK
  <2>2. cur[c] = NoPlugin
    BY <1>3 DEF IInv, Typed, CursorShape
  <2>. QED
    BY <1>1, <1>2, <1>3, <2>1, <2>2, SetAssumption DEF Shape, Owed, Returned
<1>4. CASE pc[c] \in {"disk", "send"} /\ p = cur[c] /\ todo' = todo
  <2>1. cur[c] # NoPlugin
    BY <1>4, SetAssumption
  <2>. QED
    BY <1>1, <1>2, <1>4, <2>1, SetAssumption DEF Shape, Owed, Returned
<1>. QED
  BY <1>3, <1>4

LEMMA CallKeeps ==
  ASSUME IInv, NEW c \in Calls, CallStep(c)
  PROVE  CallShape' /\ Counted'
<1> DEFINE Quiet == UNCHANGED <<queue, task, replyTo, submitted, received>>
<1>1. /\ \A d \in Calls : d # c => Shape(d)' /\ Owed(d)' = Owed(d)
      /\ CallShape' <=> \A d \in Calls : Shape(d)'
  BY OtherCalls DEF CallShape, Shape
<1>2. ASSUME Shape(c)', Owed(c)' = Owed(c), Quiet
      PROVE  CallShape' /\ Counted'
  <2>1. Counted
    BY DEF IInv
  <2>. QED
    BY <1>1, <1>2, <2>1, FrameCounted
<1>3. /\ Shape(c) /\ CallTypeOK /\ Wanted[c] \subseteq Plugins
  BY CallAssumption, ShapeOfAll DEF IInv, Typed, TypeOK
<1>4. ASSUME NEW p \in Plugins, Submit(c, p)
      PROVE  CallShape' /\ Counted'
  <2>1. pc[c] = "submit" /\ p \in todo[c] /\ todo' = [todo EXCEPT ![c] = @ \ {p}]
        /\ UNCHANGED <<received, got, task, queue>>
    BY <1>4 DEF Submit, poolVars
  <2>2. CASE ReturnDuplicate(c, p)
    <3>1. Shape(c)' /\ p \notin Owed(c) /\ Owed(c)' = Owed(c) \cup {p}
      BY <2>1, <2>2, AcceptKeeps DEF ReturnDuplicate
    <3>2. Counted'
      BY <1>1, <2>1, <2>2, <3>1, AcceptCounted DEF ReturnDuplicate
    <3>. QED
      BY <1>1, <3>1, <3>2
  <2>3. CASE /\ pc' = [pc EXCEPT ![c] = IF Dedup THEN "disk" ELSE "mark"]
             /\ cur' = [cur EXCEPT ![c] = p]
             /\ UNCHANGED <<submitted, replyTo>>
    <3>1. pc'[c] \in {"disk", "mark"} /\ cur'[c] = p /\ todo'[c] = todo[c] \ {p}
      BY <1>3, <2>1, <2>3 DEF CallTypeOK
    <3>2. cur[c] = NoPlugin
      BY <2>1 DEF IInv, Typed, CursorShape
    <3>3. Shape(c)' /\ Owed(c)' = Owed(c)
      BY <1>3, <2>1, <3>1, <3>2, SetAssumption DEF Shape, Owed, Returned
    <3>. QED
      BY <1>2, <2>1, <2>3, <3>3
  <2>. QED
    BY <1>4, <2>2, <2>3 DEF Submit
<1>5. ASSUME CheckDisk(c) PROVE CallShape' /\ Counted'
  <2>1. pc[c] = "disk" /\ cur[c] \in Plugins /\ UNCHANGED <<todo, received, got, task, queue>>
    BY <1>5, CursorType DEF CheckDisk, poolVars, IInv
  <2>2. CASE ReturnDuplicate(c, cur[c])
    <3>1. Shape(c)' /\ cur[c] \notin Owed(c) /\ Owed(c)' = Owed(c) \cup {cur[c]}
      BY <2>1, <2>2, AcceptKeeps DEF ReturnDuplicate
    <3>2. Counted'
      BY <1>1, <2>1, <2>2, <3>1, AcceptCounted DEF ReturnDuplicate
    <3>. QED
      BY <1>1, <3>1, <3>2
  <2>3. CASE pc' = [pc EXCEPT ![c] = "mark"] /\ UNCHANGED <<submitted, cur, replyTo, memory>>
    <3>1. Shape(c)' /\ Owed(c)' = Owed(c)
      BY <1>3, <2>1, <2>3 DEF Shape, Owed, Returned, CallTypeOK
    <3>. QED
      BY <1>2, <2>1, <2>3, <3>1
  <2>. QED
    BY <1>5, <2>2, <2>3 DEF CheckDisk
<1>6. ASSUME Refuse(c), UNCHANGED task, pc[c] \in {"mark", "rate", "send"}
      PROVE  CallShape' /\ Counted'
  BY <1>2, <1>6, RefuseKeeps
<1>7. ASSUME MarkAndCheckBreaker(c) PROVE CallShape' /\ Counted'
  <2>1. pc[c] = "mark" /\ UNCHANGED task
    BY <1>7 DEF MarkAndCheckBreaker
  <2>2. CASE Refuse(c)
    BY <1>6, <2>1, <2>2
  <2>3. CASE /\ pc' = [pc EXCEPT ![c] = "rate"]
             /\ UNCHANGED <<todo, cur, submitted, received, got, replyTo, queue>>
    <3>1. Shape(c)' /\ Owed(c)' = Owed(c)
      BY <1>3, <2>1, <2>3 DEF Shape, Owed, Returned, CallTypeOK
    <3>. QED
      BY <1>2, <2>1, <2>3, <3>1
  <2>. QED
    BY <1>7, <2>2, <2>3 DEF MarkAndCheckBreaker
<1>8. ASSUME RateAllowed(c) PROVE CallShape' /\ Counted'
  <2>1. Shape(c)' /\ Owed(c)' = Owed(c)
    BY <1>3, <1>8 DEF RateAllowed, Shape, Owed, Returned, CallTypeOK
  <2>. QED
    BY <1>2, <1>8, <2>1 DEF RateAllowed, poolVars
<1>9. ASSUME RateRefused(c) \/ QueueRefused(c) PROVE CallShape' /\ Counted'
  BY <1>6, <1>9 DEF RateRefused, QueueRefused
<1>10. ASSUME Enqueue(c) PROVE CallShape' /\ Counted'
  <2>1. /\ pc[c] = "send"
        /\ cur[c] \in Plugins
        /\ queue' = Append(queue, <<c, cur[c]>>)
        /\ submitted' = [submitted EXCEPT ![c] = @ + 1]
        /\ pc' = [pc EXCEPT ![c] = "submit"]
        /\ cur' = [cur EXCEPT ![c] = NoPlugin]
        /\ UNCHANGED <<todo, received, got, replyTo, task>>
    BY <1>10, CursorType DEF Enqueue, IInv
  <2>2. Shape(c)' /\ cur[c] \notin Owed(c) /\ Owed(c)' = Owed(c) \cup {cur[c]}
    BY <2>1, AcceptKeeps
  <2>3. Counted'
    BY <1>1, <2>1, <2>2, AcceptCounted
  <2>. QED
    BY <1>1, <2>2, <2>3
<1>11. ASSUME Collect(c) PROVE CallShape' /\ Counted'
  <2>1. Counted'
    BY <1>11, CollectCounted
  <2>2. pc[c] = "submit" /\ todo[c] = {} /\ UNCHANGED <<pc, todo, cur>>
    BY <1>11 DEF Collect, Collecting
  <2>3. cur[c] = NoPlugin
    BY <2>2 DEF IInv, Typed, CursorShape
  <2>4. Shape(c)'
    BY <1>3, <2>2, <2>3 DEF Shape, Returned
  <2>. QED
    BY <1>1, <2>1, <2>4
<1>12. ASSUME Abort(c) \/ Return(c) PROVE CallShape' /\ Counted'
  <2>1. Shape(c)' /\ Owed(c)' = Owed(c)
    BY <1>3, <1>12
    DEF Abort, Return, Collecting, AllCollected, Shape, Owed, Returned, CallTypeOK
  <2>. QED
    BY <1>2, <1>12, <2>1 DEF Abort, Return, poolVars
<1>. QED
  BY <1>4, <1>5, <1>7, <1>8, <1>9, <1>10, <1>11, <1>12 DEF CallStep

LEMMA WorkerKeeps ==
  ASSUME IInv, NEW w \in Workers, WorkerStep(w)
  PROVE  CallShape' /\ Counted'
<1>1. UNCHANGED callVars
  BY DEF WorkerStep, TakeTask, StartPlugin, PluginSucceeds, TaskFails, SendReply, Exit
<1>2. CallShape' /\ \A d \in Calls : Owed(d)' = Owed(d)
  BY <1>1 DEF IInv, CallShape, Owed, Returned, callVars
<1>3. CASE TakeTask(w)
  BY <1>2, <1>3, TakeCounted
<1>4. CASE SendReply(w)
  BY <1>2, <1>4, ReplyCounted
<1>5. CASE StartPlugin(w) \/ PluginSucceeds(w) \/ TaskFails(w) \/ Exit(w)
  <2>1. UNCHANGED <<queue, task, replyTo, submitted, received>> /\ Counted
    BY <1>1, <1>5 DEF StartPlugin, PluginSucceeds, TaskFails, Exit, callVars, IInv
  <2>. QED
    BY <1>2, <2>1, FrameCounted
<1>. QED
  BY <1>2, <1>3, <1>4, <1>5 DEF WorkerStep

LEMMA IInvNext == IInv /\ [Next]_vars => IInv'
<1> SUFFICES ASSUME IInv, [Next]_vars PROVE IInv'
  OBVIOUS
<1>1. Typed'
  BY TypedNext DEF IInv
<1>2. ASSUME UNCHANGED <<callVars, replyTo, poolVars>>
      PROVE  CallShape' /\ Counted'
  <2>1. CallShape' /\ \A d \in Calls : Owed(d)' = Owed(d)
    BY <1>2 DEF IInv, CallShape, Owed, Returned, callVars
  <2>2. UNCHANGED <<queue, task, replyTo, submitted, received>> /\ Counted
    BY <1>2 DEF callVars, poolVars, IInv
  <2>. QED
    BY <2>1, <2>2, FrameCounted
<1>3. ASSUME \/ \E k \in Keys : WriteMarker(k)
             \/ BeginShutdown \/ EndShutdown \/ Expire \/ AllReturned
             \/ UNCHANGED vars
      PROVE  CallShape' /\ Counted'
  BY <1>2, <1>3
  DEF WriteMarker, BeginShutdown, EndShutdown, Expire, AllReturned, vars, callVars, poolVars
<1>. QED
  BY <1>1, <1>3, CallKeeps, WorkerKeeps DEF Next, IInv

\* A task handed to the pool is in one place, once, until ProcessTrace collects
\* its reply, and submittedTasks counts exactly the replies still to come: the
\* accounting holds for any number of calls, plugins and workers.
THEOREM AccountingCorrect == Spec => []Accounting
<1>1. IInv => Accounting
  BY DEF IInv, Typed, Counted, Accounting
<1>. QED
  BY IInvInit, IInvNext, <1>1, PTL DEF Spec

\* No accepted task is left without a queue entry, a worker or a reply.
THEOREM NoReplyIsLost == Spec => []NoReplyLost
<1>1. Accounting => NoReplyLost
  BY DEF Accounting
<1>. QED
  BY AccountingCorrect, <1>1, PTL

\* Once a call has submitted everything, its two counters agree exactly when no
\* plugin is left without an outcome.
LEMMA CountersDecide ==
  ASSUME IInv, NEW c \in Calls, todo[c] = {}, cur[c] = NoPlugin
  PROVE  received[c] = submitted[c] <=> \A p \in Wanted[c] : got[c][p] # "none"
<1>1. Owed(c) = {p \in Wanted[c] : got[c][p] = "none"}
  BY CallAssumption, SetAssumption DEF Owed
<1>2. received[c] = submitted[c] <=> Cardinality(Owed(c)) = 0
  <2>1. submitted[c] \in Nat /\ received[c] \in Nat
    BY DEF IInv, Typed, TypeOK, CallTypeOK
  <2>2. Cardinality(Owed(c)) \in Nat
    BY OwedFinite
  <2>3. submitted[c] = received[c] + Cardinality(Owed(c))
    BY DEF IInv, Counted, OwedCounted
  <2>. QED
    BY <2>1, <2>2, <2>3
<1>3. Cardinality(Owed(c)) = 0 <=> Owed(c) = {}
  BY OwedFinite, FS_EmptySet
<1>. QED
  BY <1>1, <1>2, <1>3

\* A call that returns normally has an outcome for every plugin it wanted: the
\* loop's count of replies leaves nothing owed.
THEOREM ReturnsAreComplete == Spec => []ReturnsComplete
<1>1. IInv => ReturnsComplete
  <2> SUFFICES ASSUME IInv, NEW c \in Calls, pc[c] = "done"
               PROVE  \A p \in Wanted[c] : got[c][p] # "none"
    BY DEF ReturnsComplete
  <2>1. todo[c] = {} /\ received[c] = submitted[c] /\ cur[c] = NoPlugin
    BY DEF IInv, Typed, CursorShape, CallShape, Returned
  <2>. QED
    BY <2>1, CountersDecide
<1>. QED
  BY IInvInit, IInvNext, <1>1, PTL DEF Spec

\* A channel that holds no reply for some candidate plugin has room for it.
LEMMA RoomForReply ==
  ASSUME IInv, NEW c \in Calls, NEW p \in Wanted[c], ~Answered(c, p)
  PROVE  Len(replyTo[c]) < ReplyCapacity(c)
<1> DEFINE n == Len(replyTo[c])
           others == Candidates[c] \ {p}
           f == [i \in 1..n |-> replyTo[c][i].plugin]
<1>1. replyTo[c] \in Seq(Reply) /\ n \in Nat /\ DOMAIN replyTo[c] = 1..n
  BY DEF IInv, Typed, TypeOK, ChannelTypeOK
<1>2. \A i \in 1..n : replyTo[c][i].plugin \in Plugins
  <2>1. \A i \in 1..n : replyTo[c][i] \in Reply
    BY <1>1
  <2>. QED
    BY <2>1 DEF Reply
<1>3. \A i \in 1..n : replyTo[c][i].plugin \in others
  <2> SUFFICES ASSUME NEW i \in 1..n PROVE replyTo[c][i].plugin \in others
    OBVIOUS
  <2> DEFINE q == replyTo[c][i].plugin
  <2>1. Answered(c, q) /\ q \in Plugins
    BY <1>1, <1>2 DEF Answered
  <2>2. q \in Owed(c)
    BY <2>1 DEF IInv, Counted, OnlyOwed
  <2>3. q \in Candidates[c]
    BY <2>2, CallAssumption DEF Owed
  <2>. QED
    BY <2>1, <2>3
<1>4. \A i, j \in 1..n : replyTo[c][i].plugin = replyTo[c][j].plugin => i = j
  BY <1>1 DEF IInv, Counted, OneCopy
<1>5. f \in Injection(1..n, others)
  BY <1>3, <1>4, Fun_IsInj
<1>6. IsFiniteSet(Candidates[c]) /\ p \in Candidates[c]
  <2>1. Candidates[c] \in SUBSET Plugins
    BY CallAssumption
  <2>. QED
    BY <2>1, SetAssumption, CallAssumption, FS_Subset
<1>7. /\ IsFiniteSet(others)
      /\ Cardinality(others) = Cardinality(Candidates[c]) - 1
      /\ Cardinality(Candidates[c]) \in Nat
  BY <1>6, FS_RemoveElement, FS_CardinalityType
<1> HIDE DEF f, others
<1>8. Cardinality(1..n) <= Cardinality(others)
  BY <1>5, <1>7, FS_Injection
<1>9. Cardinality(1..n) = n
  BY <1>1, FS_Interval
<1>. QED
  BY <1>1, <1>7, <1>8, <1>9 DEF ReplyCapacity

\* The buffer of a reply channel, one place per candidate plugin, is never full
\* when a worker or Submit is about to send on it: no send ever waits.
THEOREM RepliesNeverBlock == Spec => []ReplyNeverBlocks
<1>1. IInv => ReplyNeverBlocks
  <2> SUFFICES ASSUME IInv PROVE ReplyNeverBlocks
    OBVIOUS
  <2>1. ASSUME NEW w \in Workers, phase[w] \in {"ok", "failed"}
        PROVE  Len(replyTo[task[w][1]]) < ReplyCapacity(task[w][1])
    <3> DEFINE c == task[w][1]
               p == task[w][2]
    <3>1. c \in Calls /\ p \in Plugins /\ task[w] = <<c, p>>
      BY <2>1, HeldType DEF IInv
    <3> HIDE DEF c, p
    <3>2. Held(c, p)
      BY <3>1 DEF Held
    <3>3. p \in Wanted[c] /\ ~Answered(c, p)
      BY <3>1, <3>2 DEF IInv, Counted, OnlyOwed, OneCopy, Owed
    <3>. QED
      BY <3>1, <3>3, RoomForReply DEF c
  <2>2. ASSUME NEW c \in Calls, NEW p \in Wanted[c], p \notin Owed(c)
        PROVE  Len(replyTo[c]) < ReplyCapacity(c)
    <3>1. p \in Plugins
      BY CallAssumption
    <3>. QED
      BY <2>2, <3>1, RoomForReply DEF IInv, Counted, OnlyOwed
  <2>3. ASSUME NEW c \in Calls, pc[c] = "disk"
        PROVE  Len(replyTo[c]) < ReplyCapacity(c)
    <3>1. cur[c] # NoPlugin
      BY <2>3 DEF IInv, Typed, CursorShape
    <3>2. cur[c] \in Wanted[c] /\ cur[c] \notin Owed(c)
      BY <3>1 DEF IInv, CallShape, Owed
    <3>. QED
      BY <2>2, <3>2
  <2>4. ASSUME NEW c \in Calls, NEW p \in todo[c]
        PROVE  Len(replyTo[c]) < ReplyCapacity(c)
    <3>1. p \in Wanted[c] /\ p \notin Owed(c)
      BY DEF IInv, CallShape, Owed
    <3>. QED
      BY <2>2, <3>1
  <2>. QED
    BY <2>1, <2>3, <2>4 DEF ReplyNeverBlocks
<1>. QED
  BY IInvInit, IInvNext, <1>1, PTL DEF Spec

(***************************************************************************)
(* The pool implements TraceCalls.                                         *)
(***************************************************************************)

StatusOf == [c \in Calls |-> IF Returned(c) THEN pc[c] ELSE "open"]

\* An outcome is filed for a plugin that has none.
LEMMA FilingResolves ==
  ASSUME IInv, NEW c \in Calls, NEW p \in Wanted[c], ~Returned(c), got[c][p] = "none",
         NEW o \in {"traces", "error", "dup", "refused"},
         got' = [got EXCEPT ![c][p] = o], StatusOf' = StatusOf
  PROVE  Service!Next
<1>1. p \in Plugins /\ StatusOf[c] = "open"
  BY CallAssumption DEF StatusOf
<1>2. Service!Resolve(c, p)
  BY <1>1 DEF Service!Resolve, StatusOf
<1>. QED
  BY <1>1, <1>2 DEF Service!Next

LEMMA CallSimulates ==
  ASSUME IInv, NEW c \in Calls, CallStep(c)
  PROVE  Service!Next \/ (got' = got /\ StatusOf' = StatusOf)
<1>1. CallTypeOK
  BY DEF IInv, Typed, TypeOK
<1>2. ASSUME ~Returned(c), ~Returned(c)' PROVE StatusOf' = StatusOf
  <2>1. \A d \in Calls : d # c => pc'[d] = pc[d]
    BY OtherCalls
  <2>. QED
    BY <1>2, <2>1 DEF StatusOf, Returned
<1>3. ASSUME Refuse(c), pc[c] \in {"mark", "rate", "send"} PROVE Service!Next
  <2>1. cur[c] \in Wanted[c] /\ got[c][cur[c]] = "none"
    BY <1>3, CursorType, SetAssumption DEF IInv, CallShape
  <2>2. got' = [got EXCEPT ![c][cur[c]] = "refused"] /\ StatusOf' = StatusOf
    BY <1>1, <1>2, <1>3 DEF Refuse, Returned, CallTypeOK
  <2>. QED
    BY <1>3, <2>1, <2>2, FilingResolves DEF Returned
<1>4. ASSUME Collect(c) PROVE Service!Next
  <2> DEFINE p == Head(replyTo[c]).plugin
             o == Head(replyTo[c]).kind
  <2>1. /\ Collecting(c)
        /\ replyTo[c] # <<>>
        /\ replyTo' = [replyTo EXCEPT ![c] = Tail(@)]
        /\ got' = [got EXCEPT ![c][p] = o]
        /\ UNCHANGED pc
    BY <1>4 DEF Collect
  <2>2. Head(replyTo[c]) \in Reply /\ p \in Plugins /\ Answered(c, p)
    BY <2>1, CollectPlaces DEF IInv, Counted
  <2>3. o \in {"traces", "error", "dup", "refused"}
    BY <2>2 DEF Reply
  <2> HIDE DEF p, o
  <2>4. p \in Wanted[c] /\ got[c][p] = "none"
    BY <2>2 DEF IInv, Counted, OnlyOwed, Owed
  <2>5. ~Returned(c) /\ StatusOf' = StatusOf
    BY <2>1 DEF Collecting, Returned, StatusOf
  <2>. QED
    BY <2>1, <2>3, <2>4, <2>5, FilingResolves
<1>5. ASSUME Return(c) \/ Abort(c) PROVE Service!Next
  <2>1. /\ pc[c] = "submit"
        /\ todo[c] = {}
        /\ cur[c] = NoPlugin
        /\ got' = got
        /\ StatusOf[c] = "open"
    BY <1>5 DEF Return, Abort, Collecting, IInv, Typed, CursorShape, StatusOf, Returned
  <2>2. received[c] = submitted[c] <=> \A p \in Wanted[c] : got[c][p] # "none"
    BY <2>1, CountersDecide
  <2>3. CASE Return(c)
    <3>1. StatusOf' = [StatusOf EXCEPT ![c] = "done"]
      BY <1>1, <2>3 DEF Return, StatusOf, Returned, CallTypeOK
    <3>2. Service!Complete(c)
      BY <2>1, <2>2, <2>3, <3>1 DEF Return, AllCollected, Service!Complete, StatusOf
    <3>. QED
      BY <3>2 DEF Service!Next
  <2>4. CASE Abort(c)
    <3>1. StatusOf' = [StatusOf EXCEPT ![c] = "aborted"]
      BY <1>1, <2>4 DEF Abort, StatusOf, Returned, CallTypeOK
    <3>2. received[c] # submitted[c]
      BY <1>1, <2>4 DEF Abort, CallTypeOK
    <3>3. Service!Abandon(c)
      BY <2>1, <2>2, <3>1, <3>2 DEF Service!Abandon, StatusOf
    <3>. QED
      BY <3>3 DEF Service!Next
  <2>. QED
    BY <1>5, <2>3, <2>4
<1>6. ASSUME \/ \E p \in Plugins : Submit(c, p)
             \/ CheckDisk(c) \/ RateAllowed(c) \/ Enqueue(c)
             \/ MarkAndCheckBreaker(c) /\ got' = got
      PROVE  got' = got /\ StatusOf' = StatusOf
  <2>1. got' = got
    BY <1>6 DEF Submit, CheckDisk, RateAllowed, Enqueue
  <2>2. ~Returned(c)
    BY <1>6 DEF Submit, CheckDisk, RateAllowed, Enqueue, MarkAndCheckBreaker, Returned
  <2>3. ~Returned(c)'
    BY <1>1, <1>6
    DEF Submit, CheckDisk, ReturnDuplicate, RateAllowed, Enqueue, MarkAndCheckBreaker,
        Refuse, Returned, CallTypeOK
  <2>. QED
    BY <1>2, <2>1, <2>2, <2>3
<1>7. MarkAndCheckBreaker(c) => got' = got \/ (Refuse(c) /\ pc[c] = "mark")
  BY DEF MarkAndCheckBreaker
<1>8. RateRefused(c) \/ QueueRefused(c) => Refuse(c) /\ pc[c] \in {"rate", "send"}
  BY DEF RateRefused, QueueRefused
<1>. QED
  BY <1>3, <1>4, <1>5, <1>6, <1>7, <1>8 DEF CallStep

\* The calls behave as TraceCalls promises the engine, whatever the pool below
\* them deduplicates, refuses, fails or shuts down.
THEOREM PoolImplementsTraceCalls == Spec => ImplementsTraceCalls
<1>1. Init => Service!Init
  <2> SUFFICES ASSUME Init PROVE Service!Init
    OBVIOUS
  <2>1. StatusOf = [c \in Calls |-> "open"]
    BY DEF Init, StatusOf, Returned
  <2>. QED
    BY <2>1 DEF Init, Service!Init, StatusOf
<1>2. IInv /\ [Next]_vars => [Service!Next]_(Service!vars)
  <2> SUFFICES ASSUME IInv, [Next]_vars PROVE [Service!Next]_(Service!vars)
    OBVIOUS
  <2>1. Service!Next \/ (got' = got /\ StatusOf' = StatusOf)
    <3>1. CASE \E c \in Calls : CallStep(c)
      BY <3>1, CallSimulates
    <3>2. CASE \E w \in Workers : WorkerStep(w)
      BY <3>2
      DEF WorkerStep, TakeTask, StartPlugin, PluginSucceeds, TaskFails, SendReply, Exit,
          callVars, StatusOf, Returned
    <3>3. CASE \/ \E k \in Keys : WriteMarker(k)
               \/ BeginShutdown \/ EndShutdown \/ Expire \/ AllReturned \/ UNCHANGED vars
      BY <3>3
      DEF WriteMarker, BeginShutdown, EndShutdown, Expire, AllReturned, vars, callVars,
          StatusOf, Returned
    <3>. QED
      BY <3>1, <3>2, <3>3 DEF Next
  <2>. QED
    BY <2>1 DEF Service!vars, StatusOf
<1>. QED
  BY IInvInit, IInvNext, <1>1, <1>2, PTL DEF Spec, Service!Spec, ImplementsTraceCalls

=============================================================================
