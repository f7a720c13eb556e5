---------------------------- MODULE CircuitBreaker ----------------------------
(***************************************************************************)
(* One CircuitBreaker and the goroutines that use it, at the granularity   *)
(* of its atomic loads and stores (internal/pkg/workerpool/                *)
(* circuitbreaker.go). Its callers either go through Execute, or do what   *)
(* the worker pool does: ask IsOpen in Submit and report by RecordResult   *)
(* from a worker.                                                          *)
(*                                                                         *)
(* Time is counted from the last failure in units small enough to tell     *)
(* WindowSize and RecoveryTimeout apart. The counters are only compared    *)
(* with their limits and reset, so they stop at the limit here.            *)
(***************************************************************************)
EXTENDS Naturals

CONSTANTS
  Users,             \* goroutines that make calls, one at a time each
  UseExecute,        \* they call Execute; otherwise they gate as the pool does
  FailureThreshold,
  HalfOpenMaxCalls,
  RecoveryTimeout,
  WindowSize,
  SlowRecord         \* recordFailure may be held up for longer than a unit of time

ASSUME ModeAssumption == UseExecute \in BOOLEAN /\ SlowRecord \in BOOLEAN
\* NewCircuitBreaker replaces values that are not positive.
ASSUME ConfigAssumption ==
  /\ FailureThreshold \in Nat \ {0}
  /\ HalfOpenMaxCalls \in Nat \ {0}
  /\ RecoveryTimeout \in Nat \ {0}
  /\ WindowSize \in Nat \ {0}

VARIABLES
  state,          \* state
  failureCount,   \* failureCount, up to FailureThreshold
  halfOpenCalls,  \* halfOpenCalls, up to HalfOpenMaxCalls
  age,            \* time.Since(lastFailureTime), up to MaxAge
  pc,             \* where user u is
  healthy         \* the service behind the breaker answers

vars == <<state, failureCount, halfOpenCalls, age, pc, healthy>>

MaxAge == WindowSize + RecoveryTimeout

Up(n, limit) == IF n < limit THEN n + 1 ELSE n

IsOpenSteps     == {"stayHalfOpen", "countOpen", "windowOpen"}
TryHalfOpenSteps == {"try", "wait", "swap", "zero"}
ExecuteSteps    == {"mark", "add"}
SuccessSteps    == {"reset", "load", "close", "clear"}
FailureSteps    == {"note", "countTrip", "windowTrip", "trip"}

TypeOK ==
  /\ state \in {"closed", "open", "halfOpen"}
  /\ failureCount \in 0..FailureThreshold
  /\ halfOpenCalls \in 0..HalfOpenMaxCalls
  /\ age \in 0..MaxAge
  /\ pc \in [Users -> {"idle", "run", "test"} \cup IsOpenSteps \cup TryHalfOpenSteps
                      \cup ExecuteSteps \cup SuccessSteps \cup FailureSteps]
  /\ healthy \in BOOLEAN

\* lastFailureTime is the zero time, ages ago.
Init ==
  /\ state = "closed"
  /\ failureCount = 0
  /\ halfOpenCalls = 0
  /\ age = MaxAge
  /\ pc = [u \in Users |-> "idle"]
  /\ healthy \in BOOLEAN

Goto(u, label) == pc' = [pc EXCEPT ![u] = label]

\* IsOpen returned false.
Admit(u) == Goto(u, IF UseExecute THEN "mark" ELSE "run")

\* IsOpen returned true: Execute tries to probe, Submit refuses the task.
Block(u) == Goto(u, IF UseExecute THEN "try" ELSE "idle")

-------------------------------------------------------------------------------
\* IsOpen loads the state.
IsOpen(u) ==
  /\ pc[u] = "idle"
  /\ \/ state = "open" /\ Block(u)
     \/ state = "halfOpen" /\ Goto(u, "stayHalfOpen")
     \/ state = "closed" /\ Goto(u, "countOpen")
  /\ UNCHANGED <<state, failureCount, halfOpenCalls, age, healthy>>

ShouldRemainHalfOpen == halfOpenCalls < HalfOpenMaxCalls

RemainHalfOpen(u) ==
  /\ pc[u] = "stayHalfOpen"
  /\ IF ShouldRemainHalfOpen THEN Block(u) ELSE Admit(u)
  /\ UNCHANGED <<state, failureCount, halfOpenCalls, age, healthy>>

\* Variant: one failure less is enough.
OverThresholdEarly == failureCount + 1 >= FailureThreshold

OverThreshold == failureCount >= FailureThreshold

\* shouldOpen, called by IsOpen for a closed breaker: two reads.
CountOpen(u) ==
  /\ pc[u] = "countOpen"
  /\ IF OverThreshold THEN Goto(u, "windowOpen") ELSE Admit(u)
  /\ UNCHANGED <<state, failureCount, halfOpenCalls, age, healthy>>

WindowOpen(u) ==
  /\ pc[u] = "windowOpen"
  /\ IF age <= WindowSize THEN Block(u) ELSE Admit(u)
  /\ UNCHANGED <<state, failureCount, halfOpenCalls, age, healthy>>

\* tryHalfOpen: load the state, read the clock, swap, zero the counter.
TryHalfOpen(u) ==
  /\ pc[u] = "try"
  /\ Goto(u, IF state = "open" THEN "wait" ELSE "idle")
  /\ UNCHANGED <<state, failureCount, halfOpenCalls, age, healthy>>

\* Variant: the comparison is turned around.
RecoveryElapsedReversed == age < RecoveryTimeout

RecoveryElapsed == age >= RecoveryTimeout

CheckRecovery(u) ==
  /\ pc[u] = "wait"
  /\ Goto(u, IF RecoveryElapsed THEN "swap" ELSE "idle")
  /\ UNCHANGED <<state, failureCount, halfOpenCalls, age, healthy>>

SwapHalfOpen(u) ==
  /\ pc[u] = "swap"
  /\ \/ state = "open" /\ state' = "halfOpen" /\ Goto(u, "zero")
     \/ state # "open" /\ Goto(u, "idle") /\ UNCHANGED state
  /\ UNCHANGED <<failureCount, halfOpenCalls, age, healthy>>

ZeroHalfOpen(u) ==
  /\ pc[u] = "zero"
  /\ halfOpenCalls' = 0
  /\ Goto(u, "mark")
  /\ UNCHANGED <<state, failureCount, age, healthy>>

\* Execute counts a half-open call: a load, then an add.
LoadMark(u) ==
  /\ pc[u] = "mark"
  /\ Goto(u, IF state = "halfOpen" THEN "add" ELSE "run")
  /\ UNCHANGED <<state, failureCount, halfOpenCalls, age, healthy>>

AddHalfOpen(u) ==
  /\ pc[u] = "add"
  /\ halfOpenCalls' = Up(halfOpenCalls, HalfOpenMaxCalls)
  /\ Goto(u, "test")
  /\ UNCHANGED <<state, failureCount, age, healthy>>

InCall(u) == pc[u] \in {"run", "test"}

\* The protected function returns; RecordResult.
Run(u) ==
  /\ InCall(u)
  /\ Goto(u, IF healthy THEN "reset" ELSE "note")
  /\ UNCHANGED <<state, failureCount, halfOpenCalls, age, healthy>>

-------------------------------------------------------------------------------
\* Variant: a success takes one failure back.
ResetFailuresByOne(u) ==
  /\ pc[u] = "reset"
  /\ failureCount' = failureCount - 1
  /\ Goto(u, "load")
  /\ UNCHANGED <<state, halfOpenCalls, age, healthy>>

\* recordSuccess holds successMux throughout.
ResetFailures(u) ==
  /\ pc[u] = "reset"
  /\ \A v \in Users : pc[v] \notin {"load", "close", "clear"}
  /\ failureCount' = 0
  /\ Goto(u, "load")
  /\ UNCHANGED <<state, halfOpenCalls, age, healthy>>

\* Variant: a success closes the breaker whatever its state.
LoadCloseAlways(u) ==
  /\ pc[u] = "load"
  /\ Goto(u, "close")
  /\ UNCHANGED <<state, failureCount, halfOpenCalls, age, healthy>>

LoadClose(u) ==
  /\ pc[u] = "load"
  /\ Goto(u, IF state = "halfOpen" THEN "close" ELSE "idle")
  /\ UNCHANGED <<state, failureCount, halfOpenCalls, age, healthy>>

\* A plain store, whatever the state has become since it was loaded.
StoreClosed(u) ==
  /\ pc[u] = "close"
  /\ state' = "closed"
  /\ Goto(u, "clear")
  /\ UNCHANGED <<failureCount, halfOpenCalls, age, healthy>>

ClearHalfOpen(u) ==
  /\ pc[u] = "clear"
  /\ halfOpenCalls' = 0
  /\ Goto(u, "idle")
  /\ UNCHANGED <<state, failureCount, age, healthy>>

\* Variant: lastFailureTime is not updated.
NoteFailureUntimed(u) ==
  /\ pc[u] = "note"
  /\ failureCount' = Up(failureCount, FailureThreshold)
  /\ Goto(u, "countTrip")
  /\ UNCHANGED <<state, halfOpenCalls, age, healthy>>

\* recordFailure: time and count under failureMux, then shouldOpen outside of it.
NoteFailure(u) ==
  /\ pc[u] = "note"
  /\ age' = 0
  /\ failureCount' = Up(failureCount, FailureThreshold)
  /\ Goto(u, "countTrip")
  /\ UNCHANGED <<state, halfOpenCalls, healthy>>

CountTrip(u) ==
  /\ pc[u] = "countTrip"
  /\ Goto(u, IF OverThreshold THEN "windowTrip" ELSE "idle")
  /\ UNCHANGED <<state, failureCount, halfOpenCalls, age, healthy>>

WindowTrip(u) ==
  /\ pc[u] = "windowTrip"
  /\ Goto(u, IF age <= WindowSize THEN "trip" ELSE "idle")
  /\ UNCHANGED <<state, failureCount, halfOpenCalls, age, healthy>>

\* A plain store, whatever the state and the count have become.
Trip(u) ==
  /\ pc[u] = "trip"
  /\ state' = "open"
  /\ Goto(u, "idle")
  /\ UNCHANGED <<failureCount, halfOpenCalls, age, healthy>>

-------------------------------------------------------------------------------
\* A unit of time passes, but unless SlowRecord not between recordFailure's update
\* of lastFailureTime and its reading of it.
Tick ==
  /\ age < MaxAge
  /\ SlowRecord \/ \A u \in Users : pc[u] \notin {"countTrip", "windowTrip"}
  /\ age' = age + 1
  /\ UNCHANGED <<state, failureCount, halfOpenCalls, pc, healthy>>

\* The service goes down or comes back.
Flip ==
  /\ healthy' = ~healthy
  /\ UNCHANGED <<state, failureCount, halfOpenCalls, age, pc>>

UserStep(u) ==
  \/ IsOpen(u) \/ RemainHalfOpen(u) \/ CountOpen(u) \/ WindowOpen(u)
  \/ TryHalfOpen(u) \/ CheckRecovery(u) \/ SwapHalfOpen(u) \/ ZeroHalfOpen(u)
  \/ LoadMark(u) \/ AddHalfOpen(u) \/ Run(u)
  \/ ResetFailures(u) \/ LoadClose(u) \/ StoreClosed(u) \/ ClearHalfOpen(u)
  \/ NoteFailure(u) \/ CountTrip(u) \/ WindowTrip(u) \/ Trip(u)

Next == (\E u \in Users : UserStep(u)) \/ Tick \/ Flip

Spec == Init /\ [][Next]_vars

\* Calls keep coming, every goroutine is scheduled, the service answers or fails
\* in finite time, and time passes.
Fairness == WF_vars(Tick) /\ \A u \in Users : WF_vars(UserStep(u))

FairSpec == Spec /\ Fairness

-------------------------------------------------------------------------------
(***************************************************************************)
(* Correctness.                                                            *)
(***************************************************************************)

Protocol == INSTANCE BreakerProtocol WITH mode <- state, streak <- failureCount

\* With one caller the loads and stores add up to the pattern of BreakerProtocol:
\* a trip needs a full streak of failures, a probe the recovery timeout, and only
\* a probe's success closes the breaker.
ImplementsProtocol == Protocol!Spec

\* docs/performance-tuning.md:15: "Automatic failure detection and recovery". Once
\* the service stays up, the breaker closes for good. Those who go through Execute have
\* this; in the pool TripIsFinal says the opposite.
Recovers == <>[]healthy => <>[](state = "closed")

\* The other half of that line, for the pool: once the service stays down, no call
\* reaches it any more, also with calls racing through IsOpen and RecordResult.
DetectsFailure == <>[]~healthy => <>[](\A u \in Users : ~InCall(u))

\* A breaker of the pool that has tripped stays so, and no call is admitted that
\* had not passed IsOpen before: what a worker holds drains, nothing follows.
TripIsFinal ==
  [][state = "open" =>
       /\ state' = "open"
       /\ \A u \in Users : pc[u] = "idle" => pc'[u] = "idle"]_vars

=============================================================================
