------------------------ MODULE CircuitBreaker_proofs ------------------------
(***************************************************************************)
(* Theorems about CircuitBreaker, for any thresholds, times and users: its *)
(* types, the finality of a trip among the callers the worker pool has,    *)
(* and the refinement of BreakerProtocol by a single caller of Execute,    *)
(* however slow.                                                           *)
(***************************************************************************)
EXTENDS CircuitBreaker, TLAPS

(***************************************************************************)
(* Types.                                                                  *)
(***************************************************************************)

LEMMA UpType ==
  ASSUME NEW limit \in Nat \ {0}, NEW n \in 0..limit
  PROVE  /\ Up(n, limit) \in 0..limit
         /\ Up(n, limit) # 0
BY DEF Up

LEMMA AgeType ==
  /\ MaxAge \in Nat
  /\ RecoveryTimeout <= MaxAge
BY ConfigAssumption DEF MaxAge

LEMMA TypeInit == Init => TypeOK
BY AgeType, ConfigAssumption
   DEF Init, TypeOK

LEMMA TypeNext == TypeOK /\ [Next]_vars => TypeOK'
<1> SUFFICES ASSUME TypeOK, [Next]_vars PROVE TypeOK'
  OBVIOUS
<1> USE DEF TypeOK, IsOpenSteps, TryHalfOpenSteps, ExecuteSteps, SuccessSteps,
            FailureSteps, Goto
<1>1. ASSUME NEW u \in Users, UserStep(u) PROVE TypeOK'
  <2>1. CASE IsOpen(u)
    BY <2>1 DEF IsOpen, Block
  <2>2. CASE RemainHalfOpen(u)
    BY <2>2 DEF RemainHalfOpen, Block, Admit
  <2>3. CASE CountOpen(u) \/ WindowOpen(u)
    BY <2>3 DEF CountOpen, WindowOpen, Block, Admit
  <2>4. CASE TryHalfOpen(u) \/ CheckRecovery(u) \/ SwapHalfOpen(u)
    BY <2>4 DEF TryHalfOpen, CheckRecovery, SwapHalfOpen
  <2>5. CASE ZeroHalfOpen(u) \/ ClearHalfOpen(u)
    BY <2>5, ConfigAssumption DEF ZeroHalfOpen, ClearHalfOpen
  <2>6. CASE AddHalfOpen(u)
    BY <2>6, UpType, ConfigAssumption DEF AddHalfOpen
  <2>7. CASE LoadMark(u) \/ Run(u)
    BY <2>7 DEF LoadMark, Run
  <2>8. CASE ResetFailures(u)
    BY <2>8, ConfigAssumption DEF ResetFailures
  <2>9. CASE LoadClose(u) \/ StoreClosed(u)
    BY <2>9 DEF LoadClose, StoreClosed
  <2>10. CASE NoteFailure(u)
    BY <2>10, UpType, AgeType, ConfigAssumption DEF NoteFailure
  <2>11. CASE CountTrip(u) \/ WindowTrip(u) \/ Trip(u)
    BY <2>11 DEF CountTrip, WindowTrip, Trip
  <2>. QED
    BY <1>1, <2>1, <2>2, <2>3, <2>4, <2>5, <2>6, <2>7, <2>8, <2>9, <2>10, <2>11
    DEF UserStep
<1>2. CASE Tick
  BY <1>2, AgeType DEF Tick
<1>3. CASE Flip
  BY <1>3 DEF Flip
<1>4. CASE UNCHANGED vars
  BY <1>4 DEF vars
<1>. QED
  BY <1>1, <1>2, <1>3, <1>4 DEF Next

\* The breaker and its callers keep their types, and counts stay at their limits.
THEOREM BreakerTypeCorrect == Spec => []TypeOK
BY TypeInit, TypeNext, PTL DEF Spec

(***************************************************************************)
(* The pool's callers. Nothing of theirs reaches the half-open state, so   *)
(* the store of closed in recordSuccess is out of their reach as well.     *)
(***************************************************************************)

PoolSteps == {"idle", "run", "countOpen", "windowOpen", "reset", "load"} \cup FailureSteps

NeverHalfOpen ==
  /\ state # "halfOpen"
  /\ \A u \in Users : pc[u] \in PoolSteps

LEMMA PoolInit == Init => NeverHalfOpen
BY DEF Init, NeverHalfOpen, PoolSteps

LEMMA PoolNext ==
  ~UseExecute /\ TypeOK /\ NeverHalfOpen /\ [Next]_vars => NeverHalfOpen'
<1> SUFFICES ASSUME ~UseExecute, TypeOK, NeverHalfOpen, [Next]_vars
             PROVE  NeverHalfOpen'
  OBVIOUS
<1> USE DEF TypeOK, NeverHalfOpen, PoolSteps, FailureSteps, Goto
<1>1. ASSUME NEW u \in Users, UserStep(u) PROVE NeverHalfOpen'
  <2>0. pc[u] \in PoolSteps
    OBVIOUS
  <2>1. CASE IsOpen(u)
    BY <2>1 DEF IsOpen, Block
  <2>2. CASE CountOpen(u) \/ WindowOpen(u)
    BY <2>2 DEF CountOpen, WindowOpen, Block, Admit
  <2>3. CASE Run(u) \/ ResetFailures(u) \/ LoadClose(u)
    BY <2>3 DEF Run, ResetFailures, LoadClose
  <2>4. CASE NoteFailure(u) \/ CountTrip(u) \/ WindowTrip(u) \/ Trip(u)
    BY <2>4 DEF NoteFailure, CountTrip, WindowTrip, Trip
  <2>5. CASE \/ RemainHalfOpen(u) \/ TryHalfOpen(u) \/ CheckRecovery(u)
             \/ SwapHalfOpen(u) \/ ZeroHalfOpen(u) \/ LoadMark(u)
             \/ AddHalfOpen(u) \/ StoreClosed(u) \/ ClearHalfOpen(u)
    BY <2>0, <2>5
    DEF RemainHalfOpen, TryHalfOpen, CheckRecovery, SwapHalfOpen, ZeroHalfOpen,
        LoadMark, AddHalfOpen, StoreClosed, ClearHalfOpen
  <2>. QED
    BY <1>1, <2>1, <2>2, <2>3, <2>4, <2>5 DEF UserStep
<1>2. CASE Tick \/ Flip \/ UNCHANGED vars
  BY <1>2 DEF Tick, Flip, vars
<1>. QED
  BY <1>1, <1>2 DEF Next

\* A step of the pool's callers leaves an open breaker open and admits nobody.
LEMMA OpenStays ==
  ASSUME ~UseExecute, TypeOK, NeverHalfOpen, [Next]_vars, state = "open"
  PROVE  /\ state' = "open"
         /\ \A u \in Users : pc[u] = "idle" => pc'[u] = "idle"
<1>1. ASSUME NEW v \in Users, UserStep(v)
      PROVE  /\ state' = "open"
             /\ \A u \in Users : pc[u] = "idle" => pc'[u] = "idle"
  <2> USE DEF TypeOK, Goto
  <2>0. pc[v] \in PoolSteps
    BY DEF NeverHalfOpen
  <2>1. CASE pc[v] = "idle"
    BY <1>1, <2>1
    DEF UserStep, IsOpen, Block, RemainHalfOpen, CountOpen, WindowOpen, TryHalfOpen,
        CheckRecovery, SwapHalfOpen, ZeroHalfOpen, LoadMark, AddHalfOpen, Run, InCall,
        ResetFailures, LoadClose, StoreClosed, ClearHalfOpen, NoteFailure, CountTrip,
        WindowTrip, Trip
  <2>2. CASE pc[v] # "idle"
    <3>1. state' = "open"
      BY <1>1, <2>0
      DEF PoolSteps, FailureSteps, UserStep, IsOpen, RemainHalfOpen, CountOpen,
          WindowOpen, TryHalfOpen, CheckRecovery, SwapHalfOpen, ZeroHalfOpen, LoadMark,
          AddHalfOpen, Run, ResetFailures, LoadClose, StoreClosed, ClearHalfOpen,
          NoteFailure, CountTrip, WindowTrip, Trip
    <3>2. \A u \in Users \ {v} : pc'[u] = pc[u]
      BY <1>1
      DEF UserStep, IsOpen, Block, Admit, RemainHalfOpen, CountOpen, WindowOpen,
          TryHalfOpen, CheckRecovery, SwapHalfOpen, ZeroHalfOpen, LoadMark, AddHalfOpen,
          Run, ResetFailures, LoadClose, StoreClosed, ClearHalfOpen, NoteFailure,
          CountTrip, WindowTrip, Trip
    <3>. QED
      BY <2>2, <3>1, <3>2
  <2>. QED
    BY <2>1, <2>2
<1>2. CASE Tick \/ Flip \/ UNCHANGED vars
  BY <1>2 DEF Tick, Flip, vars
<1>. QED
  BY <1>1, <1>2 DEF Next

\* Among the callers the worker pool has, however many and however slow, a breaker
\* that has tripped stays open and admits no call that had not passed IsOpen.
THEOREM TrippedStaysTripped == ~UseExecute => (Spec => TripIsFinal)
<1> SUFFICES ASSUME ~UseExecute PROVE Spec => TripIsFinal
  OBVIOUS
<1> DEFINE Final == state = "open" =>
             /\ state' = "open"
             /\ \A u \in Users : pc[u] = "idle" => pc'[u] = "idle"
<1>1. TypeOK /\ NeverHalfOpen /\ [Next]_vars => [Final]_vars
  BY OpenStays
<1>2. NeverHalfOpen /\ TypeOK /\ [Next]_vars => NeverHalfOpen'
  BY PoolNext
<1>. QED
  BY <1>1, <1>2, PoolInit, BreakerTypeCorrect, PTL DEF Spec, TripIsFinal

(***************************************************************************)
(* A single caller of Execute. Between IsOpen and the end of its call      *)
(* nothing changes the breaker behind its back: it never runs, succeeds    *)
(* or fails behind an open breaker, it swaps only after RecoveryTimeout,   *)
(* closes a half-open breaker whose streak it has reset, and opens one     *)
(* whose streak is complete.                                               *)
(***************************************************************************)

Alone ==
  \A u \in Users :
    /\ pc[u] \in {"stayHalfOpen", "countOpen", "windowOpen", "zero", "mark", "add",
                  "run", "test", "reset", "load", "close", "clear", "note",
                  "countTrip", "windowTrip", "trip"}
         => state # "open"
    /\ pc[u] = "swap" => age >= RecoveryTimeout
    /\ pc[u] \in {"load", "close"} => failureCount = 0
    /\ pc[u] = "close" => state = "halfOpen"
    /\ pc[u] \in {"windowTrip", "trip"} => failureCount = FailureThreshold

LEMMA AloneInit == Init => Alone
BY DEF Init, Alone

LEMMA AloneNext ==
  ASSUME NEW caller, Users = {caller}, UseExecute, TypeOK, Alone, [Next]_vars
  PROVE  Alone'
<1> USE DEF TypeOK, Alone, Goto
<1>0. age \in Nat
  BY AgeType
<1>1. CASE UserStep(caller)
  <2>1. CASE IsOpen(caller) \/ RemainHalfOpen(caller)
    BY <2>1 DEF IsOpen, RemainHalfOpen, Block, Admit
  <2>2. CASE CountOpen(caller) \/ WindowOpen(caller)
    BY <2>2 DEF CountOpen, WindowOpen, Block, Admit
  <2>3. CASE TryHalfOpen(caller) \/ CheckRecovery(caller)
    BY <2>3 DEF TryHalfOpen, CheckRecovery, RecoveryElapsed
  <2>4. CASE SwapHalfOpen(caller) \/ ZeroHalfOpen(caller)
    BY <2>4 DEF SwapHalfOpen, ZeroHalfOpen
  <2>5. CASE LoadMark(caller) \/ AddHalfOpen(caller) \/ Run(caller)
    BY <2>5 DEF LoadMark, AddHalfOpen, Run, InCall
  <2>6. CASE ResetFailures(caller) \/ LoadClose(caller)
    BY <2>6 DEF ResetFailures, LoadClose
  <2>7. CASE StoreClosed(caller) \/ ClearHalfOpen(caller)
    BY <2>7 DEF StoreClosed, ClearHalfOpen
  <2>8. CASE NoteFailure(caller) \/ WindowTrip(caller) \/ Trip(caller)
    BY <2>8 DEF NoteFailure, WindowTrip, Trip
  <2>9. CASE CountTrip(caller)
    BY <2>9, ConfigAssumption DEF CountTrip, OverThreshold
  <2>. QED
    BY <1>1, <2>1, <2>2, <2>3, <2>4, <2>5, <2>6, <2>7, <2>8, <2>9 DEF UserStep
<1>2. CASE Tick
  BY <1>0, <1>2, ConfigAssumption DEF Tick
<1>3. CASE Flip \/ UNCHANGED vars
  BY <1>3 DEF Flip, vars
<1>. QED
  BY <1>1, <1>2, <1>3 DEF Next

LEMMA ProtocolInit == Init => Protocol!Init
BY DEF Init, Protocol!Init, MaxAge, Protocol!MaxAge

\* The loads and stores of the caller are steps of the pattern, or none of them.
LEMMA ProtocolNext ==
  ASSUME NEW caller, Users = {caller}, UseExecute, TypeOK, Alone, [Next]_vars
  PROVE  [Protocol!Next]_Protocol!vars
<1> USE DEF TypeOK, Alone
<1>1. CASE UserStep(caller)
  <2>1. CASE SwapHalfOpen(caller)
    BY <2>1 DEF SwapHalfOpen, Protocol!Next, Protocol!Probe, Protocol!vars
  <2>2. CASE ResetFailures(caller)
    BY <2>2 DEF ResetFailures, Protocol!Next, Protocol!Succeed
  <2>3. CASE StoreClosed(caller)
    BY <2>3 DEF StoreClosed, Protocol!Next, Protocol!Close
  <2>4. CASE NoteFailure(caller)
    BY <2>4 DEF NoteFailure, Up, Protocol!Next, Protocol!Fail
  <2>5. CASE Trip(caller)
    BY <2>5 DEF Trip, Protocol!Next, Protocol!Open
  <2>6. CASE \/ IsOpen(caller) \/ RemainHalfOpen(caller) \/ CountOpen(caller)
             \/ WindowOpen(caller) \/ TryHalfOpen(caller) \/ CheckRecovery(caller)
             \/ ZeroHalfOpen(caller) \/ LoadMark(caller) \/ AddHalfOpen(caller)
             \/ Run(caller) \/ LoadClose(caller) \/ ClearHalfOpen(caller)
             \/ CountTrip(caller) \/ WindowTrip(caller)
    BY <2>6
    DEF IsOpen, RemainHalfOpen, CountOpen, WindowOpen, TryHalfOpen, CheckRecovery,
        ZeroHalfOpen, LoadMark, AddHalfOpen, Run, LoadClose, ClearHalfOpen, CountTrip,
        WindowTrip, Protocol!vars
  <2>. QED
    BY <1>1, <2>1, <2>2, <2>3, <2>4, <2>5, <2>6 DEF UserStep
<1>2. CASE Tick
  BY <1>2 DEF Tick, MaxAge, Protocol!Next, Protocol!Wait, Protocol!MaxAge
<1>3. CASE Flip \/ UNCHANGED vars
  BY <1>3 DEF Flip, vars, Protocol!vars
<1>. QED
  BY <1>1, <1>2, <1>3 DEF Next

\* One goroutine that goes through Execute sees the circuit breaker pattern, for
\* every threshold and timeout and however long it is held up between two accesses.
THEOREM AloneImplementsProtocol ==
  ASSUME NEW CONSTANT caller, Users = {caller}, UseExecute
  PROVE  Spec => ImplementsProtocol
<1>1. TypeOK /\ Alone /\ [Next]_vars => Alone'
  BY AloneNext
<1>2. TypeOK /\ Alone /\ [Next]_vars => [Protocol!Next]_Protocol!vars
  BY ProtocolNext
<1>. QED
  BY <1>1, <1>2, AloneInit, ProtocolInit, BreakerTypeCorrect, PTL
  DEF Spec, ImplementsProtocol, Protocol!Spec

=============================================================================
