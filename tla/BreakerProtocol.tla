---------------------------- MODULE BreakerProtocol ----------------------------
(***************************************************************************)
(* The circuit breaker pattern: a streak of FailureThreshold failures      *)
(* opens the breaker, after RecoveryTimeout it lets a probe through, and   *)
(* the probe's result closes it or opens it again. Nothing succeeds or     *)
(* fails behind an open breaker.                                           *)
(***************************************************************************)
EXTENDS Naturals

CONSTANTS FailureThreshold, RecoveryTimeout, WindowSize

VARIABLES
  mode,    \* "closed", "open" or "halfOpen"
  streak,  \* failures since the last success, up to FailureThreshold
  age      \* time since the last failure

vars == <<mode, streak, age>>

MaxAge == WindowSize + RecoveryTimeout

Init == mode = "closed" /\ streak = 0 /\ age = MaxAge

Succeed ==
  /\ mode # "open"
  /\ streak' = 0
  /\ UNCHANGED <<mode, age>>

Fail ==
  /\ mode # "open"
  /\ streak' = IF streak < FailureThreshold THEN streak + 1 ELSE streak
  /\ age' = 0
  /\ UNCHANGED mode

Open ==
  /\ mode # "open"
  /\ streak = FailureThreshold
  /\ mode' = "open"
  /\ UNCHANGED <<streak, age>>

Probe ==
  /\ mode = "open"
  /\ age >= RecoveryTimeout
  /\ mode' = "halfOpen"
  /\ UNCHANGED <<streak, age>>

Close ==
  /\ mode = "halfOpen"
  /\ streak = 0
  /\ mode' = "closed"
  /\ UNCHANGED <<streak, age>>

Wait ==
  /\ age < MaxAge
  /\ age' = age + 1
  /\ UNCHANGED <<mode, streak>>

Next == Succeed \/ Fail \/ Open \/ Probe \/ Close \/ Wait

Spec == Init /\ [][Next]_vars

=============================================================================
