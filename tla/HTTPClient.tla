------------------------------ MODULE HTTPClient ------------------------------
(***************************************************************************)
(* HTTPClient: Do of the client that a plugin shares between its calls     *)
(* (internal/pkg/http/client.go). A call waits for a tick of the client's  *)
(* ticker, then tries MaxRetries + 1 times, asleep for RetryDelay between  *)
(* two tries. Neither wait looks at the caller's context, and the retries  *)
(* do not wait for the ticker.                                             *)
(*                                                                         *)
(* The caller's module decides what it does with the outcome: Answered and *)
(* GivenUp are to be conjoined with its own step. A tick of the model is   *)
(* one of the ticker, 1000/RateLimitPerSecond ms.                          *)
(***************************************************************************)
EXTENDS Naturals

CONSTANTS
  Users,       \* goroutines that call Do
  MaxRetries,
  RetryDelay   \* in ticks

VARIABLES
  token,   \* rateLimiter.C holds a tick; further ticks are dropped
  request  \* Do's locals: where it is, attempt, and what is left of a sleep

client == <<token, request>>

Request == [at : {"none", "waiting", "sending", "sleeping"}, attempt : 0..MaxRetries,
            timer : 0..RetryDelay]

ClientTypeOK == token \in BOOLEAN /\ request \in [Users -> Request]

NoRequest == [at |-> "none", attempt |-> 0, timer |-> 0]
NewRequest == [at |-> "waiting", attempt |-> 0, timer |-> 0]

ClientInit == token = FALSE /\ request = [u \in Users |-> NoRequest]

\* Get: the request is made and handed to Do.
Get(u) == request' = [request EXCEPT ![u] = NewRequest] /\ UNCHANGED token

TakeTick(u) ==
  /\ request[u].at = "waiting" /\ token
  /\ token' = FALSE
  /\ request' = [request EXCEPT ![u].at = "sending"]

\* Variant: every try is counted as the first.
NextAttemptForgotten(u) == request[u].attempt

NextAttempt(u) == request[u].attempt + 1

\* No connection, no answer within HTTPTimeout, or a status of 500 and more.
Retry(u) ==
  /\ request[u].at = "sending" /\ request[u].attempt < MaxRetries
  /\ request' = [request EXCEPT ![u] =
                   [at |-> "sleeping", attempt |-> NextAttempt(u), timer |-> RetryDelay]]
  /\ UNCHANGED token

Resend(u) ==
  /\ request[u].at = "sleeping" /\ request[u].timer = 0
  /\ request' = [request EXCEPT ![u].at = "sending"]
  /\ UNCHANGED token

\* Any other status is an answer. The caller has the response and goes on to next.
Answered(u, next) ==
  /\ request[u].at = "sending"
  /\ request' = [request EXCEPT ![u] = next]
  /\ UNCHANGED token

\* The last try fails, and the caller gets an error.
GivenUp(u, next) ==
  /\ request[u].at = "sending" /\ request[u].attempt = MaxRetries
  /\ request' = [request EXCEPT ![u] = next]
  /\ UNCHANGED token

ClientStep(u) == TakeTick(u) \/ Retry(u) \/ Resend(u)

\* A sleeper whose time is up sends before the next tick.
ClientTick ==
  /\ \A u \in Users : request[u].at = "sleeping" => request[u].timer > 0
  /\ token' = TRUE
  /\ request' = [u \in Users |-> [request[u] EXCEPT !.timer = IF @ = 0 THEN 0 ELSE @ - 1]]

===============================================================================
