-------------------------- MODULE DomainRateLimiter --------------------------
(***************************************************************************)
(* DomainRateLimiter: the pacing of WorkerPool.Submit by the domain of the *)
(* task's value (internal/pkg/workerpool/domain_rate_limiter.go,           *)
(* domain.go). Callers of ExtractDomainAndWait, of AddDomainConfig and of  *)
(* GetMetrics share one sync.RWMutex; every tracker has a mutex of its own.*)
(*                                                                         *)
(* A read section that touches nothing else is one step, possible while no *)
(* writer waits: a waiting Lock turns new readers away. Only GetMetrics    *)
(* holds the read lock across steps.                                       *)
(*                                                                         *)
(* Time is a sequence of ticks, counted down in timers and up in ages. A   *)
(* limiter (golang.org/x/time/rate) earns one token a tick: the rate of a  *)
(* bucket is the unit its own time is counted in, since no property        *)
(* compares the rates of two.                                              *)
(***************************************************************************)
EXTENDS Integers, FiniteSets

CONSTANTS
  Waiters,      \* goroutines in Submit
  Admins,       \* goroutines in AddDomainConfig
  Observers,    \* goroutines in GetMetrics
  Values,       \* task values: [shape, host]
  Hosts,        \* hosts that occur in values
  WellFormed,   \* the hosts that ValidateDomain's pattern accepts
  Default,      \* "default", the key of the shared limiter and of defaultConfig
  Configs,      \* the configurations AddDomainConfig is called with
  DefaultConfig,
  MaxLimiters,  \* bound: how many limiters a domain gets in its life
  MaxFailures,  \* bound: where a failure count stops, its backoff being at the limit
  Life,         \* how long the contexts of a waiter last, in ticks, or NoDeadline
  NoDeadline,
  NoOne

Domains  == Hosts \cup {Default}
Actors   == Waiters \cup Admins
Config   == [burst : Nat, base : Nat, max : Nat]  \* RequestsPerSecond is one a tick
Limiters == Domains \X (1..MaxLimiters)
Trackers == Domains \X Actors  \* a tracker is named after the goroutine that made it

ASSUME ValueAssumption ==
  /\ Values \subseteq [shape : {"email", "url", "host", "other"}, host : Hosts]
  /\ Default \notin Hosts
ASSUME ConfigAssumption ==
  /\ Configs \cup {DefaultConfig} \subseteq Config
  /\ MaxLimiters \in Nat \ {0}
  /\ MaxFailures \in Nat \ {0}
ASSUME LifeAssumption == NoDeadline \notin Nat /\ Life \in [Waiters -> Nat \cup {NoDeadline}]
ASSUME ActorAssumption ==
  NoOne \notin Actors /\ Waiters \cap Admins = {} /\ IsFiniteSet(Waiters)

VARIABLES
  \* DomainRateLimiter, under mux
  configs,    \* the configuration in force for a domain
  made,       \* how many limiters a domain has had; the last is in limiters
  trackerOf,  \* whose tracker is in backoffTrackers
  pending,    \* the writer that holds or waits for mux, or NoOne
  held,       \* observers that hold the read lock
  \* objects
  limiter,    \* rate.Limiter, with the requests it let through, leaking one a tick
  backoff,    \* BackoffTracker; age is the time since LastFailure
  \* locals
  call,       \* of ExtractDomainAndWait
  adding,     \* the argument of AddDomainConfig
  unread      \* domains GetMetrics has still to read

tables  == <<configs, made, trackerOf>>
mux     == <<pending, held>>
objects == <<limiter, backoff>>
others  == <<adding, unread>>
vars == <<tables, mux, objects, call, others>>

Steps == {"idle", "tracker", "lock", "create", "check", "duration", "sleep", "limiter",
          "default", "reserve", "slot", "granted", "refused"}

\* timer: ticks left of the current sleep; life: of the context; owed: of the
\* backoff the call met, a history that other calls may end.
Call == [at : Steps, domain : Domains, config : Config, tracker : Actors \cup {NoOne},
         limiter : Limiters, timer : Nat, life : Nat \cup {NoDeadline}, owed : Nat]

TypeOK ==
  /\ configs \in [Domains -> Config]
  /\ made \in [Domains -> 0..MaxLimiters]
  /\ trackerOf \in [Domains -> Actors \cup {NoOne}]
  /\ pending \in Actors \cup {NoOne}
  /\ held \subseteq Observers
  /\ limiter \in [Limiters -> [burst : Nat, tokens : Int, granted : Nat]]
  /\ backoff \in [Trackers -> [failures : Nat, current : Nat, age : Nat]]
  /\ call \in [Waiters -> Call]
  /\ adding \in [Admins -> Domains \X Config]
  /\ unread \in [Observers -> SUBSET Domains]

NewLimiter(c) == [burst |-> c.burst, tokens |-> c.burst, granted |-> 0]
NewTracker == [failures |-> 0, current |-> 0, age |-> 0]
NoCall == [at |-> "idle", domain |-> Default, config |-> DefaultConfig, tracker |-> NoOne,
           limiter |-> <<Default, 1>>, timer |-> 0, life |-> 0, owed |-> 0]

\* NewDomainRateLimiter: the default limiter is full, and there is no other.
Init ==
  /\ configs = [d \in Domains |-> DefaultConfig]
  /\ made = [d \in Domains |-> IF d = Default THEN 1 ELSE 0]
  /\ trackerOf = [d \in Domains |-> NoOne]
  /\ pending = NoOne
  /\ held = {}
  /\ limiter = [b \in Limiters |-> NewLimiter(DefaultConfig)]
  /\ backoff = [t \in Trackers |-> NewTracker]
  /\ call = [w \in Waiters |-> NoCall]
  /\ adding = [a \in Admins |-> <<Default, DefaultConfig>>]
  /\ unread = [o \in Observers |-> {}]

-------------------------------------------------------------------------------
\* The pieces of sync.RWMutex: a reader gets in while no writer is announced, a
\* writer acts once it is announced and the readers have left.
CanRead == pending = NoOne
Announce(a) == pending = NoOne /\ pending' = a /\ UNCHANGED held
MayWrite(a) == pending = a /\ held = {}

\* Variant: a path that leaves the section without unlocking.
UnlockForgotten == UNCHANGED mux

Unlock == pending' = NoOne /\ UNCHANGED held

At(w, step) == call[w].at = step
Goto(w, step) == call' = [call EXCEPT ![w].at = step]
Expired(w) == call[w].life = 0
Mine(w) == <<call[w].domain, call[w].tracker>>

\* ExtractDomain: e-mail addresses, URLs and host names have a domain, any other
\* value goes to the shared limiter.
ExtractDomain(v) == IF v.shape = "other" THEN Default ELSE v.host

ValidateDomain(d) == d = Default \/ d \in WellFormed

\* ExtractDomainAndWait, and Wait up to and including GetDomainConfig.
ReadConfig(w) ==
  /\ At(w, "idle") /\ CanRead
  /\ \E v \in Values :
       call' = [call EXCEPT ![w].at = "tracker", ![w].domain = ExtractDomain(v),
                            ![w].config = configs[ExtractDomain(v)], ![w].life = Life[w]]
  /\ UNCHANGED <<tables, mux, objects, others>>

\* getBackoffTracker under the read lock.
ReadTracker(w) ==
  LET found == trackerOf[call[w].domain]
  IN /\ At(w, "tracker") /\ CanRead
     /\ call' = [call EXCEPT ![w].at = IF found = NoOne THEN "lock" ELSE "check",
                             ![w].tracker = found]
     /\ UNCHANGED <<tables, mux, objects, others>>

LockTrackers(w) ==
  /\ At(w, "lock") /\ Announce(w)
  /\ Goto(w, "create")
  /\ UNCHANGED <<tables, objects, others>>

\* Variant: the write section does not look again.
TrackerToUseUnchecked(d, a) == a

\* The tracker in the table, or a new one: getBackoffTracker's double-check under
\* the write lock, and AddDomainConfig's test.
TrackerToUse(d, a) == IF trackerOf[d] = NoOne THEN a ELSE trackerOf[d]

CreateTracker(w) ==
  LET used == TrackerToUse(call[w].domain, w)
  IN /\ At(w, "create") /\ MayWrite(w)
     /\ trackerOf' = [trackerOf EXCEPT ![call[w].domain] = used]
     /\ call' = [call EXCEPT ![w].at = "check", ![w].tracker = used]
     /\ Unlock
     /\ UNCHANGED <<configs, made, objects, others>>

TimeLeft(t) == IF backoff[t].age < backoff[t].current
               THEN backoff[t].current - backoff[t].age ELSE 0

IsInBackoff(t) == backoff[t].failures # 0 /\ backoff[t].age < backoff[t].current

CheckBackoff(w) ==
  /\ At(w, "check")
  /\ call' = [call EXCEPT ![w].at = IF IsInBackoff(Mine(w)) THEN "duration" ELSE "limiter",
                          ![w].owed = TimeLeft(Mine(w))]
  /\ UNCHANGED <<tables, mux, objects, others>>

\* Variant: the caller sleeps for the base of its own configuration.
SleepTimeBase(w) == IF backoff[Mine(w)].current = 0 THEN 0 ELSE call[w].config.base

\* getCurrentBackoff, after the mutex of isInBackoff was released: the caller
\* sleeps for the whole backoff, not for what is left of it.
SleepTime(w) == backoff[Mine(w)].current

ReadDuration(w) ==
  /\ At(w, "duration")
  /\ call' = [call EXCEPT ![w].at = "sleep", ![w].timer = SleepTime(w)]
  /\ UNCHANGED <<tables, mux, objects, others>>

WakeUp(w) ==
  /\ At(w, "sleep") /\ call[w].timer = 0
  /\ Goto(w, "limiter")
  /\ UNCHANGED <<tables, mux, objects, others>>

\* ctx.Done() during the backoff: an error, and no failure is recorded.
GiveUp(w) ==
  /\ At(w, "sleep") /\ Expired(w)
  /\ call' = [call EXCEPT ![w] = NoCall]
  /\ UNCHANGED <<tables, mux, objects, others>>

ReadLimiter(w) ==
  LET d == call[w].domain
  IN /\ At(w, "limiter") /\ CanRead
     /\ call' = IF made[d] = 0
                THEN [call EXCEPT ![w].at = "default"]
                ELSE [call EXCEPT ![w].at = "reserve", ![w].limiter = <<d, made[d]>>]
     /\ UNCHANGED <<tables, mux, objects, others>>

\* A domain without a configuration has no limiter of its own.
ReadDefaultLimiter(w) ==
  /\ At(w, "default") /\ CanRead
  /\ call' = [call EXCEPT ![w].at = "reserve", ![w].limiter = <<Default, made[Default]>>]
  /\ UNCHANGED <<tables, mux, objects, others>>

-------------------------------------------------------------------------------
(***************************************************************************)
(* limiter.Wait: a token, now or by a reservation that may drive the       *)
(* count below zero, or a refusal.                                         *)
(***************************************************************************)

\* Ticks until the next free token.
WaitTime(b) == IF limiter[b].tokens >= 1 THEN 0 ELSE 1 - limiter[b].tokens

\* A limiter without a burst gives no tokens, and no call is made to wait for a
\* token that would come after its deadline.
Refuses(w) ==
  \/ Expired(w)
  \/ limiter[call[w].limiter].burst = 0
  \/ call[w].life # NoDeadline /\ WaitTime(call[w].limiter) > call[w].life

\* Variant: the error is dropped.
RefusedGoesOn == "slot"

\* Wait's error branch.
Refused == "refused"

Reserve(w) ==
  /\ At(w, "reserve")
  /\ IF Refuses(w)
     THEN Goto(w, Refused) /\ UNCHANGED limiter
     ELSE /\ limiter' = [limiter EXCEPT ![call[w].limiter].tokens = @ - 1]
          /\ call' = [call EXCEPT ![w].at = "slot", ![w].timer = WaitTime(call[w].limiter)]
  /\ UNCHANGED <<tables, mux, backoff, others>>

TakeSlot(w) ==
  /\ At(w, "slot") /\ call[w].timer = 0
  /\ limiter' = [limiter EXCEPT ![call[w].limiter].granted = @ + 1]
  /\ Goto(w, "granted")
  /\ UNCHANGED <<tables, mux, backoff, others>>

\* The context ends as the slot comes, not before, or the token would have been
\* refused: it is too late to give the reservation back.
CancelSlot(w) ==
  /\ At(w, "slot") /\ Expired(w)
  /\ Goto(w, Refused)
  /\ UNCHANGED <<tables, mux, objects, others>>

-------------------------------------------------------------------------------
\* Variant: a success takes one failure back.
AfterSuccessByOne(t) == [backoff[t] EXCEPT !.failures = @ - 1]

\* recordSuccess. Nothing looks at the age when there is no failure.
AfterSuccess(t) == NewTracker

\* Wait returns nil; a backoff other callers have met is over.
RecordSuccess(w) ==
  /\ At(w, "granted")
  /\ backoff' = [backoff EXCEPT ![Mine(w)] = AfterSuccess(Mine(w))]
  /\ call' = [v \in Waiters |-> IF v = w THEN NoCall
              ELSE [call[v] EXCEPT !.owed = IF Mine(v) = Mine(w) THEN 0 ELSE @]]
  /\ UNCHANGED <<tables, mux, limiter, others>>

Capped(n, c) == IF n > c.max THEN c.max ELSE n

\* recordFailure, with the configuration read at the start of the call.
AfterFailure(t, c) ==
  LET n == backoff[t].failures + 1
  IN [failures |-> IF n > MaxFailures THEN MaxFailures ELSE n,
      current |-> Capped(c.base * n, c), age |-> 0]

\* Wait returns an error, also when it was the caller's own context that ended.
RecordFailure(w) ==
  /\ At(w, "refused")
  /\ backoff' = [backoff EXCEPT ![Mine(w)] = AfterFailure(Mine(w), call[w].config)]
  /\ call' = [call EXCEPT ![w] = NoCall]
  /\ UNCHANGED <<tables, mux, limiter, others>>

-------------------------------------------------------------------------------
\* AddDomainConfig up to the write lock.
LockConfigs(a) ==
  /\ Announce(a)
  /\ \E d \in Domains, c \in Configs :
       /\ ValidateDomain(d)
       /\ made[d] < MaxLimiters
       /\ adding' = [adding EXCEPT ![a] = <<d, c>>]
  /\ UNCHANGED <<tables, objects, call, unread>>

\* The limiter is replaced by a full one, an existing tracker is kept.
AddConfig(a) ==
  LET d == adding[a][1]
      c == adding[a][2]
  IN /\ MayWrite(a)
     /\ configs' = [configs EXCEPT ![d] = c]
     /\ made' = [made EXCEPT ![d] = @ + 1]
     /\ limiter' = [limiter EXCEPT ![<<d, made[d] + 1>>] = NewLimiter(c)]
     /\ trackerOf' = [trackerOf EXCEPT ![d] = TrackerToUse(d, a)]
     /\ adding' = [adding EXCEPT ![a] = <<Default, DefaultConfig>>]
     /\ Unlock
     /\ UNCHANGED <<backoff, call, unread>>

\* GetMetrics takes the read lock for the whole of its loop.
BeginMetrics(o) ==
  /\ o \notin held /\ CanRead
  /\ held' = held \cup {o}
  /\ unread' = [unread EXCEPT ![o] =
                  {d \in Domains \ {Default} : trackerOf[d] # NoOne}]
  /\ UNCHANGED <<tables, pending, objects, call, adding>>

\* The loop calls GetDomainConfig, which takes the read lock once more.
ReadMetrics(o, d) ==
  /\ d \in unread[o] /\ CanRead
  /\ unread' = [unread EXCEPT ![o] = @ \ {d}]
  /\ UNCHANGED <<tables, mux, objects, call, adding>>

EndMetrics(o) ==
  /\ o \in held /\ unread[o] = {}
  /\ held' = held \ {o}
  /\ UNCHANGED <<tables, pending, objects, call, others>>

-------------------------------------------------------------------------------
Down(n) == IF n = 0 \/ n = NoDeadline THEN n ELSE n - 1

\* A goroutine whose timer has fired runs before the next tick. An age beyond the
\* backoff says no more than one equal to it.
Tick ==
  /\ \A w \in Waiters : call[w].at \in {"sleep", "slot"} => call[w].timer > 0
  /\ limiter' = [b \in Limiters |-> [limiter[b] EXCEPT
        !.tokens = IF @ < limiter[b].burst THEN @ + 1 ELSE @, !.granted = Down(@)]]
  /\ backoff' = [t \in Trackers |-> [backoff[t] EXCEPT
        !.age = IF @ < backoff[t].current THEN @ + 1 ELSE @]]
  /\ call' = [w \in Waiters |-> [call[w] EXCEPT
        !.timer = Down(@), !.life = Down(@), !.owed = Down(@)]]
  /\ UNCHANGED <<tables, mux, others>>

WaitStep(w) ==
  \/ ReadTracker(w) \/ LockTrackers(w) \/ CreateTracker(w)
  \/ CheckBackoff(w) \/ ReadDuration(w) \/ WakeUp(w) \/ GiveUp(w)
  \/ ReadLimiter(w) \/ ReadDefaultLimiter(w)
  \/ Reserve(w) \/ TakeSlot(w) \/ CancelSlot(w)
  \/ RecordSuccess(w) \/ RecordFailure(w)

MetricsStep(o) == EndMetrics(o) \/ \E d \in Domains : ReadMetrics(o, d)

Next ==
  \/ \E w \in Waiters : ReadConfig(w) \/ WaitStep(w)
  \/ \E a \in Admins : LockConfigs(a) \/ AddConfig(a)
  \/ \E o \in Observers : BeginMetrics(o) \/ MetricsStep(o)
  \/ Tick

Spec == Init /\ [][Next]_vars

\* Goroutines that can run do, and time passes. A blocked reader of an RWMutex is
\* let in between two writers, so a call's steps get the strong form.
Fairness ==
  /\ WF_vars(Tick)
  /\ \A w \in Waiters : SF_vars(WaitStep(w))
  /\ \A a \in Admins : WF_vars(AddConfig(a))
  /\ \A o \in Observers : WF_vars(MetricsStep(o))

FairSpec == Spec /\ Fairness

-------------------------------------------------------------------------------
(***************************************************************************)
(* Correctness.                                                            *)
(***************************************************************************)

\* All calls for a domain share one tracker, however many find none at the same
\* time and whoever makes it: no failure is recorded where no later call looks.
OneTracker == \A w \in Waiters :
  call[w].at \notin {"idle", "tracker", "lock", "create"} =>
    call[w].tracker = trackerOf[call[w].domain]

\* No limiter lets more requests through in a stretch of time than its burst and
\* one for each tick, with refusals, cancelled contexts and replaced limiters.
Paced == \A b \in Limiters : limiter[b].granted <= limiter[b].burst

\* No configuration backs off for less after one more failure than another does.
\* The count of failures stops beyond MaxFailures.
NeverShorter ==
  \A c, d \in Configs \cup {DefaultConfig} : \A n \in 1..MaxFailures + 1 :
    Capped(c.base * n, c) <= Capped(d.base * (IF n > MaxFailures THEN n ELSE n + 1), d)

\* A call that finds its domain in backoff asks for a token only once that backoff
\* is over or another call has succeeded, though the end of the backoff and its
\* length are read under separate locks and may change between them. Where a new
\* configuration is more lenient than the old, a failure under the new one may
\* shorten the backoff in between.
BackoffHonoured == NeverShorter => \A w \in Waiters :
  call[w].at \in {"limiter", "default", "reserve", "slot", "granted"} => call[w].owed = 0

\* GetMetrics and a writer wait for each other.
LockedUp == pending # NoOne /\ \E o \in held : unread[o] # {}

\* Every Wait returns, also without a deadline, unless a GetMetrics was overtaken
\* by a writer between its two read locks.
WaitReturns == <>LockedUp \/ \A w \in Waiters : ~At(w, "idle") ~> At(w, "idle")

=============================================================================
