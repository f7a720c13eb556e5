------------------------ MODULE DomainRateLimiter_proofs ------------------------
(***************************************************************************)
(* Proofs about DomainRateLimiter, for any goroutines, domains and         *)
(* configurations. OneTracker is inductive once it also says that a call   *)
(* that has a tracker has a real one: a tracker in the table is never      *)
(* replaced, so it must not be read before there is one. The pace of a     *)
(* bucket holds because the calls that wait for it stand in the slots of   *)
(* its debt, no two in one; a backoff is waited for because what a call    *)
(* met can only grow until it has read how long it is to wait.             *)
(***************************************************************************)
EXTENDS DomainRateLimiter, FiniteSetTheorems, TLAPS

HasTracker(w) == call[w].at \notin {"idle", "tracker", "lock", "create"}

TrackerReal == \A w \in Waiters : HasTracker(w) => call[w].tracker # NoOne

\* The shared limiter is there from the start.
DefaultMade == made[Default] # 0

\* A configuration that is being added finds room for its limiter.
RoomLeft == \A a \in Admins : pending = a => made[adding[a][1]] < MaxLimiters

IInv == TypeOK /\ OneTracker /\ TrackerReal /\ DefaultMade /\ RoomLeft

LEMMA Constants ==
  /\ Default \in Domains
  /\ DefaultConfig \in Config /\ \A c \in Configs : c \in Config
  /\ MaxLimiters \in Nat /\ MaxLimiters >= 1 /\ MaxFailures \in Nat /\ MaxFailures >= 1
  /\ \A v \in Values : ExtractDomain(v) \in Domains
BY ConfigAssumption, ValueAssumption DEF Domains, ExtractDomain

LEMMA StepNames ==
  /\ "idle" \in Steps /\ "tracker" \in Steps /\ "lock" \in Steps /\ "create" \in Steps
  /\ "check" \in Steps /\ "duration" \in Steps /\ "sleep" \in Steps /\ "limiter" \in Steps
  /\ "default" \in Steps /\ "reserve" \in Steps /\ "slot" \in Steps
  /\ "granted" \in Steps /\ "refused" \in Steps
BY DEF Steps

LEMMA NoCallType == NoCall \in Call
<1>1. <<Default, 1>> \in Limiters
  BY Constants DEF Limiters
<1> QED
  BY <1>1, Constants DEF NoCall, Call, Steps

LEMMA InitEstablishes == Init => IInv
<1> SUFFICES ASSUME Init PROVE IInv
  OBVIOUS
<1>1. \A c \in Config : NewLimiter(c) \in [burst : Nat, tokens : Int, granted : Nat]
  BY DEF Config, NewLimiter
<1>2. NewTracker \in [failures : Nat, current : Nat, age : Nat]
  BY DEF NewTracker
<1>3. TypeOK
  BY <1>1, <1>2, Constants, NoCallType DEF Init, TypeOK
<1>4. \A w \in Waiters : ~HasTracker(w)
  BY DEF Init, NoCall, HasTracker
<1> QED
  BY <1>3, <1>4, Constants, ActorAssumption
  DEF IInv, OneTracker, TrackerReal, HasTracker, DefaultMade, RoomLeft, Init, Actors

-------------------------------------------------------------------------------
(***************************************************************************)
(* Types.                                                                  *)
(***************************************************************************)

\* What a call may be changed to, field by field.
LEMMA CallField ==
  ASSUME TypeOK, NEW w \in Waiters
  PROVE  /\ call[w].at \in Steps /\ call[w].domain \in Domains /\ call[w].config \in Config
         /\ call[w].tracker \in Actors \cup {NoOne} /\ call[w].limiter \in Limiters
         /\ call[w].timer \in Nat /\ call[w].life \in Nat \cup {NoDeadline}
         /\ call[w].owed \in Nat
BY DEF TypeOK, Call

LEMMA GotoType ==
  ASSUME TypeOK, NEW w \in Waiters, NEW step \in Steps, Goto(w, step)
  PROVE  call' \in [Waiters -> Call]
BY ZenonT(40) DEF TypeOK, Call, Goto

LEMMA DownType ==
  /\ \A n \in Nat : Down(n) \in Nat
  /\ \A n \in Nat \cup {NoDeadline} : Down(n) \in Nat \cup {NoDeadline}
BY LifeAssumption DEF Down

LEMMA LimiterField ==
  ASSUME TypeOK, NEW b \in Limiters
  PROVE  /\ limiter[b].burst \in Nat /\ limiter[b].tokens \in Int /\ limiter[b].granted \in Nat
         /\ WaitTime(b) \in Nat
BY DEF TypeOK, WaitTime

LEMMA BackoffField ==
  ASSUME TypeOK, NEW t \in Trackers
  PROVE  /\ backoff[t].failures \in Nat /\ backoff[t].current \in Nat /\ backoff[t].age \in Nat
         /\ TimeLeft(t) \in Nat
BY DEF TypeOK, TimeLeft

\* The tracker of a call that has one.
LEMMA MineIsTracker ==
  ASSUME TypeOK, TrackerReal, NEW w \in Waiters, HasTracker(w)
  PROVE  Mine(w) \in Trackers
BY CallField DEF TrackerReal, Mine, Trackers

\* A step of a call that changes nothing else.
LEMMA OnlyCall ==
  ASSUME TypeOK, UNCHANGED <<tables, mux, objects, others>>, call' \in [Waiters -> Call]
  PROVE  TypeOK'
BY DEF TypeOK, tables, mux, objects, others

LEMMA LimiterChanged ==
  ASSUME TypeOK, UNCHANGED <<tables, mux, backoff, others>>, call' \in [Waiters -> Call],
         limiter' \in [Limiters -> [burst : Nat, tokens : Int, granted : Nat]]
  PROVE  TypeOK'
BY DEF TypeOK, tables, mux, others

LEMMA BackoffChanged ==
  ASSUME TypeOK, UNCHANGED <<tables, mux, limiter, others>>, call' \in [Waiters -> Call],
         backoff' \in [Trackers -> [failures : Nat, current : Nat, age : Nat]]
  PROVE  TypeOK'
BY DEF TypeOK, tables, mux, others

LEMMA WaitTypes ==
  ASSUME IInv, NEW w \in Waiters, ReadConfig(w) \/ WaitStep(w)
  PROVE  TypeOK'
<1>0. TypeOK /\ TrackerReal
  BY DEF IInv
<1>1. CASE ReadConfig(w)
  <2>1. PICK v \in Values :
          call' = [call EXCEPT ![w].at = "tracker", ![w].domain = ExtractDomain(v),
                               ![w].config = configs[ExtractDomain(v)], ![w].life = Life[w]]
    BY <1>1 DEF ReadConfig
  <2>2. /\ ExtractDomain(v) \in Domains /\ configs[ExtractDomain(v)] \in Config
        /\ Life[w] \in Nat \cup {NoDeadline}
    BY <1>0, Constants, LifeAssumption DEF TypeOK
  <2>3. call' \in [Waiters -> Call]
    <3>1. call \in [Waiters -> Call]
      BY <1>0 DEF TypeOK
    <3>2. [call[w] EXCEPT !.at = "tracker", !.domain = ExtractDomain(v),
             !.config = configs[ExtractDomain(v)], !.life = Life[w]] \in Call
      BY <2>2, <3>1, StepNames DEF Call
    <3>3. call' = [call EXCEPT ![w] = [call[w] EXCEPT !.at = "tracker",
             !.domain = ExtractDomain(v), !.config = configs[ExtractDomain(v)],
             !.life = Life[w]]]
      BY <2>1, <3>1 DEF Call
    <3> QED
      BY <3>1, <3>2, <3>3
  <2> QED
    BY <1>0, <1>1, <2>3, OnlyCall DEF ReadConfig
<1>2. CASE ReadTracker(w)
  <2>1. trackerOf[call[w].domain] \in Actors \cup {NoOne}
    BY <1>0, CallField DEF TypeOK
  <2>2. call' \in [Waiters -> Call]
    <3> DEFINE found == trackerOf[call[w].domain]
    <3>1. call \in [Waiters -> Call]
      BY <1>0 DEF TypeOK
    <3>2. [call[w] EXCEPT !.at = IF found = NoOne THEN "lock" ELSE "check",
                          !.tracker = found] \in Call
      BY <2>1, <3>1, StepNames DEF Call
    <3>3. call' = [call EXCEPT ![w] = [call[w] EXCEPT
                     !.at = IF found = NoOne THEN "lock" ELSE "check", !.tracker = found]]
      BY <1>2, <3>1 DEF ReadTracker, Call
    <3> QED
      BY <3>1, <3>2, <3>3
  <2> QED
    BY <1>0, <1>2, <2>2, OnlyCall DEF ReadTracker
<1>3. CASE LockTrackers(w)
  <2>1. call' \in [Waiters -> Call]
    BY <1>0, <1>3, GotoType DEF LockTrackers, Steps
  <2> QED
    BY <1>0, <1>3, <2>1 DEF LockTrackers, Announce, TypeOK, tables, objects, others, Actors
<1>4. CASE CreateTracker(w)
  <2>1. /\ call[w].domain \in Domains
        /\ TrackerToUse(call[w].domain, w) \in Actors \cup {NoOne}
    BY <1>0, CallField DEF TypeOK, TrackerToUse, Actors
  <2>2. call' \in [Waiters -> Call]
    <3> DEFINE used == TrackerToUse(call[w].domain, w)
    <3>1. call \in [Waiters -> Call]
      BY <1>0 DEF TypeOK
    <3>2. [call[w] EXCEPT !.at = "check", !.tracker = used] \in Call
      BY <2>1, <3>1, StepNames DEF Call
    <3>3. call' = [call EXCEPT ![w] = [call[w] EXCEPT !.at = "check", !.tracker = used]]
      BY <1>4, <3>1 DEF CreateTracker, Call
    <3> QED
      BY <3>1, <3>2, <3>3
  <2>3. trackerOf' \in [Domains -> Actors \cup {NoOne}]
    BY <1>0, <1>4, <2>1 DEF CreateTracker, TypeOK
  <2> QED
    BY <1>0, <1>4, <2>2, <2>3 DEF CreateTracker, Unlock, TypeOK, objects, others
<1>5. CASE CheckBackoff(w)
  <2>1. TimeLeft(Mine(w)) \in Nat
    BY <1>0, <1>5, MineIsTracker, BackoffField DEF CheckBackoff, At, HasTracker
  <2>2. call' \in [Waiters -> Call]
    <3> DEFINE next == IF IsInBackoff(Mine(w)) THEN "duration" ELSE "limiter"
    <3>1. call \in [Waiters -> Call]
      BY <1>0 DEF TypeOK
    <3>2. [call[w] EXCEPT !.at = next, !.owed = TimeLeft(Mine(w))] \in Call
      BY <2>1, <3>1, StepNames DEF Call
    <3>3. call' = [call EXCEPT ![w] = [call[w] EXCEPT !.at = next, !.owed = TimeLeft(Mine(w))]]
      BY <1>5, <3>1 DEF CheckBackoff, Call
    <3> QED
      BY <3>1, <3>2, <3>3
  <2> QED
    BY <1>0, <1>5, <2>2, OnlyCall DEF CheckBackoff
<1>6. CASE ReadDuration(w)
  <2>1. SleepTime(w) \in Nat
    BY <1>0, <1>6, MineIsTracker, BackoffField DEF ReadDuration, At, HasTracker, SleepTime
  <2>2. call' \in [Waiters -> Call]
    <3>1. call \in [Waiters -> Call]
      BY <1>0 DEF TypeOK
    <3>2. [call[w] EXCEPT !.at = "sleep", !.timer = SleepTime(w)] \in Call
      BY <2>1, <3>1, StepNames DEF Call
    <3>3. call' = [call EXCEPT ![w] = [call[w] EXCEPT !.at = "sleep", !.timer = SleepTime(w)]]
      BY <1>6, <3>1 DEF ReadDuration, Call
    <3> QED
      BY <3>1, <3>2, <3>3
  <2> QED
    BY <1>0, <1>6, <2>2, OnlyCall DEF ReadDuration
<1>7. CASE WakeUp(w)
  <2>1. call' \in [Waiters -> Call]
    BY <1>0, <1>7, GotoType DEF WakeUp, Steps
  <2> QED
    BY <1>0, <1>7, <2>1, OnlyCall DEF WakeUp
<1>8. CASE GiveUp(w)
  <2>1. call' \in [Waiters -> Call]
    BY <1>0, <1>8, NoCallType DEF GiveUp, TypeOK
  <2> QED
    BY <1>0, <1>8, <2>1, OnlyCall DEF GiveUp
<1>9. CASE ReadLimiter(w) \/ ReadDefaultLimiter(w)
  <2>1. /\ made[call[w].domain] \in 0..MaxLimiters
        /\ made[call[w].domain] # 0 => <<call[w].domain, made[call[w].domain]>> \in Limiters
        /\ made[Default] \in 0..MaxLimiters
        /\ made[Default] # 0 => <<Default, made[Default]>> \in Limiters
    BY <1>0, CallField, Constants DEF TypeOK, Limiters
  <2>2. made[Default] # 0
    BY DEF IInv, DefaultMade
  <2>3. call' \in [Waiters -> Call]
    <3>1. call \in [Waiters -> Call]
      BY <1>0 DEF TypeOK
    <3>2. PICK step \in Steps, b \in Limiters :
            \/ call' = [call EXCEPT ![w].at = step]
            \/ call' = [call EXCEPT ![w].at = step, ![w].limiter = b]
      BY <1>9, <2>1, <2>2, StepNames DEF ReadLimiter, ReadDefaultLimiter
    <3>3. CASE call' = [call EXCEPT ![w].at = step]
      BY <3>1, <3>3 DEF Call
    <3>4. CASE call' = [call EXCEPT ![w].at = step, ![w].limiter = b]
      <4>1. [call[w] EXCEPT !.at = step, !.limiter = b] \in Call
        BY <3>1 DEF Call
      <4>2. call' = [call EXCEPT ![w] = [call[w] EXCEPT !.at = step, !.limiter = b]]
        BY <3>1, <3>4 DEF Call
      <4> QED
        BY <3>1, <4>1, <4>2
    <3> QED
      BY <3>2, <3>3, <3>4
  <2> QED
    BY <1>0, <1>9, <2>3, OnlyCall DEF ReadLimiter, ReadDefaultLimiter
<1>10. CASE Reserve(w)
  <2> DEFINE b == call[w].limiter
  <2>1. b \in Limiters /\ WaitTime(b) \in Nat /\ limiter[b].tokens - 1 \in Int
    BY <1>0, CallField, LimiterField
  <2>2. limiter' \in [Limiters -> [burst : Nat, tokens : Int, granted : Nat]]
    BY <1>0, <1>10, <2>1 DEF Reserve, TypeOK
  <2>3. call' \in [Waiters -> Call]
    <3>1. CASE Goto(w, Refused)
      BY <1>0, <3>1, GotoType DEF Refused, Steps
    <3>2. CASE call' = [call EXCEPT ![w].at = "slot", ![w].timer = WaitTime(b)]
      <4>1. call \in [Waiters -> Call]
        BY <1>0 DEF TypeOK
      <4>2. [call[w] EXCEPT !.at = "slot", !.timer = WaitTime(b)] \in Call
        BY <2>1, <4>1, StepNames DEF Call
      <4>3. call' = [call EXCEPT ![w] = [call[w] EXCEPT !.at = "slot", !.timer = WaitTime(b)]]
        BY <3>2, <4>1 DEF Call
      <4> QED
        BY <4>1, <4>2, <4>3
    <3> QED
      BY <1>10, <3>1, <3>2 DEF Reserve
  <2> QED
    BY <1>0, <1>10, <2>2, <2>3, LimiterChanged DEF Reserve
<1>11. CASE TakeSlot(w)
  <2>1. call[w].limiter \in Limiters /\ limiter[call[w].limiter].granted + 1 \in Nat
    BY <1>0, CallField, LimiterField
  <2>2. limiter' \in [Limiters -> [burst : Nat, tokens : Int, granted : Nat]]
    BY <1>0, <1>11, <2>1 DEF TakeSlot, TypeOK
  <2>3. call' \in [Waiters -> Call]
    BY <1>0, <1>11, GotoType DEF TakeSlot, Steps
  <2> QED
    BY <1>0, <1>11, <2>2, <2>3, LimiterChanged DEF TakeSlot
<1>12. CASE CancelSlot(w)
  <2>1. call' \in [Waiters -> Call]
    BY <1>0, <1>12, GotoType DEF CancelSlot, Refused, Steps
  <2>2. limiter' = limiter /\ limiter \in [Limiters -> [burst : Nat, tokens : Int, granted : Nat]]
    BY <1>0, <1>12 DEF CancelSlot, objects, TypeOK
  <2> QED
    BY <1>0, <1>12, <2>1, <2>2, LimiterChanged DEF CancelSlot, objects
<1>13. CASE RecordSuccess(w)
  <2>1. NewTracker \in [failures : Nat, current : Nat, age : Nat]
    BY DEF NewTracker
  <2>2. backoff' \in [Trackers -> [failures : Nat, current : Nat, age : Nat]]
    BY <1>0, <1>13, <2>1 DEF RecordSuccess, AfterSuccess, TypeOK
  <2>3. \A v \in Waiters : [call[v] EXCEPT !.owed = IF Mine(v) = Mine(w) THEN 0 ELSE @] \in Call
    <3> TAKE v \in Waiters
    <3>1. call[v] \in Call /\ call[v].owed \in Nat /\ 0 \in Nat
      BY <1>0, CallField DEF TypeOK
    <3> QED
      BY <3>1 DEF Call
  <2>4. call' \in [Waiters -> Call]
    BY <1>13, <2>3, NoCallType DEF RecordSuccess
  <2> QED
    BY <1>0, <1>13, <2>2, <2>4, BackoffChanged DEF RecordSuccess
<1>14. CASE RecordFailure(w)
  <2>1. Mine(w) \in Trackers
    BY <1>0, <1>14, MineIsTracker DEF RecordFailure, At, HasTracker
  <2>2. AfterFailure(Mine(w), call[w].config) \in [failures : Nat, current : Nat, age : Nat]
    <3> DEFINE n == backoff[Mine(w)].failures + 1
    <3>1. n \in Nat /\ call[w].config.base \in Nat /\ call[w].config.max \in Nat
      BY <1>0, <2>1, CallField, BackoffField DEF Config
    <3>2. Capped(call[w].config.base * n, call[w].config) \in Nat
      BY <3>1 DEF Capped
    <3> QED
      BY <3>1, <3>2, Constants DEF AfterFailure
  <2>3. backoff' \in [Trackers -> [failures : Nat, current : Nat, age : Nat]]
    BY <1>0, <1>14, <2>2 DEF RecordFailure, TypeOK
  <2>4. call' \in [Waiters -> Call]
    BY <1>0, <1>14, NoCallType DEF RecordFailure, TypeOK
  <2> QED
    BY <1>0, <1>14, <2>3, <2>4, BackoffChanged DEF RecordFailure
<1> QED
  BY <1>1, <1>2, <1>3, <1>4, <1>5, <1>6, <1>7, <1>8, <1>9, <1>10, <1>11, <1>12, <1>13, <1>14
  DEF WaitStep
\* Writers, observers and the clock.
LEMMA OtherTypes ==
  ASSUME IInv, \/ \E a \in Admins : LockConfigs(a) \/ AddConfig(a)
               \/ \E o \in Observers : BeginMetrics(o) \/ MetricsStep(o)
               \/ Tick
  PROVE  TypeOK'
<1>0. TypeOK
  BY DEF IInv
<1>1. ASSUME NEW a \in Admins, LockConfigs(a)
      PROVE  TypeOK'
  <2>1. adding' \in [Admins -> Domains \X Config]
    BY <1>0, <1>1, Constants, SMTT(20) DEF LockConfigs, TypeOK
  <2> QED
    BY <1>0, <1>1, <2>1 DEF LockConfigs, Announce, TypeOK, tables, objects, Actors
<1>2. ASSUME NEW a \in Admins, AddConfig(a), made[adding[a][1]] < MaxLimiters
      PROVE  TypeOK'
  <2> DEFINE d == adding[a][1]
             c == adding[a][2]
  <2>1. d \in Domains /\ c \in Config /\ made[d] \in 0..MaxLimiters
    BY <1>0 DEF TypeOK
  <2>2. made[d] + 1 \in 0..MaxLimiters
    BY <1>2, <2>1, Constants
  <2>3. NewLimiter(c) \in [burst : Nat, tokens : Int, granted : Nat]
    BY <2>1 DEF NewLimiter, Config
  <2>4. TrackerToUse(d, a) \in Actors \cup {NoOne}
    BY <1>0, <2>1 DEF TrackerToUse, TypeOK, Actors
  <2>5. configs' \in [Domains -> Config] /\ made' \in [Domains -> 0..MaxLimiters]
    BY <1>0, <1>2, <2>1, <2>2 DEF AddConfig, TypeOK
  <2>6. limiter' \in [Limiters -> [burst : Nat, tokens : Int, granted : Nat]]
    BY <1>0, <1>2, <2>3 DEF AddConfig, TypeOK
  <2>7. trackerOf' \in [Domains -> Actors \cup {NoOne}]
    BY <1>0, <1>2, <2>4 DEF AddConfig, TypeOK
  <2>8. adding' \in [Admins -> Domains \X Config]
    BY <1>0, <1>2, Constants DEF AddConfig, TypeOK
  <2> QED
    BY <1>0, <1>2, <2>5, <2>6, <2>7, <2>8 DEF AddConfig, Unlock, TypeOK
<1>3. ASSUME NEW o \in Observers, BeginMetrics(o) \/ MetricsStep(o)
      PROVE  TypeOK'
  <2>1. unread' \in [Observers -> SUBSET Domains] /\ held' \subseteq Observers
    BY <1>0, <1>3
    DEF BeginMetrics, MetricsStep, ReadMetrics, EndMetrics, TypeOK, mux, others
  <2>2. UNCHANGED <<configs, made, trackerOf, pending, limiter, backoff, call, adding>>
    BY <1>3 DEF BeginMetrics, MetricsStep, ReadMetrics, EndMetrics, tables, objects, mux, others
  <2> QED
    BY <1>0, <2>1, <2>2 DEF TypeOK
<1>4. CASE Tick
  <2>1. limiter' \in [Limiters -> [burst : Nat, tokens : Int, granted : Nat]]
    <3>1. \A b \in Limiters : [limiter[b] EXCEPT
             !.tokens = IF @ < limiter[b].burst THEN @ + 1 ELSE @, !.granted = Down(@)]
             \in [burst : Nat, tokens : Int, granted : Nat]
      <4> TAKE b \in Limiters
      <4>1. /\ limiter[b] \in [burst : Nat, tokens : Int, granted : Nat]
            /\ Down(limiter[b].granted) \in Nat
        BY <1>0, LimiterField, DownType DEF TypeOK
      <4> DEFINE new == IF limiter[b].tokens < limiter[b].burst
                        THEN limiter[b].tokens + 1 ELSE limiter[b].tokens
      <4>2. new \in Int
        BY <1>0, LimiterField
      <4>3. [limiter[b] EXCEPT !.tokens = new, !.granted = Down(@)]
              \in [burst : Nat, tokens : Int, granted : Nat]
        BY <4>1, <4>2
      <4> QED
        BY <4>3
    <3> QED
      BY <1>4, <3>1 DEF Tick
  <2>2. backoff' \in [Trackers -> [failures : Nat, current : Nat, age : Nat]]
    <3>1. \A t \in Trackers : [backoff[t] EXCEPT
             !.age = IF @ < backoff[t].current THEN @ + 1 ELSE @]
             \in [failures : Nat, current : Nat, age : Nat]
      BY <1>0 DEF TypeOK
    <3> QED
      BY <1>4, <3>1 DEF Tick
  <2>3. call' \in [Waiters -> Call]
    <3>1. ASSUME NEW w \in Waiters
          PROVE  [call[w] EXCEPT !.timer = Down(@), !.life = Down(@), !.owed = Down(@)] \in Call
      <4>1. call[w] \in Call
        BY <1>0 DEF TypeOK
      <4>2. /\ Down(call[w].timer) \in Nat /\ Down(call[w].life) \in Nat \cup {NoDeadline}
            /\ Down(call[w].owed) \in Nat
        BY <1>0, CallField, DownType
      <4> QED
        BY <4>1, <4>2 DEF Call
    <3> QED
      BY <1>4, <3>1 DEF Tick
  <2> QED
    BY <1>0, <1>4, <2>1, <2>2, <2>3, Zenon DEF Tick, TypeOK, tables, mux, others
<1>5. ASSUME NEW a \in Admins, AddConfig(a) PROVE made[adding[a][1]] < MaxLimiters
  BY <1>5 DEF AddConfig, MayWrite, IInv, RoomLeft
<1> QED
  BY <1>1, <1>2, <1>3, <1>4, <1>5

-------------------------------------------------------------------------------
(***************************************************************************)
(* The tables only grow, and calls keep the tracker they have found.       *)
(***************************************************************************)

LEMMA TypesKept == IInv /\ [Next]_vars => TypeOK'
<1> SUFFICES ASSUME IInv, [Next]_vars PROVE TypeOK'
  OBVIOUS
<1>1. CASE UNCHANGED vars
  BY <1>1 DEF IInv, TypeOK, vars, tables, mux, objects, others
<1>2. CASE Next
  BY <1>2, WaitTypes, OtherTypes DEF Next
<1> QED
  BY <1>1, <1>2

\* A tracker in the table stays.
LEMMA TrackerStays ==
  ASSUME IInv, [Next]_vars, NEW d \in Domains, trackerOf[d] # NoOne
  PROVE  trackerOf'[d] = trackerOf[d]
<1>1. trackerOf \in [Domains -> Actors \cup {NoOne}]
  BY DEF IInv, TypeOK
<1>2. ASSUME NEW w \in Waiters, CreateTracker(w) PROVE trackerOf'[d] = trackerOf[d]
  BY <1>1, <1>2 DEF CreateTracker, TrackerToUse
<1>3. ASSUME NEW a \in Admins, AddConfig(a) PROVE trackerOf'[d] = trackerOf[d]
  BY <1>1, <1>3, SMTT(20) DEF AddConfig, TrackerToUse
<1>4. ASSUME NEW w \in Waiters, ReadConfig(w) \/ WaitStep(w), ~CreateTracker(w)
      PROVE  trackerOf' = trackerOf
  BY <1>4 DEF ReadConfig, WaitStep, ReadTracker, LockTrackers, CheckBackoff, ReadDuration,
     WakeUp, GiveUp, ReadLimiter, ReadDefaultLimiter, Reserve, TakeSlot, CancelSlot,
     RecordSuccess, RecordFailure, tables
<1>5. ASSUME \/ \E a \in Admins : LockConfigs(a)
             \/ \E o \in Observers : BeginMetrics(o) \/ MetricsStep(o)
             \/ Tick \/ UNCHANGED vars
      PROVE  trackerOf' = trackerOf
  BY <1>5 DEF LockConfigs, BeginMetrics, MetricsStep, ReadMetrics, EndMetrics, Tick, vars, tables
<1> QED
  BY <1>2, <1>3, <1>4, <1>5 DEF Next

\* What a step does to the tracker of a call: it keeps it, takes the one in the
\* table, or has none afterwards.
TrackerStep(v) ==
  \/ ~HasTracker(v)'
  \/ HasTracker(v) /\ call'[v].tracker = call[v].tracker /\ call'[v].domain = call[v].domain
  \/ /\ call'[v].tracker = trackerOf'[call'[v].domain]
     /\ call'[v].tracker # NoOne

LEMMA CallSteps ==
  ASSUME IInv, [Next]_vars, NEW v \in Waiters
  PROVE  TrackerStep(v)
<1>1. /\ call \in [Waiters -> Call] /\ trackerOf \in [Domains -> Actors \cup {NoOne}]
      /\ call[v].domain \in Domains
  BY CallField DEF IInv, TypeOK
<1>2. ASSUME UNCHANGED call PROVE TrackerStep(v)
  BY <1>2 DEF TrackerStep, HasTracker
<1>3. ASSUME NEW w \in Waiters, v # w, ReadConfig(w) \/ WaitStep(w)
      PROVE  TrackerStep(v)
  <2>1. CASE RecordSuccess(w)
    <3>1. call'[v] = [call[v] EXCEPT !.owed = IF Mine(v) = Mine(w) THEN 0 ELSE @]
      BY <1>3, <2>1 DEF RecordSuccess
    <3>2. call'[v].at = call[v].at /\ call'[v].tracker = call[v].tracker
          /\ call'[v].domain = call[v].domain
      BY <1>1, <3>1 DEF Call
    <3> QED
      BY <3>2 DEF TrackerStep, HasTracker
  <2>2. CASE ~RecordSuccess(w)
    <3>1. call'[v] = call[v]
      BY <1>1, <1>3, <2>2 DEF ReadConfig, WaitStep, ReadTracker, LockTrackers, CreateTracker,
         CheckBackoff, ReadDuration, WakeUp, GiveUp, ReadLimiter, ReadDefaultLimiter, Reserve,
         TakeSlot, CancelSlot, RecordFailure, Goto
    <3> QED
      BY <3>1 DEF TrackerStep, HasTracker
  <2> QED
    BY <2>1, <2>2
<1>4. CASE ReadConfig(v) \/ LockTrackers(v)
  <2>1. CASE ReadConfig(v)
    <3>1. PICK x \in Values :
            call' = [call EXCEPT ![v].at = "tracker", ![v].domain = ExtractDomain(x),
                       ![v].config = configs[ExtractDomain(x)], ![v].life = Life[v]]
      BY <2>1 DEF ReadConfig
    <3>2. call'[v].at = "tracker"
      BY <1>1, <3>1 DEF Call
    <3> QED
      BY <3>2 DEF TrackerStep, HasTracker
  <2>2. CASE LockTrackers(v)
    <3>1. call'[v].at = "create"
      BY <1>1, <2>2 DEF LockTrackers, Goto, Call
    <3> QED
      BY <3>1 DEF TrackerStep, HasTracker
  <2> QED
    BY <1>4, <2>1, <2>2
<1>5. CASE ReadTracker(v)
  <2> DEFINE found == trackerOf[call[v].domain]
  <2>1. /\ call'[v].at = (IF found = NoOne THEN "lock" ELSE "check")
        /\ call'[v].tracker = found /\ call'[v].domain = call[v].domain
        /\ trackerOf' = trackerOf
    BY <1>1, <1>5 DEF ReadTracker, Call, tables
  <2> QED
    BY <2>1 DEF TrackerStep, HasTracker
<1>6. CASE CreateTracker(v)
  <2> DEFINE taken == TrackerToUse(call[v].domain, v)
  <2>1. call'[v].tracker = taken /\ call'[v].domain = call[v].domain
    BY <1>1, <1>6 DEF CreateTracker, Call
  <2>2. trackerOf'[call[v].domain] = taken
    BY <1>1, <1>6 DEF CreateTracker
  <2>3. taken # NoOne
    BY ActorAssumption DEF TrackerToUse, Actors
  <2> QED
    BY <2>1, <2>2, <2>3 DEF TrackerStep
<1>7. CASE \/ CheckBackoff(v) \/ ReadDuration(v) \/ WakeUp(v) \/ ReadLimiter(v)
           \/ ReadDefaultLimiter(v) \/ Reserve(v) \/ TakeSlot(v) \/ CancelSlot(v)
  <2>1. call'[v].tracker = call[v].tracker /\ call'[v].domain = call[v].domain
    BY <1>1, <1>7 DEF CheckBackoff, ReadDuration, WakeUp, ReadLimiter, ReadDefaultLimiter,
       Reserve, TakeSlot, CancelSlot, Goto, Call
  <2>2. HasTracker(v)
    BY <1>7 DEF HasTracker, At, CheckBackoff, ReadDuration, WakeUp, ReadLimiter,
       ReadDefaultLimiter, Reserve, TakeSlot, CancelSlot
  <2> QED
    BY <2>1, <2>2 DEF TrackerStep
<1>8. CASE GiveUp(v) \/ RecordSuccess(v) \/ RecordFailure(v)
  <2>1. call'[v] = NoCall
    BY <1>1, <1>8 DEF GiveUp, RecordSuccess, RecordFailure
  <2> QED
    BY <2>1 DEF TrackerStep, HasTracker, NoCall
<1>9. CASE Tick
  <2>1. call'[v] = [call[v] EXCEPT !.timer = Down(@), !.life = Down(@), !.owed = Down(@)]
    BY <1>9 DEF Tick
  <2>2. call'[v].at = call[v].at /\ call'[v].tracker = call[v].tracker
        /\ call'[v].domain = call[v].domain
    BY <1>1, <2>1 DEF Call
  <2> QED
    BY <2>2 DEF TrackerStep, HasTracker
<1>10. ASSUME \/ \E a \in Admins : LockConfigs(a) \/ AddConfig(a)
              \/ \E o \in Observers : BeginMetrics(o) \/ MetricsStep(o)
              \/ UNCHANGED vars
       PROVE  UNCHANGED call
  BY <1>10 DEF LockConfigs, AddConfig, BeginMetrics, MetricsStep, ReadMetrics, EndMetrics,
     objects, vars
<1>11. ASSUME ReadConfig(v) \/ WaitStep(v) PROVE TrackerStep(v)
  BY <1>11, <1>4, <1>5, <1>6, <1>7, <1>8 DEF WaitStep
<1> QED
  BY <1>2, <1>3, <1>9, <1>10, <1>11 DEF Next

\* Only AddDomainConfig makes limiters, and it holds the lock when it does.
LEMMA TablesGrow ==
  ASSUME IInv, [Next]_vars
  PROVE  DefaultMade' /\ RoomLeft'
<1>0. /\ made \in [Domains -> 0..MaxLimiters] /\ Default \in Domains
      /\ adding \in [Admins -> Domains \X Config]
      /\ DefaultMade /\ RoomLeft
  BY Constants DEF IInv, TypeOK
<1>1. ASSUME NEW a \in Admins, LockConfigs(a) PROVE DefaultMade' /\ RoomLeft'
  <2>1. made' = made /\ pending' = a /\ made[adding'[a][1]] < MaxLimiters
    BY <1>0, <1>1 DEF LockConfigs, Announce, tables
  <2> QED
    BY <1>0, <2>1 DEF DefaultMade, RoomLeft
<1>2. ASSUME NEW a \in Admins, AddConfig(a) PROVE DefaultMade' /\ RoomLeft'
  <2>1. made' = [made EXCEPT ![adding[a][1]] = @ + 1] /\ pending' = NoOne
    BY <1>2 DEF AddConfig, Unlock
  <2> QED
    BY <1>0, <2>1, ActorAssumption DEF DefaultMade, RoomLeft, Actors
<1>3. ASSUME NEW w \in Waiters, ReadConfig(w) \/ WaitStep(w) PROVE DefaultMade' /\ RoomLeft'
  <2>1. made' = made /\ adding' = adding
    BY <1>3, ZenonT(30) DEF ReadConfig, WaitStep, ReadTracker, LockTrackers, CreateTracker,
       CheckBackoff, ReadDuration, WakeUp, GiveUp, ReadLimiter, ReadDefaultLimiter, Reserve, TakeSlot,
       CancelSlot, RecordSuccess, RecordFailure, tables, others
  <2>2. pending' = pending \/ pending' \notin Admins
    BY <1>3, ActorAssumption DEF ReadConfig, WaitStep, ReadTracker, LockTrackers, Announce,
       CreateTracker, Unlock, CheckBackoff, ReadDuration, WakeUp, GiveUp, ReadLimiter,
       ReadDefaultLimiter, Reserve, TakeSlot, CancelSlot, RecordSuccess, RecordFailure, mux,
       Actors
  <2> QED
    BY <1>0, <2>1, <2>2, SMTT(20) DEF DefaultMade, RoomLeft
<1>4. ASSUME \/ \E o \in Observers : BeginMetrics(o) \/ MetricsStep(o)
             \/ Tick \/ UNCHANGED vars
      PROVE  DefaultMade' /\ RoomLeft'
  <2>1. UNCHANGED <<made, adding, pending>>
    BY <1>4 DEF BeginMetrics, MetricsStep, ReadMetrics, EndMetrics, Tick, tables, mux, others,
       vars
  <2> QED
    BY <1>0, <2>1 DEF DefaultMade, RoomLeft
<1> QED
  BY <1>1, <1>2, <1>3, <1>4 DEF Next

LEMMA StepKeeps == IInv /\ [Next]_vars => IInv'
<1> SUFFICES ASSUME IInv, [Next]_vars PROVE IInv'
  OBVIOUS
<1>1. TypeOK'
  BY TypesKept
<1>2. ASSUME NEW v \in Waiters, HasTracker(v)'
      PROVE  /\ call'[v].tracker = trackerOf'[call'[v].domain]
             /\ call'[v].tracker # NoOne
  <2>1. TrackerStep(v)
    BY CallSteps
  <2>2. CASE HasTracker(v) /\ call'[v].tracker = call[v].tracker
                           /\ call'[v].domain = call[v].domain
    <3>1. call[v].tracker = trackerOf[call[v].domain] /\ call[v].tracker # NoOne
      BY <2>2 DEF IInv, OneTracker, TrackerReal, HasTracker
    <3>2. call[v].domain \in Domains
      BY CallField DEF IInv
    <3> QED
      BY <2>2, <3>1, <3>2, TrackerStays
  <2> QED
    BY <1>2, <2>1, <2>2 DEF TrackerStep
<1>3. OneTracker' /\ TrackerReal'
  BY <1>2 DEF OneTracker, TrackerReal, HasTracker
<1> QED
  BY <1>1, <1>3, TablesGrow DEF IInv

LEMMA Inductive == Spec => []IInv
BY InitEstablishes, StepKeeps, PTL DEF Spec

\* The limiter's tables, its limiters and trackers and the calls keep their types.
THEOREM LimiterTypeCorrect == Spec => []TypeOK
<1>1. IInv => TypeOK
  BY DEF IInv
<1> QED
  BY <1>1, Inductive, PTL

\* However many calls find a domain without a tracker at once, and whoever configures
\* it meanwhile, they end up with the tracker that is in the table.
THEOREM CallsShareTracker == Spec => []OneTracker
<1>1. IInv => OneTracker
  BY DEF IInv
<1> QED
  BY <1>1, Inductive, PTL

-------------------------------------------------------------------------------
(***************************************************************************)
(* Pacing. A bucket that is in debt owes each later tick to one call: the  *)
(* calls that wait have timers of their own, up to the debt, and at most   *)
(* one of them comes due at a tick.                                        *)
(***************************************************************************)

\* The calls that hold a token of a bucket, and those that need not wait for it.
Slots(b) == {w \in Waiters : call[w].at = "slot" /\ call[w].limiter = b}
Due(b) == {w \in Slots(b) : call[w].timer = 0}

Saved(b) == IF limiter[b].tokens > 0 THEN limiter[b].tokens ELSE 0

\* What a bucket let through lately, has promised for now and has saved.
Booked(b) ==
  /\ limiter[b].tokens <= limiter[b].burst
  /\ \A w \in Slots(b) :
       /\ limiter[b].burst > 0
       /\ call[w].timer > 0 => call[w].timer <= -limiter[b].tokens
  /\ \A v, w \in Slots(b) : call[v].timer = call[w].timer /\ call[v].timer > 0 => v = w
  /\ limiter[b].granted + Cardinality(Due(b)) + Saved(b) <= limiter[b].burst

\* A bucket that is still to be made is in nobody's hands.
InUse == \A w \in Waiters : call[w].limiter[2] <= made[call[w].limiter[1]]

PaceInv == InUse /\ \A b \in Limiters : Booked(b)

LEMMA DueFinite ==
  ASSUME NEW b
  PROVE  /\ IsFiniteSet(Slots(b)) /\ IsFiniteSet(Due(b)) /\ Cardinality(Due(b)) \in Nat
         /\ IsFiniteSet(Due(b)') /\ Cardinality(Due(b)') \in Nat
<1>1. IsFiniteSet(Slots(b)) /\ IsFiniteSet(Due(b)) /\ IsFiniteSet(Due(b)')
  BY ActorAssumption, FS_Subset DEF Slots, Due
<1> QED
  BY <1>1, FS_CardinalityType

LEMMA PaceInit == Init => PaceInv
<1> SUFFICES ASSUME Init PROVE PaceInv
  OBVIOUS
<1>1. InUse
  BY Constants DEF Init, InUse, NoCall
<1>2. ASSUME NEW b \in Limiters PROVE Booked(b)
  <2>1. limiter[b] = NewLimiter(DefaultConfig) /\ DefaultConfig.burst \in Nat
    BY Constants DEF Init, Config
  <2>2. Slots(b) = {} /\ Due(b) = {}
    BY DEF Init, NoCall, Slots, Due
  <2>3. Cardinality(Due(b)) = 0
    BY <2>2, FS_EmptySet
  <2> QED
    BY <2>1, <2>2, <2>3 DEF Booked, Saved, NewLimiter
<1> QED
  BY <1>1, <1>2 DEF PaceInv

\* Nothing happens to a bucket if its calls and their timers stay.
LEMMA SameSlots ==
  ASSUME NEW b \in Limiters, Booked(b), limiter'[b] = limiter[b],
         \A w \in Waiters :
           /\ call'[w].at = "slot" /\ call'[w].limiter = b
                <=> call[w].at = "slot" /\ call[w].limiter = b
           /\ call[w].at = "slot" /\ call[w].limiter = b => call'[w].timer = call[w].timer
  PROVE  Booked(b)'
<1>1. Slots(b)' = Slots(b) /\ \A w \in Slots(b) : call'[w].timer = call[w].timer
  BY DEF Slots
<1>2. Due(b)' = Due(b)
  BY <1>1 DEF Due
<1> QED
  BY <1>1, <1>2 DEF Booked, Saved

\* A step that neither takes nor returns a token, nor lets time pass.
SlotsKept ==
  /\ limiter' = limiter
  /\ \A v \in Waiters :
       /\ call'[v].at = "slot" <=> call[v].at = "slot"
       /\ call[v].at = "slot" => /\ call'[v].limiter = call[v].limiter
                                 /\ call'[v].timer = call[v].timer

LEMMA QuietSteps ==
  ASSUME IInv, [Next]_vars,
         \A w \in Waiters : ~Reserve(w) /\ ~TakeSlot(w) /\ ~CancelSlot(w),
         \A a \in Admins : ~AddConfig(a), ~Tick
  PROVE  SlotsKept
<1>1. call \in [Waiters -> Call]
  BY DEF IInv, TypeOK
<1>2. ASSUME UNCHANGED <<limiter, call>> PROVE SlotsKept
  BY <1>2 DEF SlotsKept
<1>3. ASSUME NEW w \in Waiters, RecordSuccess(w) PROVE SlotsKept
  <2>1. /\ limiter' = limiter /\ call[w].at = "granted"
        /\ call' = [v \in Waiters |-> IF v = w THEN NoCall
              ELSE [call[v] EXCEPT !.owed = IF Mine(v) = Mine(w) THEN 0 ELSE @]]
    BY <1>3 DEF RecordSuccess, At
  <2>2. \A v \in Waiters : v # w => /\ call'[v].at = call[v].at
                                    /\ call'[v].limiter = call[v].limiter
                                    /\ call'[v].timer = call[v].timer
    BY <1>1, <2>1 DEF Call
  <2>3. call'[w].at = "idle"
    BY <2>1 DEF NoCall
  <2> QED
    BY <2>1, <2>2, <2>3 DEF SlotsKept
<1>4. ASSUME NEW w \in Waiters, ReadConfig(w) \/ WaitStep(w), ~RecordSuccess(w)
      PROVE  SlotsKept
  <2>1. /\ limiter' = limiter /\ call[w].at # "slot"
        /\ \A v \in Waiters : v # w => call'[v] = call[v]
    BY <1>1, <1>4 DEF ReadConfig, WaitStep, ReadTracker, LockTrackers, CreateTracker,
       CheckBackoff, ReadDuration, WakeUp, GiveUp, ReadLimiter, ReadDefaultLimiter,
       RecordFailure, Goto, At, objects
  <2>2. call'[w].at # "slot"
    <3>1. CASE ReadConfig(w)
      <4>1. PICK x \in Values :
              call' = [call EXCEPT ![w].at = "tracker", ![w].domain = ExtractDomain(x),
                         ![w].config = configs[ExtractDomain(x)], ![w].life = Life[w]]
        BY <3>1 DEF ReadConfig
      <4> QED
        BY <1>1, <4>1 DEF Call
    <3>2. CASE GiveUp(w) \/ RecordFailure(w)
      BY <1>1, <3>2 DEF GiveUp, RecordFailure, NoCall
    <3>3. CASE \/ ReadTracker(w) \/ LockTrackers(w) \/ CreateTracker(w) \/ CheckBackoff(w)
               \/ ReadDuration(w) \/ WakeUp(w) \/ ReadLimiter(w) \/ ReadDefaultLimiter(w)
      BY <1>1, <3>3 DEF ReadTracker, LockTrackers, CreateTracker, CheckBackoff, ReadDuration,
         WakeUp, ReadLimiter, ReadDefaultLimiter, Goto, Call
    <3> QED
      BY <1>4, <3>1, <3>2, <3>3 DEF WaitStep
  <2> QED
    BY <2>1, <2>2 DEF SlotsKept
<1>5. ASSUME \/ \E a \in Admins : LockConfigs(a)
             \/ \E o \in Observers : BeginMetrics(o) \/ MetricsStep(o)
             \/ UNCHANGED vars
      PROVE  UNCHANGED <<limiter, call>>
  BY <1>5 DEF LockConfigs, BeginMetrics, MetricsStep, ReadMetrics, EndMetrics, objects, vars
<1> QED
  BY <1>2, <1>3, <1>4, <1>5 DEF Next

\* Only calls that are in a bucket's queue or step into it change the bucket.
LEMMA OtherBuckets ==
  ASSUME IInv, PaceInv, NEW w \in Waiters, Reserve(w) \/ TakeSlot(w) \/ CancelSlot(w),
         NEW b \in Limiters, b # call[w].limiter
  PROVE  Booked(b)'
<1>1. /\ call \in [Waiters -> Call]
      /\ limiter \in [Limiters -> [burst : Nat, tokens : Int, granted : Nat]]
      /\ Booked(b)
  BY DEF IInv, TypeOK, PaceInv
<1>2. limiter'[b] = limiter[b]
  BY <1>1 DEF Reserve, TakeSlot, CancelSlot, objects
<1>3. \A v \in Waiters : v # w => call'[v] = call[v]
  BY <1>1 DEF Reserve, TakeSlot, CancelSlot, Goto
<1>4. call'[w].limiter = call[w].limiter
  BY <1>1 DEF Reserve, TakeSlot, CancelSlot, Goto, Call
<1> QED
  BY <1>1, <1>2, <1>3, <1>4, SameSlots

\* A reservation either takes a saved token or adds a tick to the debt.
LEMMA ReservePaced ==
  ASSUME IInv, PaceInv, NEW w \in Waiters, Reserve(w),
         NEW b \in Limiters, b = call[w].limiter
  PROVE  Booked(b)'
<1>1. /\ call \in [Waiters -> Call]
      /\ limiter \in [Limiters -> [burst : Nat, tokens : Int, granted : Nat]]
      /\ b \in Limiters /\ limiter[b].burst \in Nat /\ limiter[b].tokens \in Int
      /\ limiter[b].granted \in Nat /\ Booked(b) /\ call[w].at = "reserve"
  BY CallField, LimiterField DEF IInv, TypeOK, PaceInv, Reserve, At
<1>2. CASE Refuses(w)
  <2>1. limiter' = limiter /\ call' = [call EXCEPT ![w].at = "refused"]
    BY <1>2 DEF Reserve, Goto, Refused
  <2>2. call'[w].at = "refused" /\ \A v \in Waiters : v # w => call'[v] = call[v]
    BY <1>1, <2>1 DEF Call
  <2>3. \A v \in Waiters :
           /\ call'[v].at = "slot" /\ call'[v].limiter = b
                <=> call[v].at = "slot" /\ call[v].limiter = b
           /\ call[v].at = "slot" /\ call[v].limiter = b => call'[v].timer = call[v].timer
    BY <1>1, <2>2
  <2> QED
    BY <1>1, <2>1, <2>3, SameSlots
<1>3. CASE ~Refuses(w)
  <2>1. /\ limiter' = [limiter EXCEPT ![b].tokens = @ - 1]
        /\ call' = [call EXCEPT ![w].at = "slot", ![w].timer = WaitTime(b)]
        /\ limiter[b].burst # 0
    BY <1>3 DEF Reserve, Refuses
  <2>2. /\ limiter'[b].tokens = limiter[b].tokens - 1
        /\ limiter'[b].burst = limiter[b].burst /\ limiter'[b].granted = limiter[b].granted
    BY <1>1, <2>1
  <2>3. /\ call'[w].at = "slot" /\ call'[w].limiter = b /\ call'[w].timer = WaitTime(b)
        /\ \A v \in Waiters : v # w => call'[v] = call[v]
    BY <1>1, <2>1 DEF Call
  <2>4. w \notin Slots(b) /\ Slots(b)' = Slots(b) \cup {w}
    BY <1>1, <2>3 DEF Slots
  <2>5. \A v \in Slots(b) : call'[v] = call[v]
    BY <2>3, <2>4 DEF Slots
  <2>6. IsFiniteSet(Due(b)) /\ Cardinality(Due(b)) \in Nat
    BY DueFinite
  <2>7. \A v \in Slots(b) : call[v].timer \in Nat
    BY CallField DEF IInv, Slots
  <2>8. CASE limiter[b].tokens >= 1
    <3>1. WaitTime(b) = 0
      BY <2>8 DEF WaitTime
    <3>2. Due(b)' = Due(b) \cup {w} /\ w \notin Due(b)
      BY <2>3, <2>4, <2>5, <3>1 DEF Due
    <3>3. Cardinality(Due(b)') = Cardinality(Due(b)) + 1
      BY <2>6, <3>2, FS_AddElement
    <3>4. \A v \in Slots(b)' : call'[v].timer > 0 => FALSE
      BY <1>1, <2>3, <2>4, <2>5, <2>7, <2>8, <3>1 DEF Booked
    <3>5. limiter'[b].granted + Cardinality(Due(b)') + Saved(b)' <= limiter'[b].burst
      BY <1>1, <2>2, <2>6, <2>8, <3>3 DEF Booked, Saved
    <3>6. limiter'[b].tokens <= limiter'[b].burst /\ limiter'[b].burst > 0
      BY <1>1, <2>1, <2>2 DEF Booked
    <3> QED
      BY <3>4, <3>5, <3>6 DEF Booked
  <2>9. CASE ~(limiter[b].tokens >= 1)
    <3>1. WaitTime(b) = 1 - limiter[b].tokens /\ WaitTime(b) > 0
      BY <1>1, <2>9 DEF WaitTime
    <3>2. Due(b)' = Due(b)
      BY <2>3, <2>4, <2>5, <3>1 DEF Due
    <3>3. \A v \in Slots(b) : call[v].timer > 0 => call[v].timer < WaitTime(b)
      BY <1>1, <2>7, <3>1 DEF Booked
    <3>4. \A v \in Slots(b)' : call'[v].timer > 0 => call'[v].timer <= -limiter'[b].tokens
      <4>1. -limiter'[b].tokens = WaitTime(b)
        BY <1>1, <2>2, <3>1
      <4> QED
        BY <1>1, <2>3, <2>4, <2>5, <2>7, <3>1, <3>3, <4>1
    <3>5. \A u, v \in Slots(b)' : call'[u].timer = call'[v].timer /\ call'[u].timer > 0 => u = v
      <4>1. \A u, v \in Slots(b) : call[u].timer = call[v].timer /\ call[u].timer > 0 => u = v
        BY <1>1 DEF Booked
      <4> QED
        BY <1>1, <2>3, <2>4, <2>5, <2>7, <3>1, <3>3, <4>1
    <3>6. limiter'[b].granted + Cardinality(Due(b)') + Saved(b)' <= limiter'[b].burst
      BY <1>1, <2>2, <2>6, <2>9, <3>2 DEF Booked, Saved
    <3>7. limiter'[b].tokens <= limiter'[b].burst /\ limiter'[b].burst > 0
      BY <1>1, <2>1, <2>2 DEF Booked
    <3> QED
      BY <3>4, <3>5, <3>6, <3>7 DEF Booked
  <2> QED
    BY <2>8, <2>9
<1> QED
  BY <1>2, <1>3

\* A token that was due is let through, or given up for good.
LEMMA SlotPaced ==
  ASSUME IInv, PaceInv, NEW w \in Waiters, TakeSlot(w) \/ CancelSlot(w),
         NEW b \in Limiters, b = call[w].limiter
  PROVE  Booked(b)'
<1>1. /\ call \in [Waiters -> Call]
      /\ limiter \in [Limiters -> [burst : Nat, tokens : Int, granted : Nat]]
      /\ b \in Limiters /\ limiter[b].burst \in Nat /\ limiter[b].tokens \in Int
      /\ limiter[b].granted \in Nat /\ Booked(b) /\ call[w].at = "slot"
  BY CallField, LimiterField DEF IInv, TypeOK, PaceInv, TakeSlot, CancelSlot, At
<1>2. /\ call'[w].at # "slot" /\ \A v \in Waiters : v # w => call'[v] = call[v]
  BY <1>1 DEF TakeSlot, CancelSlot, Goto, Refused, Call
<1>3. w \in Slots(b) /\ Slots(b)' = Slots(b) \ {w} /\ \A v \in Slots(b)' : call'[v] = call[v]
  BY <1>1, <1>2 DEF Slots
<1>4. Due(b)' = Due(b) \ {w}
  BY <1>3 DEF Due
<1>5. /\ IsFiniteSet(Due(b)) /\ Cardinality(Due(b)) \in Nat /\ Cardinality(Due(b)') \in Nat
      /\ w \in Due(b) => Cardinality(Due(b)') = Cardinality(Due(b)) - 1
      /\ w \notin Due(b) => Due(b)' = Due(b)
  BY <1>4, DueFinite, FS_RemoveElement
<1>6. \A v \in Slots(b) : call[v].timer \in Nat
  BY CallField DEF IInv, Slots
<1>7. /\ limiter[b].burst > 0 /\ limiter[b].tokens <= limiter[b].burst
      /\ \A v \in Slots(b) : call[v].timer > 0 => call[v].timer <= -limiter[b].tokens
      /\ \A u, v \in Slots(b) : call[u].timer = call[v].timer /\ call[u].timer > 0 => u = v
      /\ limiter[b].granted + Cardinality(Due(b)) + Saved(b) <= limiter[b].burst
  BY <1>1, <1>3 DEF Booked
<1>8. CASE limiter' = limiter
  <2>1. limiter'[b].granted + Cardinality(Due(b)') + Saved(b)' <= limiter'[b].burst
    BY <1>1, <1>5, <1>7, <1>8 DEF Saved
  <2> QED
    BY <1>3, <1>7, <1>8, <2>1 DEF Booked
<1>9. CASE TakeSlot(w)
  <2>1. /\ limiter'[b].tokens = limiter[b].tokens /\ limiter'[b].burst = limiter[b].burst
        /\ limiter'[b].granted = limiter[b].granted + 1 /\ call[w].timer = 0
    BY <1>1, <1>9 DEF TakeSlot
  <2>2. w \in Due(b)
    BY <1>3, <2>1 DEF Due
  <2>3. limiter'[b].granted + Cardinality(Due(b)') + Saved(b)' <= limiter'[b].burst
    BY <1>1, <1>5, <1>7, <2>1, <2>2 DEF Saved
  <2> QED
    BY <1>3, <1>7, <2>1, <2>3 DEF Booked
<1> QED
  BY <1>8, <1>9 DEF CancelSlot, objects

\* Of the calls that wait for a token, at most one comes due at a tick, and a saved
\* token or the leak of the last tick makes room for it.
LEMMA TickPaced == ASSUME IInv, PaceInv, Tick, NEW b \in Limiters PROVE Booked(b)'
<1>1. /\ call \in [Waiters -> Call] /\ Booked(b)
      /\ limiter \in [Limiters -> [burst : Nat, tokens : Int, granted : Nat]]
      /\ limiter[b].burst \in Nat /\ limiter[b].tokens \in Int /\ limiter[b].granted \in Nat
  BY LimiterField DEF IInv, TypeOK, PaceInv
<1>2. /\ limiter'[b].burst = limiter[b].burst
      /\ limiter'[b].tokens = IF limiter[b].tokens < limiter[b].burst
                              THEN limiter[b].tokens + 1 ELSE limiter[b].tokens
      /\ limiter'[b].granted = Down(limiter[b].granted)
  <2>1. limiter'[b] = [limiter[b] EXCEPT
          !.tokens = IF @ < limiter[b].burst THEN @ + 1 ELSE @, !.granted = Down(@)]
    BY DEF Tick
  <2> QED
    BY <1>1, <2>1
<1>3. \A w \in Waiters : /\ call'[w].at = call[w].at /\ call'[w].limiter = call[w].limiter
                         /\ call'[w].timer = Down(call[w].timer)
  <2> TAKE w \in Waiters
  <2>1. call'[w] = [call[w] EXCEPT !.timer = Down(@), !.life = Down(@), !.owed = Down(@)]
    BY DEF Tick
  <2> QED
    BY <1>1, <2>1 DEF Call
<1>4. Slots(b)' = Slots(b)
  BY <1>3 DEF Slots
<1>5. \A w \in Slots(b) : /\ call[w].timer \in Nat /\ call[w].timer > 0
                          /\ call'[w].timer = call[w].timer - 1
  <2> TAKE w \in Slots(b)
  <2>1. w \in Waiters /\ call[w].timer \in Nat /\ call[w].timer > 0
    BY CallField DEF IInv, Slots, Tick
  <2> QED
    BY <1>3, <2>1, LifeAssumption DEF Down
<1>6. /\ limiter[b].tokens <= limiter[b].burst
      /\ \A w \in Slots(b) : limiter[b].burst > 0 /\ call[w].timer <= -limiter[b].tokens
      /\ \A v, w \in Slots(b) : call[v].timer = call[w].timer => v = w
      /\ limiter[b].granted + Cardinality(Due(b)) + Saved(b) <= limiter[b].burst
  BY <1>1, <1>5 DEF Booked
<1>7. Due(b) = {} /\ Cardinality(Due(b)) = 0
  <2>1. Due(b) = {}
    BY <1>5 DEF Due
  <2> QED
    BY <2>1, FS_EmptySet
<1>8. Down(limiter[b].granted) =
        IF limiter[b].granted = 0 THEN 0 ELSE limiter[b].granted - 1
  BY <1>1, LifeAssumption DEF Down
<1>9. \A w \in Slots(b)' : /\ limiter'[b].burst > 0
                           /\ call'[w].timer > 0 => call'[w].timer <= -limiter'[b].tokens
  BY <1>1, <1>2, <1>4, <1>5, <1>6
<1>10. \A v, w \in Slots(b)' : call'[v].timer = call'[w].timer /\ call'[v].timer > 0 => v = w
  BY <1>4, <1>5, <1>6
<1>11. limiter'[b].tokens <= limiter'[b].burst
  BY <1>1, <1>2, <1>6
<1>12. limiter'[b].granted + Cardinality(Due(b)') + Saved(b)' <= limiter'[b].burst
  <2>1. CASE Slots(b) = {}
    <3>1. Due(b)' = {}
      BY <2>1, <1>4 DEF Due
    <3>2. Cardinality(Due(b)') = 0
      BY <3>1, FS_EmptySet
    <3> QED
      BY <1>1, <1>2, <1>6, <1>7, <1>8, <3>2 DEF Saved
  <2>2. CASE Slots(b) # {}
    <3>1. limiter[b].tokens < 0 /\ limiter[b].burst > 0
      BY <2>2, <1>1, <1>5, <1>6
    <3>2. Saved(b) = 0 /\ Saved(b)' = 0
      BY <3>1, <1>1, <1>2 DEF Saved
    <3>3. Cardinality(Due(b)') \in Nat /\ Cardinality(Due(b)') <= 1
      <4>1. CASE Due(b)' = {}
        BY <4>1, FS_EmptySet
      <4>2. CASE Due(b)' # {}
        <5>1. PICK w : w \in Due(b)'
          BY <4>2
        <5>2. \A v \in Due(b)' : v = w
          BY <5>1, <1>4, <1>5, <1>6 DEF Due
        <5>3. Due(b)' = {w}
          BY <5>1, <5>2
        <5> QED
          BY <5>3, FS_Singleton
      <4> QED
        BY <4>1, <4>2
    <3> QED
      BY <1>1, <1>2, <1>6, <1>7, <1>8, <3>1, <3>2, <3>3
  <2> QED
    BY <2>1, <2>2
<1> QED
  BY <1>9, <1>10, <1>11, <1>12 DEF Booked

\* A new bucket is full, and the old ones stay with the calls that hold them.
LEMMA NewBucket ==
  ASSUME IInv, PaceInv, NEW a \in Admins, AddConfig(a), NEW b \in Limiters
  PROVE  Booked(b)'
<1> DEFINE d == adding[a][1]
           c == adding[a][2]
           fresh == <<d, made[d] + 1>>
<1>1. /\ call' = call /\ limiter' = [limiter EXCEPT ![fresh] = NewLimiter(c)]
      /\ limiter \in [Limiters -> [burst : Nat, tokens : Int, granted : Nat]]
      /\ call \in [Waiters -> Call] /\ Booked(b)
  BY DEF AddConfig, IInv, TypeOK, PaceInv
<1>2. d \in Domains /\ c.burst \in Nat /\ made[d] \in Nat
  BY DEF IInv, TypeOK, Config
<1>3. CASE b # fresh
  <2>1. limiter'[b] = limiter[b]
    BY <1>1, <1>3
  <2> QED
    BY <1>1, <2>1, SameSlots
<1>4. CASE b = fresh
  <2>1. b[1] = d /\ b[2] = made[d] + 1
    BY <1>4
  <2>2. Slots(b)' = {} /\ Due(b)' = {}
    <3>1. \A w \in Waiters : call[w].limiter # b
      BY <1>2, <2>1 DEF PaceInv, InUse
    <3> QED
      BY <1>1, <3>1 DEF Slots, Due
  <2>3. Cardinality(Due(b)') = 0
    BY <2>2, FS_EmptySet
  <2>4. limiter'[b] = [burst |-> c.burst, tokens |-> c.burst, granted |-> 0]
    BY <1>1, <1>4 DEF NewLimiter
  <2> QED
    BY <1>2, <2>2, <2>3, <2>4 DEF Booked, Saved
<1> QED
  BY <1>3, <1>4

\* A call is given buckets that have been made.
LEMMA InUseKept == ASSUME IInv, InUse, [Next]_vars PROVE InUse'
<1>0. /\ call \in [Waiters -> Call] /\ made \in [Domains -> 0..MaxLimiters]
      /\ Default \in Domains /\ made[Default] >= 1
      /\ \A w \in Waiters : call[w].limiter[1] \in Domains /\ call[w].domain \in Domains
  BY Constants, CallField DEF IInv, TypeOK, DefaultMade, Limiters
<1>1. \A d \in Domains : made[d] <= made'[d]
  <2>1. ASSUME NEW a \in Admins, AddConfig(a) PROVE \A d \in Domains : made[d] <= made'[d]
    BY <1>0, <2>1, Constants, SMTT(20) DEF AddConfig
  <2>2. ASSUME NEW w \in Waiters, ReadConfig(w) \/ WaitStep(w) PROVE made' = made
    BY <2>2 DEF ReadConfig, WaitStep, ReadTracker, LockTrackers, CreateTracker, CheckBackoff,
       ReadDuration, WakeUp, GiveUp, ReadLimiter, ReadDefaultLimiter, Reserve, TakeSlot,
       CancelSlot, RecordSuccess, RecordFailure, tables
  <2>3. ASSUME \/ \E a \in Admins : LockConfigs(a)
               \/ \E o \in Observers : BeginMetrics(o) \/ MetricsStep(o)
               \/ Tick \/ UNCHANGED vars
        PROVE  made' = made
    BY <2>3 DEF LockConfigs, BeginMetrics, MetricsStep, ReadMetrics, EndMetrics, Tick, tables,
       vars
  <2> QED
    BY <1>0, <2>1, <2>2, <2>3, Constants DEF Next
<1>2. SUFFICES ASSUME NEW v \in Waiters
               PROVE  \/ call'[v].limiter = call[v].limiter
                      \/ \E d \in Domains : call'[v].limiter = <<d, made[d]>>
                      \/ call'[v].limiter = <<Default, 1>>
  <2> SUFFICES ASSUME NEW v \in Waiters
               PROVE  call'[v].limiter[2] <= made'[call'[v].limiter[1]]
    BY DEF InUse
  <2>1. \A d \in Domains : made[d] \in Nat /\ made'[d] \in Nat
    BY <1>0, Constants, TypesKept DEF TypeOK
  <2>2. CASE call'[v].limiter = call[v].limiter
    <3>1. call[v].limiter \in Limiters /\ call[v].limiter[2] <= made[call[v].limiter[1]]
      BY CallField DEF IInv, InUse
    <3>2. call[v].limiter[2] \in Nat
      BY <3>1, Constants DEF Limiters
    <3> QED
      BY <1>0, <1>1, <2>1, <2>2, <3>1, <3>2
  <2>3. ASSUME NEW d \in Domains, call'[v].limiter = <<d, made[d]>>
        PROVE  call'[v].limiter[2] <= made'[call'[v].limiter[1]]
    BY <1>1, <2>1, <2>3
  <2>4. CASE call'[v].limiter = <<Default, 1>>
    BY <1>0, <1>1, <2>1, <2>4
  <2> QED
    BY <1>2, <2>2, <2>3, <2>4
<1>3. ASSUME NEW w \in Waiters, ReadConfig(w) \/ WaitStep(w), w # v
      PROVE  call'[v].limiter = call[v].limiter
  <2>1. CASE RecordSuccess(w)
    <3>1. call'[v] = [call[v] EXCEPT !.owed = IF Mine(v) = Mine(w) THEN 0 ELSE @]
      BY <1>3, <2>1 DEF RecordSuccess
    <3> QED
      BY <1>0, <3>1 DEF Call
  <2>2. CASE ~RecordSuccess(w)
    BY <1>0, <1>3, <2>2 DEF ReadConfig, WaitStep, ReadTracker, LockTrackers, CreateTracker,
       CheckBackoff, ReadDuration, WakeUp, GiveUp, ReadLimiter, ReadDefaultLimiter, Reserve,
       TakeSlot, CancelSlot, RecordFailure, Goto
  <2> QED
    BY <2>1, <2>2
<1>4. CASE ReadConfig(v)
  <2>1. PICK x \in Values :
          call' = [call EXCEPT ![v].at = "tracker", ![v].domain = ExtractDomain(x),
                     ![v].config = configs[ExtractDomain(x)], ![v].life = Life[v]]
    BY <1>4 DEF ReadConfig
  <2> QED
    BY <1>0, <2>1 DEF Call
<1>5. CASE ReadLimiter(v)
  <2>1. CASE made[call[v].domain] = 0
    BY <1>0, <1>5, <2>1 DEF ReadLimiter, Call
  <2>2. CASE made[call[v].domain] # 0
    <3>1. call'[v].limiter = <<call[v].domain, made[call[v].domain]>>
      BY <1>0, <1>5, <2>2 DEF ReadLimiter, Call
    <3> QED
      BY <1>0, <3>1
  <2> QED
    BY <2>1, <2>2
<1>6. CASE ReadDefaultLimiter(v)
  <2>1. call'[v].limiter = <<Default, made[Default]>>
    BY <1>0, <1>6 DEF ReadDefaultLimiter, Call
  <2> QED
    BY <1>0, <2>1
<1>7. CASE GiveUp(v) \/ RecordSuccess(v) \/ RecordFailure(v)
  <2>1. call'[v] = NoCall
    BY <1>0, <1>7 DEF GiveUp, RecordSuccess, RecordFailure
  <2> QED
    BY <2>1 DEF NoCall
<1>8. CASE \/ ReadTracker(v) \/ LockTrackers(v) \/ CreateTracker(v) \/ CheckBackoff(v)
           \/ ReadDuration(v) \/ WakeUp(v) \/ Reserve(v) \/ TakeSlot(v) \/ CancelSlot(v)
  BY <1>0, <1>8 DEF ReadTracker, LockTrackers, CreateTracker, CheckBackoff, ReadDuration,
     WakeUp, Reserve, TakeSlot, CancelSlot, Goto, Call
<1>9. CASE Tick
  <2>1. call'[v] = [call[v] EXCEPT !.timer = Down(@), !.life = Down(@), !.owed = Down(@)]
    BY <1>9 DEF Tick
  <2> QED
    BY <1>0, <2>1 DEF Call
<1>10. ASSUME \/ \E a \in Admins : LockConfigs(a) \/ AddConfig(a)
              \/ \E o \in Observers : BeginMetrics(o) \/ MetricsStep(o)
              \/ UNCHANGED vars
       PROVE  UNCHANGED call
  BY <1>10 DEF LockConfigs, AddConfig, BeginMetrics, MetricsStep, ReadMetrics, EndMetrics,
     objects, vars
<1>11. ASSUME ReadConfig(v) \/ WaitStep(v)
       PROVE  \/ call'[v].limiter = call[v].limiter
              \/ \E d \in Domains : call'[v].limiter = <<d, made[d]>>
              \/ call'[v].limiter = <<Default, 1>>
  BY <1>11, <1>4, <1>5, <1>6, <1>7, <1>8 DEF WaitStep
<1> QED
  BY <1>3, <1>9, <1>10, <1>11 DEF Next

LEMMA PaceStep == IInv /\ PaceInv /\ [Next]_vars => PaceInv'
<1> SUFFICES ASSUME IInv, PaceInv, [Next]_vars PROVE PaceInv'
  OBVIOUS
<1>1. InUse'
  BY InUseKept DEF PaceInv
<1> SUFFICES ASSUME NEW b \in Limiters PROVE Booked(b)'
  BY <1>1 DEF PaceInv
<1>2. ASSUME NEW w \in Waiters, Reserve(w) \/ TakeSlot(w) \/ CancelSlot(w) PROVE Booked(b)'
  BY <1>2, OtherBuckets, ReservePaced, SlotPaced
<1>3. ASSUME NEW a \in Admins, AddConfig(a) PROVE Booked(b)'
  BY <1>3, NewBucket
<1>4. CASE Tick
  BY <1>4, TickPaced
<1>5. ASSUME \A w \in Waiters : ~Reserve(w) /\ ~TakeSlot(w) /\ ~CancelSlot(w),
             \A a \in Admins : ~AddConfig(a), ~Tick
      PROVE  Booked(b)'
  <2>1. SlotsKept
    BY <1>5, QuietSteps
  <2> QED
    BY <2>1, SameSlots DEF SlotsKept, PaceInv
<1> QED
  BY <1>2, <1>3, <1>4, <1>5

\* A bucket lets no more requests through in a stretch of time than its burst and one
\* for each tick, whatever calls are refused or cancelled and buckets replaced.
THEOREM BucketsArePaced == Spec => []Paced
<1>1. IInv /\ PaceInv => Paced
  <2> SUFFICES ASSUME IInv, PaceInv, NEW b \in Limiters
               PROVE  limiter[b].granted <= limiter[b].burst
    BY DEF Paced
  <2>1. Saved(b) \in Nat /\ Cardinality(Due(b)) \in Nat
    BY LimiterField, DueFinite DEF IInv, Saved
  <2> QED
    BY <2>1, LimiterField DEF PaceInv, Booked, IInv
<1>2. Spec => []PaceInv
  BY PaceInit, PaceStep, Inductive, PTL DEF Spec
<1> QED
  BY <1>1, <1>2, Inductive, PTL

-------------------------------------------------------------------------------
(***************************************************************************)
(* Backoff. What a call still owes when it goes to sleep is at most what it*)
(* sleeps, for between its two looks at the tracker a failure only makes   *)
(* the backoff longer, and a success ends the debt.                        *)
(***************************************************************************)

AllConfigs == Configs \cup {DefaultConfig}

ConfigsKnown ==
  /\ \A d \in Domains : configs[d] \in AllConfigs
  /\ \A a \in Admins : adding[a][2] \in AllConfigs
  /\ \A w \in Waiters : call[w].config \in AllConfigs

\* A backoff is that of some number of failures, which its count stands for.
EarnedBy(t) ==
  /\ backoff[t].failures <= MaxFailures
  /\ backoff[t].failures = 0 => backoff[t].current = 0
  /\ backoff[t].failures # 0 =>
       \E c \in AllConfigs : \E n \in 1..MaxFailures + 1 :
         /\ backoff[t].failures = IF n > MaxFailures THEN MaxFailures ELSE n
         /\ backoff[t].current = Capped(c.base * n, c)

PastBackoff == {"limiter", "default", "reserve", "slot", "granted"}

Covered(w) ==
  /\ call[w].at = "duration" => call[w].owed <= backoff[Mine(w)].current
  /\ call[w].at = "sleep" => call[w].owed <= call[w].timer
  /\ call[w].at \in PastBackoff => call[w].owed = 0

BackoffInv ==
  ConfigsKnown /\ (\A t \in Trackers : EarnedBy(t)) /\ \A w \in Waiters : Covered(w)

LEMMA ConfigFields ==
  \A c \in AllConfigs : c \in Config /\ c.base \in Nat /\ c.max \in Nat
BY Constants DEF AllConfigs, Config

LEMMA BackoffInit == Init => BackoffInv
<1> SUFFICES ASSUME Init PROVE BackoffInv
  OBVIOUS
<1>1. ConfigsKnown
  BY Constants DEF Init, ConfigsKnown, AllConfigs, NoCall
<1>2. \A t \in Trackers : EarnedBy(t)
  BY Constants DEF Init, EarnedBy, NewTracker
<1>3. \A w \in Waiters : Covered(w)
  BY DEF Init, Covered, NoCall, PastBackoff
<1> QED
  BY <1>1, <1>2, <1>3 DEF BackoffInv

\* Configurations come from the table, and those in the table from callers.
LEMMA ConfigsKnownKept == ASSUME IInv, ConfigsKnown, [Next]_vars PROVE ConfigsKnown'
<1>0. /\ call \in [Waiters -> Call] /\ configs \in [Domains -> Config]
      /\ adding \in [Admins -> Domains \X Config] /\ DefaultConfig \in AllConfigs
      /\ \A w \in Waiters : call[w].config \in AllConfigs
      /\ \A d \in Domains : configs[d] \in AllConfigs
      /\ \A a \in Admins : adding[a][2] \in AllConfigs
  BY DEF IInv, TypeOK, ConfigsKnown, AllConfigs
<1>1. ASSUME NEW a \in Admins, LockConfigs(a) PROVE ConfigsKnown'
  <2>1. PICK d \in Domains, c \in Configs : adding' = [adding EXCEPT ![a] = <<d, c>>]
    BY <1>1, Zenon DEF LockConfigs
  <2>2. UNCHANGED <<configs, call>>
    BY <1>1 DEF LockConfigs, tables
  <2> QED
    BY <1>0, <2>1, <2>2 DEF ConfigsKnown, AllConfigs
<1>2. ASSUME NEW a \in Admins, AddConfig(a) PROVE ConfigsKnown'
  BY <1>0, <1>2 DEF AddConfig, ConfigsKnown
<1>3. ASSUME NEW w \in Waiters, ReadConfig(w) \/ WaitStep(w) PROVE ConfigsKnown'
  <2>1. UNCHANGED <<configs, adding>>
    BY <1>3, Zenon DEF ReadConfig, WaitStep, ReadTracker, LockTrackers, CreateTracker, CheckBackoff,
       ReadDuration, WakeUp, GiveUp, ReadLimiter, ReadDefaultLimiter, Reserve, TakeSlot,
       CancelSlot, RecordSuccess, RecordFailure, tables, others
  <2>2. \A v \in Waiters : call'[v].config \in AllConfigs
    <3> TAKE v \in Waiters
    <3>1. CASE RecordSuccess(w)
      <4>1. \/ call'[v] = NoCall
            \/ call'[v] = [call[v] EXCEPT !.owed = IF Mine(v) = Mine(w) THEN 0 ELSE @]
        BY <3>1 DEF RecordSuccess
      <4> QED
        BY <1>0, <4>1 DEF NoCall, Call
    <3>2. CASE ReadConfig(w)
      <4>1. PICK x \in Values :
              call' = [call EXCEPT ![w].at = "tracker", ![w].domain = ExtractDomain(x),
                         ![w].config = configs[ExtractDomain(x)], ![w].life = Life[w]]
        BY <3>2 DEF ReadConfig
      <4>2. call'[w].config = configs[ExtractDomain(x)] /\ (v # w => call'[v] = call[v])
        BY <1>0, <4>1 DEF Call
      <4> QED
        BY <1>0, <4>2, Constants
    <3>3. CASE GiveUp(w) \/ RecordFailure(w)
      <4>1. call' = [call EXCEPT ![w] = NoCall]
        BY <3>3 DEF GiveUp, RecordFailure
      <4> QED
        BY <1>0, <4>1 DEF NoCall
    <3>4. CASE \/ ReadTracker(w) \/ LockTrackers(w) \/ CreateTracker(w) \/ CheckBackoff(w)
               \/ ReadDuration(w) \/ WakeUp(w) \/ ReadLimiter(w) \/ ReadDefaultLimiter(w)
               \/ Reserve(w) \/ TakeSlot(w) \/ CancelSlot(w)
      <4>1. CASE v # w
        BY <1>0, <3>4, <4>1 DEF ReadTracker, LockTrackers, CreateTracker, CheckBackoff,
           ReadDuration, WakeUp, ReadLimiter, ReadDefaultLimiter, Reserve, TakeSlot,
           CancelSlot, Goto
      <4>2. ASSUME v = w, \/ LockTrackers(w) \/ WakeUp(w) \/ ReadDuration(w) \/ ReadTracker(w)
                          \/ CheckBackoff(w) \/ CreateTracker(w)
            PROVE  call'[w].config = call[w].config
        BY <1>0, <4>2 DEF ReadTracker, LockTrackers, CreateTracker, CheckBackoff,
           ReadDuration, WakeUp, Goto, Call
      <4>3. ASSUME v = w, \/ ReadLimiter(w) \/ ReadDefaultLimiter(w) \/ Reserve(w)
                          \/ TakeSlot(w) \/ CancelSlot(w)
            PROVE  call'[w].config = call[w].config
        BY <1>0, <4>3 DEF ReadLimiter, ReadDefaultLimiter, Reserve, TakeSlot,
           CancelSlot, Goto, Call
      <4> QED
        BY <1>0, <3>4, <4>1, <4>2, <4>3
    <3> QED
      BY <1>3, <3>1, <3>2, <3>3, <3>4 DEF WaitStep
  <2> QED
    BY <1>0, <2>1, <2>2 DEF ConfigsKnown
<1>4. CASE Tick
  <2>1. UNCHANGED <<configs, adding>>
    BY <1>4 DEF Tick, tables, others
  <2>2. ASSUME NEW v \in Waiters PROVE call'[v].config = call[v].config
    <3>1. call'[v] = [call[v] EXCEPT !.timer = Down(@), !.life = Down(@), !.owed = Down(@)]
      BY <1>4 DEF Tick
    <3> QED
      BY <1>0, <3>1 DEF Call
  <2> QED
    BY <1>0, <2>1, <2>2 DEF ConfigsKnown
<1>5. ASSUME \/ \E o \in Observers : BeginMetrics(o) \/ MetricsStep(o)
             \/ UNCHANGED vars
      PROVE  UNCHANGED <<configs, adding, call>>
  BY <1>5 DEF BeginMetrics, MetricsStep, ReadMetrics, EndMetrics, tables, objects, others, vars
<1>6. ASSUME UNCHANGED <<configs, adding, call>> PROVE ConfigsKnown'
  BY <1>6, <1>0 DEF ConfigsKnown
<1> QED
  BY <1>1, <1>2, <1>3, <1>4, <1>5, <1>6 DEF Next

\* The four kinds of change to a tracker.
LEMMA TrackerChange ==
  ASSUME IInv, [Next]_vars, NEW t \in Trackers
  PROVE  \/ backoff'[t] = backoff[t]
         \/ \E w \in Waiters : RecordSuccess(w) /\ t = Mine(w) /\ backoff'[t] = NewTracker
         \/ \E w \in Waiters : /\ RecordFailure(w) /\ t = Mine(w)
                               /\ backoff'[t] = AfterFailure(t, call[w].config)
         \/ /\ Tick /\ backoff'[t].failures = backoff[t].failures
            /\ backoff'[t].current = backoff[t].current
<1>1. backoff \in [Trackers -> [failures : Nat, current : Nat, age : Nat]]
  BY SMTT(20) DEF IInv, TypeOK
<1>2. ASSUME NEW w \in Waiters, ReadConfig(w) \/ WaitStep(w),
             ~RecordSuccess(w), ~RecordFailure(w)
      PROVE  backoff' = backoff
  BY <1>2 DEF ReadConfig, WaitStep, ReadTracker, LockTrackers, CreateTracker, CheckBackoff,
     ReadDuration, WakeUp, GiveUp, ReadLimiter, ReadDefaultLimiter, Reserve, TakeSlot,
     CancelSlot, objects
<1>3. ASSUME NEW w \in Waiters, RecordSuccess(w)
      PROVE  backoff'[t] = IF t = Mine(w) THEN NewTracker ELSE backoff[t]
  BY <1>1, <1>3 DEF RecordSuccess, AfterSuccess
<1>4. ASSUME NEW w \in Waiters, RecordFailure(w)
      PROVE  backoff'[t] = IF t = Mine(w) THEN AfterFailure(t, call[w].config) ELSE backoff[t]
  BY <1>1, <1>4 DEF RecordFailure
<1>5. CASE Tick
  <2>1. backoff'[t] = [backoff[t] EXCEPT !.age = IF @ < backoff[t].current THEN @ + 1 ELSE @]
    BY <1>5 DEF Tick
  <2> QED
    BY <1>1, <1>5, <2>1
<1>6. ASSUME \/ \E a \in Admins : LockConfigs(a) \/ AddConfig(a)
             \/ \E o \in Observers : BeginMetrics(o) \/ MetricsStep(o)
             \/ UNCHANGED vars
      PROVE  backoff' = backoff
  BY <1>6 DEF LockConfigs, AddConfig, BeginMetrics, MetricsStep, ReadMetrics, EndMetrics,
     objects, vars
<1> QED
  BY <1>2, <1>3, <1>4, <1>5, <1>6 DEF Next

\* A failure is counted up to MaxFailures, and its backoff is that of the number of
\* failures before and one, under the configuration the call has read.
LEMMA FailureEarns ==
  ASSUME IInv, BackoffInv, NEW t \in Trackers, NEW c \in AllConfigs
  PROVE  LET n == backoff[t].failures + 1 IN
         /\ n \in 1..MaxFailures + 1
         /\ AfterFailure(t, c).failures = IF n > MaxFailures THEN MaxFailures ELSE n
         /\ AfterFailure(t, c).current = Capped(c.base * n, c)
<1>1. backoff[t].failures \in Nat /\ backoff[t].failures <= MaxFailures
  BY BackoffField DEF IInv, BackoffInv, EarnedBy
<1> QED
  BY <1>1, Constants DEF AfterFailure

LEMMA EarnedKept ==
  ASSUME IInv, BackoffInv, [Next]_vars, NEW t \in Trackers
  PROVE  EarnedBy(t)'
<1>1. EarnedBy(t)
  BY DEF BackoffInv
<1>2. ASSUME backoff'[t].failures = backoff[t].failures,
             backoff'[t].current = backoff[t].current
      PROVE  EarnedBy(t)'
  BY <1>1, <1>2 DEF EarnedBy
<1>3. ASSUME backoff'[t] = NewTracker PROVE EarnedBy(t)'
  BY <1>3, Constants DEF EarnedBy, NewTracker
<1>4. ASSUME NEW w \in Waiters, backoff'[t] = AfterFailure(t, call[w].config)
      PROVE  EarnedBy(t)'
  <2> DEFINE n == backoff[t].failures + 1
  <2>1. call[w].config \in AllConfigs
    BY DEF BackoffInv, ConfigsKnown
  <2>2. /\ n \in 1..MaxFailures + 1
        /\ backoff'[t].failures = IF n > MaxFailures THEN MaxFailures ELSE n
        /\ backoff'[t].current = Capped(call[w].config.base * n, call[w].config)
    BY <1>4, <2>1, FailureEarns
  <2> HIDE DEF n
  <2>3. backoff'[t].failures # 0 /\ backoff'[t].failures <= MaxFailures
    BY <2>2, Constants
  <2> QED
    BY <2>1, <2>2, <2>3 DEF EarnedBy
<1> QED
  BY <1>2, <1>3, <1>4, TrackerChange


\* While no call succeeds, a backoff only grows, if NeverShorter.
LEMMA BackoffGrows ==
  ASSUME IInv, BackoffInv, NeverShorter, [Next]_vars, NEW t \in Trackers,
         \A w \in Waiters : ~RecordSuccess(w)
  PROVE  backoff[t].current <= backoff'[t].current
<1>1. backoff[t].current \in Nat /\ EarnedBy(t)
  BY BackoffField DEF IInv, BackoffInv
<1>2. ASSUME NEW w \in Waiters, backoff'[t] = AfterFailure(t, call[w].config)
      PROVE  backoff[t].current <= backoff'[t].current
  <2> DEFINE d == call[w].config
             n == backoff[t].failures + 1
  <2>1. d \in AllConfigs
    BY DEF BackoffInv, ConfigsKnown
  <2>2. n \in 1..MaxFailures + 1 /\ backoff'[t].current = Capped(d.base * n, d)
    BY <1>2, <2>1, FailureEarns
  <2>3. Capped(d.base * n, d) >= 0
    BY <2>1, <2>2, ConfigFields, Constants DEF Capped
  <2>4. CASE backoff[t].failures = 0
    BY <1>1, <2>2, <2>3, <2>4 DEF EarnedBy
  <2>5. CASE backoff[t].failures # 0
    <3>1. PICK c \in AllConfigs, m \in 1..MaxFailures + 1 :
            /\ backoff[t].failures = IF m > MaxFailures THEN MaxFailures ELSE m
            /\ backoff[t].current = Capped(c.base * m, c)
      BY <1>1, <2>5 DEF EarnedBy
    <3>2. n = IF m > MaxFailures THEN m ELSE m + 1
      BY <3>1, Constants
    <3>3. Capped(c.base * m, c) <= Capped(d.base * (IF m > MaxFailures THEN m ELSE m + 1), d)
      BY <2>1, <3>1 DEF NeverShorter, AllConfigs
    <3> QED
      BY <2>2, <3>1, <3>2, <3>3
  <2> QED
    BY <2>4, <2>5
<1> QED
  BY <1>1, <1>2, TrackerChange

\* What a call still owes while it does nothing itself.
LEMMA CoveredByOthers ==
  ASSUME IInv, BackoffInv, NeverShorter, [Next]_vars, NEW v \in Waiters, call'[v] = call[v],
         \A w \in Waiters : ~RecordSuccess(w)
  PROVE  Covered(v)'
<1>1. Covered(v) /\ Mine(v)' = Mine(v) /\ call[v].owed \in Nat
  BY CallField DEF BackoffInv, Mine, IInv
<1>2. ASSUME call[v].at = "duration" PROVE call[v].owed <= backoff'[Mine(v)].current
  <2>1. Mine(v) \in Trackers
    BY <1>2, MineIsTracker DEF IInv, HasTracker
  <2>2. backoff[Mine(v)].current <= backoff'[Mine(v)].current
    BY <2>1, BackoffGrows
  <2>3. backoff[Mine(v)].current \in Nat /\ backoff'[Mine(v)].current \in Nat
    BY <2>1, BackoffField, TypesKept DEF IInv, TypeOK
  <2> QED
    BY <1>1, <1>2, <2>2, <2>3 DEF Covered
<1> QED
  BY <1>1, <1>2 DEF Covered

LEMMA CoveredByTick ==
  ASSUME IInv, BackoffInv, Tick, NEW v \in Waiters PROVE Covered(v)'
<1>1. /\ call[v].owed \in Nat /\ call[v].timer \in Nat /\ call[v].domain \in Domains
      /\ call[v].at \in Steps /\ call \in [Waiters -> Call] /\ Covered(v)
  BY CallField DEF IInv, TypeOK, BackoffInv
<1>2. call'[v] = [call[v] EXCEPT !.timer = Down(@), !.life = Down(@), !.owed = Down(@)]
  BY DEF Tick
<1>3. /\ call'[v].at = call[v].at /\ Mine(v)' = Mine(v)
      /\ call'[v].timer = Down(call[v].timer) /\ call'[v].owed = Down(call[v].owed)
  BY <1>1, <1>2 DEF Call, Mine
<1>4. \A m, n \in Nat : m <= n => Down(m) <= Down(n) /\ Down(m) <= m
  BY LifeAssumption DEF Down
<1>5. ASSUME call[v].at = "duration" PROVE call'[v].owed <= backoff'[Mine(v)].current
  <2>1. Mine(v) \in Trackers
    BY <1>5, MineIsTracker DEF IInv, HasTracker
  <2>2. backoff'[Mine(v)] = [backoff[Mine(v)] EXCEPT
          !.age = IF @ < backoff[Mine(v)].current THEN @ + 1 ELSE @]
    BY <2>1 DEF Tick
  <2>3. backoff'[Mine(v)].current = backoff[Mine(v)].current /\ backoff[Mine(v)].current \in Nat
    BY <2>1, <2>2 DEF IInv, TypeOK
  <2>4. call[v].owed <= backoff[Mine(v)].current
    BY <1>1, <1>5 DEF Covered
  <2>5. Down(call[v].owed) <= call[v].owed /\ Down(call[v].owed) \in Nat
    BY <1>1, <1>4, DownType
  <2> QED
    BY <1>1, <1>3, <2>3, <2>4, <2>5
<1>6. Down(0) = 0
  BY DEF Down
<1> QED
  BY <1>1, <1>3, <1>4, <1>5, <1>6 DEF Covered

LEMMA CoveredBySuccess ==
  ASSUME IInv, BackoffInv, NEW w \in Waiters, RecordSuccess(w), NEW v \in Waiters
  PROVE  Covered(v)'
<1>1. call[v] \in Call /\ Covered(v) /\ call[v].timer \in Nat
  BY CallField DEF IInv, TypeOK, BackoffInv
<1>2. CASE v = w
  BY <1>2 DEF RecordSuccess, NoCall, Covered, PastBackoff
<1>3. CASE v # w
  <2>1. call'[v] = [call[v] EXCEPT !.owed = IF Mine(v) = Mine(w) THEN 0 ELSE @]
    BY <1>3 DEF RecordSuccess
  <2>2. /\ call'[v].at = call[v].at /\ Mine(v)' = Mine(v) /\ call'[v].timer = call[v].timer
        /\ call'[v].owed = IF Mine(v) = Mine(w) THEN 0 ELSE call[v].owed
    BY <1>1, <2>1 DEF Call, Mine
  <2>3. ASSUME call[v].at = "duration" PROVE call'[v].owed <= backoff'[Mine(v)].current
    <3>1. Mine(v) \in Trackers
      BY <2>3, MineIsTracker DEF IInv, HasTracker
    <3>2. backoff'[Mine(v)] = IF Mine(v) = Mine(w) THEN NewTracker ELSE backoff[Mine(v)]
      BY <3>1 DEF RecordSuccess, AfterSuccess, IInv, TypeOK
    <3> QED
      BY <1>1, <2>2, <2>3, <3>2 DEF Covered, NewTracker
  <2> QED
    BY <1>1, <2>2, <2>3 DEF Covered
<1> QED
  BY <1>2, <1>3

\* The call's own steps.
LEMMA CoveredByItself ==
  ASSUME IInv, BackoffInv, NEW v \in Waiters, ReadConfig(v) \/ WaitStep(v),
         ~RecordSuccess(v)
  PROVE  Covered(v)'
<1>0. call \in [Waiters -> Call] /\ Covered(v) /\ call[v].timer \in Nat
  BY CallField DEF IInv, TypeOK, BackoffInv
<1>1. CASE ReadConfig(v)
  <2>1. PICK x \in Values :
          call' = [call EXCEPT ![v].at = "tracker", ![v].domain = ExtractDomain(x),
                     ![v].config = configs[ExtractDomain(x)], ![v].life = Life[v]]
    BY <1>1 DEF ReadConfig
  <2>2. call'[v].at = "tracker"
    BY <1>0, <2>1 DEF Call
  <2> QED
    BY <2>2 DEF Covered, PastBackoff
<1>2. CASE ReadTracker(v) \/ LockTrackers(v) \/ CreateTracker(v)
  <2>1. call'[v].at \in {"lock", "create", "check"}
    BY <1>0, <1>2 DEF ReadTracker, LockTrackers, CreateTracker, Goto, Call
  <2> QED
    BY <2>1 DEF Covered, PastBackoff
<1>3. CASE CheckBackoff(v)
  <2>1. Mine(v) \in Trackers
    BY <1>3, MineIsTracker DEF IInv, HasTracker, CheckBackoff, At
  <2>2. /\ backoff[Mine(v)].current \in Nat /\ backoff[Mine(v)].age \in Nat
        /\ EarnedBy(Mine(v))
    BY <2>1, BackoffField DEF IInv, BackoffInv
  <2>3. /\ call'[v].at = IF IsInBackoff(Mine(v)) THEN "duration" ELSE "limiter"
        /\ call'[v].owed = TimeLeft(Mine(v)) /\ Mine(v)' = Mine(v) /\ backoff' = backoff
    BY <1>0, <1>3 DEF CheckBackoff, Call, Mine, objects
  <2>4. TimeLeft(Mine(v)) <= backoff[Mine(v)].current
    BY <2>2 DEF TimeLeft
  <2>5. ~IsInBackoff(Mine(v)) => TimeLeft(Mine(v)) = 0
    BY <2>2 DEF TimeLeft, IsInBackoff, EarnedBy
  <2> QED
    BY <2>3, <2>4, <2>5 DEF Covered, PastBackoff
<1>4. CASE ReadDuration(v)
  <2>1. /\ call'[v].at = "sleep" /\ call'[v].timer = backoff[Mine(v)].current
        /\ call'[v].owed = call[v].owed
    BY <1>0, <1>4 DEF ReadDuration, SleepTime, Call
  <2> QED
    BY <1>0, <1>4, <2>1 DEF Covered, ReadDuration, At, PastBackoff
<1>5. CASE WakeUp(v)
  <2>1. call[v].at = "sleep" /\ call[v].timer = 0 /\ call[v].owed \in Nat
    BY <1>5, CallField DEF WakeUp, At, IInv
  <2>2. call'[v].at = "limiter" /\ call'[v].owed = call[v].owed
    BY <1>0, <1>5 DEF WakeUp, Goto, Call
  <2> QED
    BY <1>0, <2>1, <2>2 DEF Covered, PastBackoff
<1>6. CASE ReadLimiter(v) \/ ReadDefaultLimiter(v)
  <2>1. call[v].at \in {"limiter", "default"}
    BY <1>6 DEF ReadLimiter, ReadDefaultLimiter, At
  <2>2. call'[v].at \in {"default", "reserve"} /\ call'[v].owed = call[v].owed
    BY <1>0, <1>6 DEF ReadLimiter, ReadDefaultLimiter, Call
  <2> QED
    BY <1>0, <2>1, <2>2 DEF Covered, PastBackoff
<1>7. CASE Reserve(v) \/ TakeSlot(v) \/ CancelSlot(v)
  <2>1. call[v].at \in {"reserve", "slot"}
    BY <1>7 DEF Reserve, TakeSlot, CancelSlot, At
  <2>2. call'[v].at \in {"slot", "granted", "refused"} /\ call'[v].owed = call[v].owed
    BY <1>0, <1>7 DEF Reserve, TakeSlot, CancelSlot, Refused, Goto, Call
  <2> QED
    BY <1>0, <2>1, <2>2 DEF Covered, PastBackoff
<1>8. CASE GiveUp(v) \/ RecordFailure(v)
  <2>1. call'[v] = NoCall
    BY <1>0, <1>8 DEF GiveUp, RecordFailure
  <2> QED
    BY <2>1 DEF Covered, PastBackoff, NoCall
<1> QED
  BY <1>1, <1>2, <1>3, <1>4, <1>5, <1>6, <1>7, <1>8 DEF WaitStep

\* Who changes a call that does nothing itself.
LEMMA CallOfOthers ==
  ASSUME IInv, [Next]_vars, ~Tick, NEW v \in Waiters, ~ReadConfig(v), ~WaitStep(v),
         \A w \in Waiters : ~RecordSuccess(w)
  PROVE  call'[v] = call[v]
<1>0. call \in [Waiters -> Call]
  BY SMTT(20) DEF IInv, TypeOK
<1>1. ASSUME NEW w \in Waiters, w # v, ReadConfig(w) \/ WaitStep(w) PROVE call'[v] = call[v]
  BY <1>0, <1>1, Zenon DEF ReadConfig, WaitStep, ReadTracker, LockTrackers, CreateTracker,
     CheckBackoff, ReadDuration, WakeUp, GiveUp, ReadLimiter, ReadDefaultLimiter, Reserve,
     TakeSlot, CancelSlot, RecordFailure, Goto
<1>2. ASSUME NEW w \in Waiters, ReadConfig(w) \/ WaitStep(w) PROVE call'[v] = call[v]
  BY <1>1, <1>2
<1>3. ASSUME NEW a \in Admins, LockConfigs(a) \/ AddConfig(a) PROVE call'[v] = call[v]
  BY <1>3 DEF LockConfigs, AddConfig
<1>4. ASSUME NEW o \in Observers, BeginMetrics(o) \/ MetricsStep(o) PROVE call'[v] = call[v]
  BY <1>4 DEF BeginMetrics, MetricsStep, ReadMetrics, EndMetrics
<1>5. CASE UNCHANGED vars
  BY <1>5 DEF vars
<1> QED
  BY <1>2, <1>3, <1>4, <1>5 DEF Next

LEMMA BackoffStep == IInv /\ NeverShorter /\ BackoffInv /\ [Next]_vars => BackoffInv'
<1> SUFFICES ASSUME IInv, NeverShorter, BackoffInv, [Next]_vars PROVE BackoffInv'
  OBVIOUS
<1>1. ConfigsKnown'
  BY ConfigsKnownKept DEF BackoffInv
<1>2. \A t \in Trackers : EarnedBy(t)'
  BY EarnedKept
<1>3. ASSUME NEW v \in Waiters PROVE Covered(v)'
  <2>1. CASE Tick
    BY <2>1, CoveredByTick
  <2>2. CASE \E w \in Waiters : RecordSuccess(w)
    BY <2>2, CoveredBySuccess
  <2>3. CASE (ReadConfig(v) \/ WaitStep(v)) /\ ~RecordSuccess(v)
    BY <2>3, CoveredByItself
  <2>4. ASSUME ~Tick, \A w \in Waiters : ~RecordSuccess(w), ~ReadConfig(v), ~WaitStep(v)
        PROVE  Covered(v)'
    <3>1. call'[v] = call[v]
      BY <2>4, CallOfOthers
    <3> QED
      BY <2>4, <3>1, CoveredByOthers
  <2> QED
    BY <2>1, <2>2, <2>3, <2>4
<1> QED
  BY <1>1, <1>2, <1>3 DEF BackoffInv

\* A call asks for a token only when the backoff it met is over or was ended by a
\* success, whatever failures and configurations come between its two locks.
THEOREM BackoffIsHonoured == Spec => []BackoffHonoured
<1>1. CASE NeverShorter
  <2>1. BackoffInv => BackoffHonoured
    BY DEF BackoffInv, Covered, PastBackoff, BackoffHonoured
  <2>2. Init => BackoffInv
    BY BackoffInit
  <2>3. IInv /\ BackoffInv /\ [Next]_vars => BackoffInv'
    BY <1>1, BackoffStep
  <2> QED
    BY <2>1, <2>2, <2>3, Inductive, PTL DEF Spec
<1>2. CASE ~NeverShorter
  <2>1. BackoffHonoured
    BY <1>2 DEF BackoffHonoured
  <2> QED
    BY <2>1, PTL
<1> QED
  BY <1>1, <1>2
===============================================================================
