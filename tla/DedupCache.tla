------------------------------- MODULE DedupCache -------------------------------
(***************************************************************************)
(* DedupCache: which calls of one plugin are remembered, and for how long  *)
(* (internal/pkg/workerpool/deduplication.go, internal/pkg/database/cache. *)
(* go). A key is what the cache hashes of a task; the least recently used  *)
(* of those a process has met are forgotten, and a successful call leaves  *)
(* a row in the database that outlives the process until it expires.       *)
(*                                                                         *)
(* WorkerPool shows what the answer "duplicate" does to concurrent calls;  *)
(* this module shows when the answer is given, and what the call had       *)
(* learned that is not made again.                                         *)
(***************************************************************************)
EXTENDS Integers, Sequences, PluginCalls, CommitAuthors

CONSTANTS
  Submitters,      \* the goroutines that submit tasks
  Keys,            \* the identities of tasks
  KeysOf,          \* [Plugins -> SUBSET Keys], the tasks a plugin is given
  MemorySize,      \* MaxMemorySize
  EnableCache,     \* the two parts of the cache
  PersistentCache,
  CacheTTL,        \* in ticks; 0 makes rows that never expire
  Commits,         \* what the history of a repository is made of
  Owner            \* the account whose repositories github_identity reads

ASSUME CacheAssumption ==
  /\ MemorySize \in Nat
  /\ CacheTTL \in Nat
  /\ EnableCache \in BOOLEAN
  /\ PersistentCache \in BOOLEAN
  /\ KeysOf \in [Plugins -> SUBSET Keys]
ASSUME FiniteAssumption == IsFiniteSet(Keys)

\* Nobody else signs with the owner's login: it is GitHub that gives it.
Signatures == UNION {{commit.author, commit.committer} \cup commit.coauthors : commit \in Commits}
ASSUME SignatureAssumption ==
  /\ IsFiniteSet(Signatures)
  /\ \A a \in Signatures : DOMAIN a = {"person", "login", "email", "name"}
  /\ Owner.login # Missing
  /\ \A a \in Signatures : a.login = Owner.login => a.person = Owner.person

VARIABLES
  plugin,   \* the plugin the behaviour is about
  log,      \* the commits of a repository, when the plugin reads them
  memory,   \* LRUCache.list, the most recently used key first
  rows,     \* cache_entries: the ticks a row has left, if there is one
  marks,    \* the goroutines of MarkProcessed that have not written yet
  task,     \* what each submitter does, and with which key
  \* history
  used,     \* the keys this process has looked up or put with success
  since,    \* the keys used after the last use of a key
  heard     \* the requests that were answered in the call a row stands for

vars == <<plugin, log, memory, rows, marks, task, used, since, heard>>

Absent == -1
Fresh  == IF CacheTTL > 0 THEN CacheTTL ELSE 1
Stages == {"disk", "hit", "miss", "run"}
AllRequests == UNION {Requests[p] : p \in Plugins}
Idle == [stage |-> "idle"]
At(stage, k) == [stage |-> stage, key |-> k]

InMemory(k) == \E i \in DOMAIN memory : memory[i] = k

TypeOK ==
  /\ plugin \in Plugins
  /\ log \subseteq Commits
  /\ memory \in Seq(Keys)
  /\ Len(memory) <= MemorySize
  /\ \A i, j \in DOMAIN memory : memory[i] = memory[j] => i = j
  /\ rows \in [Keys -> Absent..Fresh]
  /\ marks \subseteq [key : Keys, heard : SUBSET AllRequests]
  /\ task \in [Submitters -> {Idle} \cup [stage : Stages, key : Keys]]
  /\ used \subseteq Keys
  /\ since \in [Keys -> SUBSET Keys]
  /\ heard \in [Keys -> SUBSET AllRequests]

Init ==
  /\ plugin \in Plugins
  /\ log \in IF plugin = "github_identity" THEN SUBSET Commits ELSE {{}}
  /\ memory = <<>>
  /\ rows = [k \in Keys |-> Absent]
  /\ marks = {}
  /\ task = [s \in Submitters |-> Idle]
  /\ used = {}
  /\ since = [k \in Keys |-> {}]
  /\ heard = [k \in Keys |-> {}]

-------------------------------------------------------------------------------
(***************************************************************************)
(* LRUCache.                                                               *)
(***************************************************************************)

\* Variants: the cache is never too large; a key that is there stays in its place.
PushFrontUnbounded(k) == <<k>> \o memory
MoveToFrontNot(p) == memory

\* list.MoveToFront of the key at position p.
MoveToFront(p) ==
  [i \in 1..Len(memory) |->
     IF i = 1 THEN memory[p] ELSE IF i <= p THEN memory[i - 1] ELSE memory[i]]

\* list.PushFront, and the removal of the last key when there are too many.
PushFront(k) ==
  LET size == IF Len(memory) < MemorySize THEN Len(memory) + 1 ELSE MemorySize
  IN [i \in 1..size |-> IF i = 1 THEN k ELSE memory[i - 1]]

Used(k) ==
  /\ used' = used \cup {k}
  /\ since' = [j \in Keys |-> IF j = k THEN {} ELSE since[j] \cup {k}]

\* LRUCache.Get and Put of a key that is there.
Refresh(k) ==
  /\ \E p \in DOMAIN memory : memory[p] = k /\ memory' = MoveToFront(p)
  /\ Used(k)

\* LRUCache.Put
Put(k) ==
  \/ Refresh(k)
  \/ ~InMemory(k) /\ memory' = PushFront(k) /\ Used(k)

-------------------------------------------------------------------------------
(***************************************************************************)
(* IsDuplicate, and what Submit and the worker do with its answer.         *)
(***************************************************************************)

\* database.Cache.Get: a row that has expired is a miss.
Readable(k) == rows[k] > 0

\* IsDuplicate up to the lookup in memory, which may answer.
Lookup(s, k) ==
  /\ task[s] = Idle
  /\ k \in KeysOf[plugin]
  /\ IF EnableCache /\ InMemory(k) THEN Refresh(k) /\ UNCHANGED task
     ELSE /\ task' = [task EXCEPT ![s] = At(IF PersistentCache THEN "disk" ELSE "miss", k)]
          /\ UNCHANGED <<memory, used, since>>
  /\ UNCHANGED <<plugin, log, rows, marks, heard>>

\* checkPersistentCache, whose failure is a miss.
LookupRow(s) ==
  /\ task[s].stage = "disk"
  /\ \/ Readable(task[s].key) /\ task' = [task EXCEPT ![s].stage = "hit"]
     \/ task' = [task EXCEPT ![s].stage = "miss"]
  /\ UNCHANGED <<plugin, log, memory, rows, marks, used, since, heard>>

\* A duplicate: the key is put in memory even when that cache is not enabled.
PutHit(s) ==
  /\ task[s].stage = "hit"
  /\ Put(task[s].key)
  /\ task' = [task EXCEPT ![s] = Idle]
  /\ UNCHANGED <<plugin, log, rows, marks, heard>>

PutMiss(s) ==
  /\ task[s].stage = "miss"
  /\ IF EnableCache THEN Put(task[s].key) ELSE UNCHANGED <<memory, used, since>>
  /\ task' = [task EXCEPT ![s].stage = "run"]
  /\ UNCHANGED <<plugin, log, rows, marks, heard>>

\* Submit turns the task away: an open breaker, the rate limit, a full queue.
TurnAway(s) ==
  /\ task[s].stage = "run"
  /\ task' = [task EXCEPT ![s] = Idle]
  /\ UNCHANGED <<plugin, log, memory, rows, marks, used, since, heard>>

\* What a call can come to, for all answers to the requests of the plugin.
Outcomes == [p \in Plugins |->
  {LET call == FollowTrace(p, answers)
   IN [failed |-> call.failed,
       heard |-> {r \in Requests[p] : r \in call.sent /\ answers[r] \notin Unanswered}] :
     answers \in [Requests[p] -> Replies(p)]}]

\* recordTaskResult: a success is left to a goroutine to remember.
MarkProcessed(k, outcome) ==
  marks' = IF PersistentCache /\ ~outcome.failed
           THEN marks \cup {[key |-> k, heard |-> outcome.heard]} ELSE marks

\* A worker runs the plugin and records the result.
Run(s) ==
  /\ task[s].stage = "run"
  /\ \E outcome \in Outcomes[plugin] : MarkProcessed(task[s].key, outcome)
  /\ task' = [task EXCEPT ![s] = Idle]
  /\ UNCHANGED <<plugin, log, memory, rows, used, since, heard>>

\* storeInPersistentCache: INSERT OR REPLACE, unless the database refuses.
WriteRow(m) ==
  /\ marks' = marks \ {m}
  /\ \/ rows' = [rows EXCEPT ![m.key] = Fresh] /\ heard' = [heard EXCEPT ![m.key] = m.heard]
     \/ UNCHANGED <<rows, heard>>
  /\ UNCHANGED <<plugin, log, memory, task, used, since>>

\* cleanup: DELETE of the rows that have expired.
Cleanup ==
  /\ PersistentCache
  /\ rows' = [k \in Keys |-> IF rows[k] = 0 THEN Absent ELSE rows[k]]
  /\ UNCHANGED <<plugin, log, memory, marks, task, used, since, heard>>

Tick ==
  /\ CacheTTL > 0
  /\ rows' = [k \in Keys |-> IF Readable(k) THEN rows[k] - 1 ELSE rows[k]]
  /\ UNCHANGED <<plugin, log, memory, marks, task, used, since, heard>>

\* The process ends, at any point, and the next one starts.
Restart ==
  /\ memory' = <<>> /\ marks' = {} /\ task' = [s \in Submitters |-> Idle]
  /\ used' = {} /\ since' = [k \in Keys |-> {}]
  /\ UNCHANGED <<plugin, log, rows, heard>>

Next ==
  \/ \E s \in Submitters : \/ \E k \in Keys : Lookup(s, k)
                           \/ LookupRow(s) \/ PutHit(s) \/ PutMiss(s)
                           \/ TurnAway(s) \/ Run(s)
  \/ \E m \in marks : WriteRow(m)
  \/ Cleanup \/ Tick \/ Restart

Spec == Init /\ [][Next]_vars

-------------------------------------------------------------------------------
\* The keys in memory are those used last: a key is met again without being
\* recognised only after MemorySize other keys have been used, and never sooner.
RecentlyUsedStays ==
  \A k \in Keys : InMemory(k) <=> k \in used /\ Cardinality(since[k]) < MemorySize

\* A call is not made again only if it was answered: deduplication.go says of a call
\* that was refused or rate-limited that remembering it suppresses every retry. What
\* plugins that pass over their failures report as a success is remembered too.
RefusedIsTriedAgain == \A k \in Keys : Readable(k) => heard[k] # {}

\* github_identity names nobody but the owner of a repository that more people signed
\* than MaxContributors, in whatever ways they sign and whatever the history leaves
\* out, as long as no two of them sign in one way.
StrangersUnnamed ==
  LET authors == ParseCommitAuthors(log)
  IN ToldApart(authors) /\ Cardinality(People(authors)) > MaxContributors =>
       People(Reported(log, Owner)) \subseteq {Owner.person}

===============================================================================
