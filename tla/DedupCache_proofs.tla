---------------------------- MODULE DedupCache_proofs ----------------------------
(***************************************************************************)
(* Proofs about DedupCache, for any keys, submitters and cache size. The   *)
(* invariant behind the eviction order is that the keys used since the     *)
(* last use of the i-th key in memory are the i - 1 keys in front of it.   *)
(* Whom CommitAuthors reports rests on counting: people who share no key   *)
(* are no more than their keys.                                            *)
(***************************************************************************)
EXTENDS DedupCache, FiniteSetTheorems, TLAPS

\* The keys in front of position i of a list.
Before(list, i) == {list[j] : j \in 1..i - 1}

UsedSince ==
  \A i \in DOMAIN memory : memory[i] \in used /\ since[memory[i]] = Before(memory, i)

\* A key that is used and not in memory was pushed out by as many as there are.
Displaced ==
  \A k \in used : ~InMemory(k) =>
    Len(memory) = MemorySize /\ Before(memory, MemorySize + 1) \subseteq since[k]

IInv == TypeOK /\ UsedSince /\ Displaced

-------------------------------------------------------------------------------
\* What a call had answered is among the requests of its plugin.
LEMMA OutcomeType ==
  ASSUME NEW p \in Plugins, NEW outcome \in Outcomes[p]
  PROVE  outcome.heard \subseteq AllRequests
BY DEF Outcomes, AllRequests

\* A use keeps the histories' types.
LEMMA UsedType ==
  ASSUME TypeOK, NEW k \in Keys, Used(k)
  PROVE  used' \subseteq Keys /\ since' \in [Keys -> SUBSET Keys]
BY DEF TypeOK, Used

\* MoveToFront permutes the list: the front becomes k, what was before it moves one
\* place back, and the rest stays.
LEMMA MovedToFront ==
  ASSUME TypeOK, NEW p \in DOMAIN memory, memory' = MoveToFront(p)
  PROVE  /\ memory' \in Seq(Keys) /\ Len(memory') = Len(memory)
         /\ DOMAIN memory' = DOMAIN memory
         /\ \A i \in DOMAIN memory :
              memory'[i] = IF i = 1 THEN memory[p] ELSE IF i <= p THEN memory[i - 1]
                           ELSE memory[i]
<1>1. /\ memory \in Seq(Keys) /\ Len(memory) \in Nat /\ DOMAIN memory = 1..Len(memory)
      /\ \A i \in 1..Len(memory) : memory[i] \in Keys
  BY DEF TypeOK
<1>2. memory' \in [1..Len(memory) -> Keys]
  BY <1>1 DEF MoveToFront
<1>3. memory' \in Seq(Keys) /\ Len(memory') = Len(memory)
  BY <1>1, <1>2
<1> QED
  BY <1>1, <1>3 DEF MoveToFront

\* PushFront puts k in front and drops the last of a full list.
LEMMA PushedFront ==
  ASSUME TypeOK, NEW k \in Keys, memory' = PushFront(k)
  PROVE  /\ memory' \in Seq(Keys)
         /\ Len(memory') = IF Len(memory) < MemorySize THEN Len(memory) + 1 ELSE MemorySize
         /\ DOMAIN memory' = 1..Len(memory')
         /\ \A i \in DOMAIN memory' : memory'[i] = IF i = 1 THEN k ELSE memory[i - 1]
         /\ \A i \in DOMAIN memory' : i # 1 => i - 1 \in DOMAIN memory
<1> DEFINE size == IF Len(memory) < MemorySize THEN Len(memory) + 1 ELSE MemorySize
<1>1. /\ memory \in Seq(Keys) /\ Len(memory) \in Nat /\ DOMAIN memory = 1..Len(memory)
      /\ \A i \in 1..Len(memory) : memory[i] \in Keys
      /\ Len(memory) <= MemorySize /\ MemorySize \in Nat
  BY CacheAssumption DEF TypeOK
<1>2. size \in Nat /\ \A i \in 1..size : i # 1 => i - 1 \in 1..Len(memory)
  BY <1>1
<1>3. memory' \in [1..size -> Keys]
  BY <1>1, <1>2 DEF PushFront
<1>4. memory' \in Seq(Keys) /\ Len(memory') = size
  BY <1>2, <1>3
<1> QED
  BY <1>1, <1>2, <1>4 DEF PushFront

\* The key at the front is the one just used; those it passed have been used
\* before it, and it now stands among what was used after them.
LEMMA RefreshKeeps ==
  ASSUME IInv, NEW k \in Keys, Refresh(k)
  PROVE  /\ memory' \in Seq(Keys) /\ Len(memory') <= MemorySize
         /\ \A i, j \in DOMAIN memory' : memory'[i] = memory'[j] => i = j
         /\ UsedSince' /\ Displaced'
<1>1. PICK p \in DOMAIN memory : memory[p] = k /\ memory' = MoveToFront(p)
  BY DEF Refresh
<1>2. /\ DOMAIN memory = 1..Len(memory) /\ Len(memory) \in Nat /\ Len(memory) <= MemorySize
      /\ MemorySize \in Nat /\ since \in [Keys -> SUBSET Keys] /\ used \subseteq Keys
      /\ \A i \in DOMAIN memory : memory[i] \in Keys
      /\ \A i, j \in DOMAIN memory : memory[i] = memory[j] => i = j
  BY CacheAssumption DEF IInv, TypeOK
<1>3. /\ memory' \in Seq(Keys) /\ Len(memory') = Len(memory)
      /\ DOMAIN memory' = DOMAIN memory
      /\ \A i \in DOMAIN memory :
           memory'[i] = IF i = 1 THEN k ELSE IF i <= p THEN memory[i - 1] ELSE memory[i]
  BY <1>1, MovedToFront DEF IInv
<1>4. \A i, j \in DOMAIN memory' : memory'[i] = memory'[j] => i = j
  <2> SUFFICES ASSUME NEW i \in DOMAIN memory, NEW j \in DOMAIN memory,
                      memory'[i] = memory'[j]
               PROVE  i = j
    BY <1>3
  <2> DEFINE from(n) == IF n = 1 THEN p ELSE IF n <= p THEN n - 1 ELSE n
  <2>1. \A n \in DOMAIN memory : from(n) \in DOMAIN memory /\ memory'[n] = memory[from(n)]
    BY <1>1, <1>2, <1>3
  <2>2. from(i) = from(j)
    BY <2>1, <1>2
  <2> QED
    BY <2>2, <1>1, <1>2
<1>5. \A n \in DOMAIN memory : \E m \in DOMAIN memory : memory'[m] = memory[n]
  <2> TAKE n \in DOMAIN memory
  <2>1. CASE n = p
    BY <2>1, <1>1, <1>2, <1>3
  <2>2. CASE n < p
    <3>1. n + 1 \in DOMAIN memory /\ n + 1 # 1 /\ n + 1 <= p /\ (n + 1) - 1 = n
      BY <2>2, <1>2
    <3> QED
      BY <3>1, <1>3
  <2>3. CASE n > p
    BY <2>3, <1>1, <1>2, <1>3
  <2> QED
    BY <2>1, <2>2, <2>3, <1>1, <1>2
<1>6. /\ used' = used \cup {k}
      /\ \A j \in Keys : since'[j] = IF j = k THEN {} ELSE since[j] \cup {k}
  BY DEF Refresh, Used
<1>7. UsedSince'
  <2> SUFFICES ASSUME NEW i \in DOMAIN memory
               PROVE  memory'[i] \in used' /\ since'[memory'[i]] = Before(memory', i)
    BY <1>3 DEF UsedSince
  <2>1. CASE i = 1
    <3>1. memory'[i] = k /\ k \in used' /\ since'[k] = {}
      BY <2>1, <1>3, <1>6
    <3>2. Before(memory', i) = {}
      BY <2>1 DEF Before
    <3> QED
      BY <3>1, <3>2
  <2>2. CASE i # 1 /\ i <= p
    <3>1. i - 1 \in DOMAIN memory /\ i - 1 # p /\ memory'[i] = memory[i - 1]
      BY <2>2, <1>1, <1>2, <1>3
    <3>2. memory'[i] # k /\ memory'[i] \in used
      BY <3>1, <1>1, <1>2 DEF IInv, UsedSince
    <3>3. since'[memory'[i]] = Before(memory, i - 1) \cup {k}
      BY <3>1, <3>2, <1>2, <1>6 DEF IInv, UsedSince
    <3>4. Before(memory', i) = Before(memory, i - 1) \cup {k}
      <4>1. \A j \in 1..i - 1 : memory'[j] = IF j = 1 THEN k ELSE memory[j - 1]
        <5> TAKE j \in 1..i - 1
        <5>1. j \in DOMAIN memory /\ j <= p
          BY <2>2, <1>2
        <5> QED
          BY <5>1, <1>3
      <4>2. \A n \in 1..(i - 1) - 1 : n + 1 \in 1..i - 1 /\ memory'[n + 1] = memory[n]
        BY <4>1, <1>2
      <4>3. 1 \in 1..i - 1
        BY <2>2, <1>2
      <4>4. \A j \in 1..i - 1 : j # 1 => j - 1 \in 1..(i - 1) - 1
        BY <1>2
      <4> QED
        BY <4>1, <4>2, <4>3, <4>4 DEF Before
    <3> QED
      BY <3>2, <3>3, <3>4, <1>6
  <2>3. CASE i > p
    <3>1. memory'[i] = memory[i] /\ memory[i] # k /\ memory[i] \in used
      BY <2>3, <1>1, <1>2, <1>3 DEF IInv, UsedSince
    <3>2. since'[memory'[i]] = Before(memory, i) \cup {k}
      BY <3>1, <1>2, <1>6 DEF IInv, UsedSince
    <3>3. Before(memory, i) \cup {k} = Before(memory, i)
      BY <1>1, <1>2, <2>3 DEF Before
    <3>4. Before(memory', i) = Before(memory, i)
      <4>1. \A j \in 1..i - 1 : \E n \in 1..i - 1 : memory'[j] = memory[n]
        <5> TAKE j \in 1..i - 1
        <5>1. CASE j = 1
          BY <5>1, <2>3, <1>1, <1>2, <1>3
        <5>2. CASE j # 1 /\ j <= p
          BY <5>2, <2>3, <1>1, <1>2, <1>3
        <5>3. CASE j # 1 /\ j > p
          BY <5>3, <2>3, <1>1, <1>2, <1>3
        <5> QED
          BY <5>1, <5>2, <5>3, <1>1, <1>2
      <4>2. \A n \in 1..i - 1 : \E j \in 1..i - 1 : memory[n] = memory'[j]
        <5> TAKE n \in 1..i - 1
        <5>1. CASE n = p
          BY <5>1, <2>3, <1>1, <1>2, <1>3
        <5>2. CASE n < p
          <6>1. /\ n + 1 \in 1..i - 1 /\ n + 1 \in DOMAIN memory
                /\ n + 1 # 1 /\ n + 1 <= p /\ (n + 1) - 1 = n
            BY <5>2, <2>3, <1>2
          <6>2. memory'[n + 1] = memory[n]
            BY <6>1, <1>2, <1>3
          <6> QED
            BY <6>1, <6>2
        <5>3. CASE n > p
          BY <5>3, <2>3, <1>1, <1>2, <1>3
        <5> QED
          BY <5>1, <5>2, <5>3, <1>1, <1>2
      <4> QED
        BY <4>1, <4>2 DEF Before
    <3> QED
      BY <3>1, <3>2, <3>3, <3>4, <1>6
  <2> QED
    BY <2>1, <2>2, <2>3, <1>1, <1>2
<1>8. Displaced'
  <2> SUFFICES ASSUME NEW j \in used', ~InMemory(j)'
               PROVE  /\ Len(memory') = MemorySize
                      /\ Before(memory', MemorySize + 1) \subseteq since'[j]
    BY DEF Displaced
  <2>1. j # k /\ j \in used /\ ~InMemory(j)
    BY <1>1, <1>3, <1>5, <1>6 DEF InMemory
  <2>2. Len(memory) = MemorySize /\ Before(memory, MemorySize + 1) \subseteq since[j]
    BY <2>1 DEF IInv, Displaced
  <2>3. \A n \in 1..MemorySize : \E m \in 1..MemorySize : memory'[n] = memory[m]
    <3> TAKE n \in 1..MemorySize
    <3>1. CASE n = 1
      BY <3>1, <2>2, <1>1, <1>2, <1>3
    <3>2. CASE n # 1 /\ n <= p
      BY <3>2, <2>2, <1>1, <1>2, <1>3
    <3>3. CASE n # 1 /\ n > p
      BY <3>3, <2>2, <1>1, <1>2, <1>3
    <3> QED
      BY <3>1, <3>2, <3>3, <1>1, <1>2, <2>2
  <2>4. Before(memory', MemorySize + 1) \subseteq Before(memory, MemorySize + 1)
    BY <2>3, <1>2 DEF Before
  <2> QED
    <3>1. j \in Keys /\ since'[j] = since[j] \cup {k}
      BY <2>1, <1>2, <1>6
    <3> QED
      BY <3>1, <2>2, <2>4, <1>3
<1> QED
  BY <1>2, <1>3, <1>4, <1>7, <1>8

\* A new key pushes out the last of a full list, which is then behind as many keys
\* as there is room for.
LEMMA PushKeeps ==
  ASSUME IInv, NEW k \in Keys, ~InMemory(k), memory' = PushFront(k), Used(k)
  PROVE  /\ memory' \in Seq(Keys) /\ Len(memory') <= MemorySize
         /\ \A i, j \in DOMAIN memory' : memory'[i] = memory'[j] => i = j
         /\ UsedSince' /\ Displaced'
<1>1. /\ DOMAIN memory = 1..Len(memory) /\ Len(memory) \in Nat /\ Len(memory) <= MemorySize
      /\ MemorySize \in Nat /\ since \in [Keys -> SUBSET Keys] /\ used \subseteq Keys
      /\ \A i \in DOMAIN memory : memory[i] \in Keys /\ memory[i] # k
      /\ \A i, j \in DOMAIN memory : memory[i] = memory[j] => i = j
  BY CacheAssumption DEF IInv, TypeOK, InMemory
<1>2. /\ memory' \in Seq(Keys)
      /\ Len(memory') = IF Len(memory) < MemorySize THEN Len(memory) + 1 ELSE MemorySize
      /\ DOMAIN memory' = 1..Len(memory')
      /\ \A i \in DOMAIN memory' : memory'[i] = IF i = 1 THEN k ELSE memory[i - 1]
      /\ \A i \in DOMAIN memory' : i # 1 => i - 1 \in DOMAIN memory
  BY PushedFront DEF IInv
<1>3. /\ used' = used \cup {k}
      /\ \A j \in Keys : since'[j] = IF j = k THEN {} ELSE since[j] \cup {k}
  BY DEF Used
<1>4. Len(memory') <= MemorySize
  BY <1>1, <1>2
<1>5. \A i, j \in DOMAIN memory' : memory'[i] = memory'[j] => i = j
  BY <1>1, <1>2
<1>6. \A i \in DOMAIN memory' : i # 1 => Before(memory', i) = Before(memory, i - 1) \cup {k}
  <2> TAKE i \in DOMAIN memory'
  <2> HAVE i # 1
  <2>1. \A j \in 1..i - 1 : memory'[j] = IF j = 1 THEN k ELSE memory[j - 1]
    <3> TAKE j \in 1..i - 1
    <3>1. j \in DOMAIN memory'
      BY <1>1, <1>2
    <3> QED
      BY <3>1, <1>2
  <2>2. \A n \in 1..(i - 1) - 1 : n + 1 \in 1..i - 1 /\ memory'[n + 1] = memory[n]
    BY <2>1, <1>1, <1>2
  <2>3. 1 \in 1..i - 1 /\ \A j \in 1..i - 1 : j # 1 => j - 1 \in 1..(i - 1) - 1
    BY <1>1, <1>2
  <2> QED
    BY <2>1, <2>2, <2>3 DEF Before
<1>7. UsedSince'
  <2> SUFFICES ASSUME NEW i \in DOMAIN memory'
               PROVE  memory'[i] \in used' /\ since'[memory'[i]] = Before(memory', i)
    BY DEF UsedSince
  <2>1. CASE i = 1
    <3>1. memory'[i] = k /\ since'[k] = {} /\ k \in used'
      BY <2>1, <1>2, <1>3
    <3>2. Before(memory', i) = {}
      BY <2>1 DEF Before
    <3> QED
      BY <3>1, <3>2
  <2>2. CASE i # 1
    <3>1. i - 1 \in DOMAIN memory /\ memory'[i] = memory[i - 1]
      BY <2>2, <1>2
    <3>2. memory[i - 1] \in used /\ since[memory[i - 1]] = Before(memory, i - 1)
      BY <3>1 DEF IInv, UsedSince
    <3>3. since'[memory'[i]] = Before(memory, i - 1) \cup {k}
      BY <3>1, <3>2, <1>1, <1>3
    <3> QED
      BY <2>2, <3>1, <3>2, <3>3, <1>3, <1>6
  <2> QED
    BY <2>1, <2>2
<1>8. Displaced'
  <2> SUFFICES ASSUME NEW j \in used', ~InMemory(j)'
               PROVE  /\ Len(memory') = MemorySize
                      /\ Before(memory', MemorySize + 1) \subseteq since'[j]
    BY DEF Displaced
  <2>1. CASE MemorySize = 0
    <3>1. Before(memory', MemorySize + 1) = {}
      BY <2>1 DEF Before
    <3> QED
      BY <3>1, <2>1, <1>1, <1>2
  <2>2. CASE MemorySize > 0
    <3>1. 1 \in DOMAIN memory' /\ memory'[1] = k
      BY <2>2, <1>1, <1>2
    <3>2. j # k /\ j \in used /\ j \in Keys /\ since'[j] = since[j] \cup {k}
      BY <3>1, <1>1, <1>3 DEF InMemory
    <3>3. \A n \in DOMAIN memory' : n # 1 => memory'[n] \in since[j]
      <4>1. CASE InMemory(j)
        <5>1. PICK p \in DOMAIN memory : memory[p] = j
          BY <4>1 DEF InMemory
        <5>2. p + 1 \notin DOMAIN memory'
          <6>1. p + 1 \in DOMAIN memory' => memory'[p + 1] = j
            BY <5>1, <1>1, <1>2
          <6> QED
            BY <6>1 DEF InMemory
        <5>3. p = MemorySize /\ Len(memory) = MemorySize
          <6>1. p \in Nat /\ 1 <= p /\ p <= Len(memory) /\ ~(p + 1 <= Len(memory'))
            BY <5>1, <5>2, <1>1, <1>2
          <6>2. ~(Len(memory) < MemorySize)
            BY <6>1, <1>1, <1>2
          <6>3. Len(memory') = MemorySize
            BY <6>2, <1>2
          <6>4. p + 1 > MemorySize /\ p <= MemorySize
            BY <6>1, <6>3, <1>1
          <6>5. MemorySize \in Nat /\ Len(memory) \in Nat /\ Len(memory) <= MemorySize
            BY <1>1
          <6>6. p = MemorySize
            BY <6>1, <6>4, <6>5
          <6> QED
            BY <6>1, <6>5, <6>6
        <5>4. since[j] = Before(memory, MemorySize)
          BY <5>1, <5>3 DEF IInv, UsedSince
        <5>5. \A n \in DOMAIN memory' : n # 1 =>
                n - 1 \in 1..MemorySize - 1 /\ memory'[n] = memory[n - 1]
          BY <1>1, <1>2, <5>3
        <5> QED
          BY <5>4, <5>5 DEF Before
      <4>2. CASE ~InMemory(j)
        <5>1. Len(memory) = MemorySize /\ Before(memory, MemorySize + 1) \subseteq since[j]
          BY <4>2, <3>2 DEF IInv, Displaced
        <5>2. \A n \in DOMAIN memory' : n # 1 =>
                n - 1 \in 1..(MemorySize + 1) - 1 /\ memory'[n] = memory[n - 1]
          BY <1>1, <1>2, <5>1
        <5> QED
          BY <5>1, <5>2 DEF Before
      <4> QED
        BY <4>1, <4>2
    <3>4. Len(memory') = MemorySize
      <4>1. CASE InMemory(j)
        <5>1. PICK p \in DOMAIN memory : memory[p] = j
          BY <4>1 DEF InMemory
        <5>2. p + 1 \in DOMAIN memory' => memory'[p + 1] = j
          BY <5>1, <1>1, <1>2
        <5>3. p + 1 \notin DOMAIN memory'
          BY <5>2 DEF InMemory
        <5> QED
          BY <5>1, <5>3, <1>1, <1>2
      <4>2. CASE ~InMemory(j)
        <5>1. Len(memory) = MemorySize
          BY <4>2, <3>2 DEF IInv, Displaced
        <5> QED
          BY <5>1, <1>1, <1>2
      <4> QED
        BY <4>1, <4>2
    <3>5. \A n \in 1..(MemorySize + 1) - 1 : memory'[n] \in since'[j]
      BY <3>1, <3>2, <3>3, <3>4, <1>1, <1>2
    <3> QED
      BY <3>4, <3>5 DEF Before
  <2> QED
    BY <2>1, <2>2, <1>1
<1> QED
  BY <1>2, <1>4, <1>5, <1>7, <1>8

-------------------------------------------------------------------------------
LEMMA InitEstablishes == Init => IInv
<1> SUFFICES ASSUME Init PROVE IInv
  OBVIOUS
<1>1. memory = <<>> /\ used = {}
  BY DEF Init
<1>2. TypeOK
  <2>1. Absent \in Absent..Fresh /\ MemorySize >= 0
    BY CacheAssumption DEF Absent, Fresh
  <2>2. log \subseteq Commits
    BY DEF Init
  <2> QED
    BY <1>1, <2>1, <2>2 DEF Init, TypeOK
<1>3. UsedSince /\ Displaced
  BY <1>1 DEF UsedSince, Displaced
<1> QED
  BY <1>2, <1>3 DEF IInv

\* What neither uses a key nor forgets one leaves the order alone.
LEMMA OrderKept ==
  ASSUME IInv, UNCHANGED <<memory, used, since>>
  PROVE  UsedSince' /\ Displaced'
BY DEF IInv, UsedSince, Displaced, Before, InMemory

\* The part of the invariant that a step on tasks, rows and markers can disturb.
RestOK ==
  /\ plugin \in Plugins /\ log \subseteq Commits
  /\ rows \in [Keys -> Absent..Fresh]
  /\ marks \subseteq [key : Keys, heard : SUBSET AllRequests]
  /\ task \in [Submitters -> {Idle} \cup [stage : Stages, key : Keys]]
  /\ heard \in [Keys -> SUBSET AllRequests]

LEMMA PutKeeps ==
  ASSUME IInv, NEW k \in Keys, Put(k)
  PROVE  /\ memory' \in Seq(Keys) /\ Len(memory') <= MemorySize
         /\ \A i, j \in DOMAIN memory' : memory'[i] = memory'[j] => i = j
         /\ used' \subseteq Keys /\ since' \in [Keys -> SUBSET Keys]
         /\ UsedSince' /\ Displaced'
<1>1. Used(k)
  BY DEF Put, Refresh
<1>2. used' \subseteq Keys /\ since' \in [Keys -> SUBSET Keys]
  BY <1>1, UsedType DEF IInv
<1>3. CASE Refresh(k)
  BY <1>2, <1>3, RefreshKeeps
<1>4. CASE ~InMemory(k) /\ memory' = PushFront(k)
  BY <1>1, <1>2, <1>4, PushKeeps
<1> QED
  BY <1>3, <1>4 DEF Put

LEMMA KeyOfTask ==
  ASSUME TypeOK, NEW s \in Submitters, task[s] # Idle
  PROVE  task[s].key \in Keys /\ task[s].stage \in Stages
BY DEF TypeOK

LEMMA RestStep ==
  ASSUME TypeOK, [Next]_vars
  PROVE  RestOK'
<1> USE DEF TypeOK, RestOK
<1>1. \A st \in Stages, k \in Keys : At(st, k) \in [stage : Stages, key : Keys]
  BY DEF At
<1>2. ASSUME NEW s \in Submitters, NEW k \in Keys, Lookup(s, k)
      PROVE  RestOK'
  BY <1>2, <1>1 DEF Lookup, Stages
<1>3. ASSUME NEW s \in Submitters, LookupRow(s)
      PROVE  RestOK'
  <2>1. task[s] # Idle
    BY <1>3 DEF LookupRow, Idle
  <2>2. \A st \in Stages : [task[s] EXCEPT !.stage = st] \in [stage : Stages, key : Keys]
    BY <2>1
  <2>3. task' = [task EXCEPT ![s].stage = "hit"] \/ task' = [task EXCEPT ![s].stage = "miss"]
    BY <1>3 DEF LookupRow
  <2>4. task' \in [Submitters -> {Idle} \cup [stage : Stages, key : Keys]]
    BY <2>2, <2>3 DEF Stages
  <2> QED
    BY <1>3, <2>4 DEF LookupRow
<1>4. ASSUME NEW s \in Submitters, PutHit(s) \/ TurnAway(s)
      PROVE  RestOK'
  BY <1>4 DEF PutHit, TurnAway
<1>5. ASSUME NEW s \in Submitters, PutMiss(s)
      PROVE  RestOK'
  <2>1. task[s] # Idle
    BY <1>5 DEF PutMiss, Idle
  <2> QED
    BY <1>5, <2>1 DEF PutMiss, Stages
<1>6. ASSUME NEW s \in Submitters, Run(s)
      PROVE  RestOK'
  <2>1. task[s].key \in Keys
    BY <1>6, KeyOfTask DEF Run, Idle
  <2>2. PICK outcome \in Outcomes[plugin] : MarkProcessed(task[s].key, outcome)
    BY <1>6 DEF Run
  <2>3. outcome.heard \subseteq AllRequests
    BY OutcomeType
  <2>4. marks' \subseteq [key : Keys, heard : SUBSET AllRequests]
    BY <2>1, <2>2, <2>3 DEF MarkProcessed
  <2> QED
    BY <1>6, <2>4 DEF Run
<1>7. ASSUME NEW m \in marks, WriteRow(m)
      PROVE  RestOK'
  <2>1. m.key \in Keys /\ m.heard \in SUBSET AllRequests
    OBVIOUS
  <2>2. Fresh \in Absent..Fresh
    BY CacheAssumption DEF Fresh, Absent
  <2>3. rows' \in [Keys -> Absent..Fresh]
    BY <1>7, <2>1, <2>2 DEF WriteRow
  <2>4. heard' \in [Keys -> SUBSET AllRequests]
    BY <1>7, <2>1 DEF WriteRow
  <2>5. marks' \subseteq marks /\ UNCHANGED <<plugin, log, task>>
    BY <1>7 DEF WriteRow
  <2> HIDE DEF Fresh, Absent, AllRequests, Stages, Idle
  <2> QED
    BY <2>3, <2>4, <2>5
<1>8. CASE Cleanup
  BY <1>8, CacheAssumption DEF Cleanup, Fresh, Absent
<1>9. CASE Tick
  BY <1>9, CacheAssumption DEF Tick, Readable, Fresh, Absent
<1>10. CASE Restart
  BY <1>10 DEF Restart
<1>11. CASE UNCHANGED vars
  BY <1>11 DEF vars
<1> QED
  BY <1>2, <1>3, <1>4, <1>5, <1>6, <1>7, <1>8, <1>9, <1>10, <1>11 DEF Next

LEMMA StepKeeps == IInv /\ [Next]_vars => IInv'
<1> SUFFICES ASSUME IInv, [Next]_vars PROVE IInv'
  OBVIOUS
<1> DEFINE Kept ==
  /\ memory' \in Seq(Keys) /\ Len(memory') <= MemorySize
  /\ \A i, j \in DOMAIN memory' : memory'[i] = memory'[j] => i = j
  /\ used' \subseteq Keys /\ since' \in [Keys -> SUBSET Keys]
  /\ UsedSince' /\ Displaced'
<1>1. TypeOK
  BY DEF IInv
<1>2. ASSUME UNCHANGED <<memory, used, since>> PROVE Kept
  BY <1>1, <1>2, OrderKept DEF TypeOK
<1>3. ASSUME NEW s \in Submitters, NEW k \in Keys, Lookup(s, k)
      PROVE  Kept
  BY <1>2, <1>3, PutKeeps DEF Lookup, Put
<1>4. ASSUME NEW s \in Submitters, PutHit(s)
      PROVE  Kept
  BY <1>1, <1>4, KeyOfTask, PutKeeps DEF PutHit, Idle
<1>5. ASSUME NEW s \in Submitters, PutMiss(s)
      PROVE  Kept
  BY <1>1, <1>2, <1>5, KeyOfTask, PutKeeps DEF PutMiss, Idle
<1>6. ASSUME NEW s \in Submitters, LookupRow(s) \/ TurnAway(s) \/ Run(s)
      PROVE  Kept
  BY <1>2, <1>6 DEF LookupRow, TurnAway, Run
<1>7. ASSUME NEW m \in marks, WriteRow(m)
      PROVE  Kept
  BY <1>2, <1>7 DEF WriteRow
<1>8. ASSUME Cleanup \/ Tick \/ UNCHANGED vars
      PROVE  Kept
  BY <1>2, <1>8 DEF Cleanup, Tick, vars
<1>9. ASSUME Restart PROVE Kept
  <2>1. memory' = <<>> /\ used' = {} /\ since' = [k \in Keys |-> {}]
    BY <1>9 DEF Restart
  <2> QED
    BY <2>1, CacheAssumption DEF UsedSince, Displaced
<1>10. Kept
  BY <1>3, <1>4, <1>5, <1>6, <1>7, <1>8, <1>9 DEF Next
<1>11. RestOK'
  BY <1>1, RestStep
<1> QED
  BY <1>10, <1>11 DEF IInv, TypeOK, RestOK

LEMMA Inductive == Spec => []IInv
BY InitEstablishes, StepKeeps, PTL DEF Spec

\* The cache, its rows and its histories keep their types, and memory holds no key
\* twice and at most MemorySize of them.
THEOREM CacheTypeCorrect == Spec => []TypeOK
<1>1. IInv => TypeOK
  BY DEF IInv
<1> QED
  BY <1>1, Inductive, PTL

\* As many keys are in front of position i as there are positions.
LEMMA CountBefore ==
  ASSUME TypeOK, NEW i \in 1..Len(memory) + 1
  PROVE  IsFiniteSet(Before(memory, i)) /\ Cardinality(Before(memory, i)) = i - 1
<1>1. /\ DOMAIN memory = 1..Len(memory) /\ Len(memory) \in Nat
      /\ \A m, n \in DOMAIN memory : memory[m] = memory[n] => m = n
  BY DEF TypeOK
<1> DEFINE f == [j \in 1..i - 1 |-> memory[j]]
<1>2. f \in Bijection(1..i - 1, Before(memory, i))
  BY <1>1 DEF Before, Bijection, Injection, Surjection, IsInjective
<1>3. i - 1 \in Nat /\ ExistsBijection(1..i - 1, Before(memory, i))
  BY <1>1, <1>2 DEF ExistsBijection
<1> QED
  BY <1>3, FS_CountingElements, FS_NatBijection

\* RecentlyUsedStays holds whatever the keys and the size of the cache: list and map
\* implement "least recently used".
THEOREM LeastRecentlyUsedGoes == Spec => []RecentlyUsedStays
<1>1. ASSUME IInv PROVE RecentlyUsedStays
  <2> SUFFICES ASSUME NEW k \in Keys
               PROVE  InMemory(k) <=> k \in used /\ Cardinality(since[k]) < MemorySize
    BY DEF RecentlyUsedStays
  <2>1. /\ DOMAIN memory = 1..Len(memory) /\ Len(memory) \in Nat
        /\ Len(memory) <= MemorySize /\ MemorySize \in Nat /\ since[k] \subseteq Keys
    BY <1>1, CacheAssumption DEF IInv, TypeOK
  <2>2. CASE InMemory(k)
    <3>1. PICK i \in DOMAIN memory : memory[i] = k
      BY <2>2 DEF InMemory
    <3>2. k \in used /\ since[k] = Before(memory, i)
      BY <1>1, <3>1 DEF IInv, UsedSince
    <3>3. Cardinality(Before(memory, i)) = i - 1
      BY <1>1, <2>1, CountBefore DEF IInv
    <3> QED
      BY <2>1, <2>2, <3>2, <3>3
  <2>3. CASE ~InMemory(k) /\ k \in used
    <3>1. Len(memory) = MemorySize /\ Before(memory, MemorySize + 1) \subseteq since[k]
      BY <1>1, <2>3 DEF IInv, Displaced
    <3>2. Cardinality(Before(memory, MemorySize + 1)) = MemorySize
      BY <1>1, <2>1, <3>1, CountBefore DEF IInv
    <3>3. IsFiniteSet(since[k])
      BY <2>1, FiniteAssumption, FS_Subset
    <3>4. MemorySize <= Cardinality(since[k]) /\ Cardinality(since[k]) \in Nat
      BY <3>1, <3>2, <3>3, FS_Subset, FS_CardinalityType
    <3> QED
      BY <2>1, <2>3, <3>4
  <2> QED
    BY <2>2, <2>3
<1> QED
  BY <1>1, Inductive, PTL

-------------------------------------------------------------------------------
(***************************************************************************)
(* The people of a history, and the ways they sign: every way belongs to   *)
(* one person, and a person has three of them at most.                     *)
(***************************************************************************)

\* A signature that is looked at, and the one it was made of.
SignedAs(a, b) ==
  /\ ~Unsigned(a)
  /\ a.person = b.person /\ a.email = b.email /\ a.name = b.name
  /\ a.login = b.login \/ a.login = Missing

LEMMA SignaturesKept ==
  ASSUME NEW history \in SUBSET Commits, NEW a \in ParseCommitAuthors(history)
  PROVE  \E b \in Signatures : SignedAs(a, b)
<1>1. PICK commit \in history : a \in SignaturesOf(commit)
  BY DEF ParseCommitAuthors
<1>2. {commit.author, commit.committer} \cup commit.coauthors \subseteq Signatures
  BY DEF Signatures
<1>3. CASE a = commit.author
  BY <1>1, <1>2, <1>3 DEF SignaturesOf, SignedAs
<1>4. CASE \E s \in {commit.committer} \cup commit.coauthors : a = [s EXCEPT !.login = Missing]
  <2>1. PICK s \in Signatures : a = [s EXCEPT !.login = Missing]
    BY <1>2, <1>4
  <2>2. a.login = Missing /\ a.person = s.person /\ a.email = s.email /\ a.name = s.name
    BY <2>1, SignatureAssumption
  <2> QED
    BY <1>1, <2>2 DEF SignaturesOf, SignedAs
<1> QED
  BY <1>1, <1>3, <1>4 DEF SignaturesOf

KeysOfAuthors(authors) == {IdentityKey(a) : a \in authors}

LEMMA FiniteHistory ==
  ASSUME NEW history \in SUBSET Commits
  PROVE  IsFiniteSet(ParseCommitAuthors(history))
<1> DEFINE unlogged == {[s EXCEPT !.login = Missing] : s \in Signatures}
           unlog == [s \in Signatures |-> [s EXCEPT !.login = Missing]]
<1>1. IsFiniteSet(Signatures)
  BY SignatureAssumption
<1>2. IsFiniteSet(unlogged)
  <2>1. unlog \in Surjection(Signatures, unlogged)
    BY DEF Surjection
  <2> HIDE DEF unlogged, unlog
  <2> QED
    BY <1>1, <2>1, FS_Surjection
<1>3. IsFiniteSet(Signatures \cup unlogged)
  BY <1>1, <1>2, FS_Union
<1>4. ASSUME NEW a \in ParseCommitAuthors(history) PROVE a \in Signatures \cup unlogged
  <2>1. PICK commit \in history : a \in SignaturesOf(commit)
    BY DEF ParseCommitAuthors
  <2>2. {commit.author, commit.committer} \cup commit.coauthors \subseteq Signatures
    BY DEF Signatures
  <2> QED
    BY <2>1, <2>2 DEF SignaturesOf
<1> QED
  BY <1>3, <1>4, FS_Subset

\* There are at least as many keys as people, unless two people share one.
LEMMA KeysAndPeople ==
  ASSUME NEW history \in SUBSET Commits, ToldApart(ParseCommitAuthors(history))
  PROVE  LET authors == ParseCommitAuthors(history) IN
         /\ IsFiniteSet(People(authors)) /\ IsFiniteSet(KeysOfAuthors(authors))
         /\ Cardinality(People(authors)) <= Cardinality(KeysOfAuthors(authors))
<1> DEFINE authors == ParseCommitAuthors(history)
           people == People(authors)
           keys == KeysOfAuthors(authors)
<1>1. IsFiniteSet(keys)
  <2> DEFINE key == [a \in authors |-> IdentityKey(a)]
  <2>1. key \in Surjection(authors, keys)
    BY DEF Surjection, KeysOfAuthors
  <2>2. IsFiniteSet(authors)
    BY FiniteHistory
  <2> HIDE DEF authors, keys, key
  <2> QED
    BY <2>1, <2>2, FS_Surjection
<1>2. \A a \in authors : a.person \in people /\ IdentityKey(a) \in keys
  BY DEF People, KeysOfAuthors
<1>3. \A a, b \in authors : IdentityKey(a) = IdentityKey(b) => a.person = b.person
  BY DEF ToldApart
<1>4. IsFiniteSet(people) /\ Cardinality(people) <= Cardinality(keys)
  <2> DEFINE person == [k \in keys |-> (CHOOSE a \in authors : IdentityKey(a) = k).person]
  <2>1. ASSUME NEW a \in authors PROVE person[IdentityKey(a)] = a.person
    <3> DEFINE b == CHOOSE x \in authors : IdentityKey(x) = IdentityKey(a)
    <3>1. b \in authors /\ IdentityKey(b) = IdentityKey(a)
      OBVIOUS
    <3>2. b.person = a.person
      BY <1>3, <3>1
    <3> QED
      BY <1>2, <3>2
  <2>2. \A k \in keys : person[k] \in people
    <3> SUFFICES ASSUME NEW k \in keys PROVE person[k] \in people
      OBVIOUS
    <3>1. PICK a \in authors : k = IdentityKey(a)
      BY DEF KeysOfAuthors
    <3> HIDE DEF person
    <3> QED
      BY <1>2, <2>1, <3>1
  <2>3. \A p \in people : \E k \in keys : person[k] = p
    <3> HIDE DEF person
    <3> QED
      BY <1>2, <2>1 DEF People
  <2>4. person \in [keys -> people]
    BY <2>2
  <2> HIDE DEF person
  <2>5. person \in Surjection(keys, people)
    BY <2>3, <2>4 DEF Surjection
  <2> HIDE DEF keys, people
  <2> QED
    BY <1>1, <2>5, FS_Surjection
<1> QED
  BY <1>1, <1>4

\* Whom github_identity reports of a repository with more people than MaxContributors,
\* none of whom signs as another does: nobody but its owner.
THEOREM StrangersStayUnnamed == Spec => []StrangersUnnamed
<1>1. ASSUME NEW history \in SUBSET Commits, ToldApart(ParseCommitAuthors(history)),
             Cardinality(People(ParseCommitAuthors(history))) > MaxContributors
      PROVE  People(Reported(history, Owner)) \subseteq {Owner.person}
  <2> DEFINE authors == ParseCommitAuthors(history)
             people == People(authors)
  <2>1. /\ IsFiniteSet(people) /\ IsFiniteSet(KeysOfAuthors(authors))
        /\ Cardinality(people) <= DistinctIdentities(authors)
    BY <1>1, KeysAndPeople DEF DistinctIdentities, KeysOfAuthors
  <2>2. DistinctIdentities(authors) \in Nat /\ Cardinality(people) \in Nat
    BY <2>1, FS_CardinalityType DEF DistinctIdentities, KeysOfAuthors
  <2>3. ~(DistinctIdentities(authors) <= MaxContributors)
    BY <1>1, <2>1, <2>2, ContributorAssumption
  <2>4. Reported(history, Owner) = {a \in authors : a.login = Owner.login}
    BY <2>3 DEF Reported
  <2>5. ASSUME NEW a \in authors, a.login = Owner.login PROVE a.person = Owner.person
    <3>1. PICK b \in Signatures : SignedAs(a, b)
      BY SignaturesKept
    <3> QED
      BY <2>5, <3>1, SignatureAssumption DEF SignedAs
  <2> QED
    BY <2>4, <2>5 DEF People
<1>2. TypeOK => StrangersUnnamed
  BY <1>1 DEF TypeOK, StrangersUnnamed
<1> QED
  BY <1>2, CacheTypeCorrect, PTL
===============================================================================
