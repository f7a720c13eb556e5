------------------------- MODULE ContactCrawler_proofs -------------------------
(***************************************************************************)
(* Proofs about ContactCrawler, for any crawls, webs and limits. What was  *)
(* asked of a domain is what its budget has lost and one request for every *)
(* crawl that tried its seed again, which a crawl does once: it has either *)
(* read a page by then or ended. And what a crawl reads is what breadth-   *)
(* first search finds, by induction over the distance from its first page. *)
(***************************************************************************)
EXTENDS ContactCrawler, Induction, FiniteSetTheorems

Fields == {"at", "seed", "queue", "item", "visited", "pages", "collected", "read", "failed",
           "retried"}

\* As much of TypeOK as the accounts of requests need.
Shape ==
  /\ remaining \in [Domains -> 0..Maximum]
  /\ asked \in [Domains -> Nat]
  /\ DOMAIN crawl = Crawls
  /\ \A c \in Crawls :
       /\ DOMAIN crawl[c] = Fields
       /\ crawl[c].seed \in Pages /\ crawl[c].pages \in Nat

\* A crawl that waits for a page is paid for by the budget of its domain.
Paying == \A c \in Crawls : crawl[c].at \in {"fetch", "fallback"} => Domain(c) \in Domains

\* A seed is not tried for a third time.
RetriedOnce == \A c \in Crawls : crawl[c].retried =>
  \/ crawl[c].at \in {"fallback", "done"} /\ crawl[c].item.depth = 0
  \/ crawl[c].pages > 0

Retried(d) == {c \in Crawls : crawl[c].retried /\ Domain(c) = d}

Accounts == \A d \in Domains :
  asked[d] = (Maximum - remaining[d]) + Cardinality(Retried(d))

IInv == Shape /\ Paying /\ RetriedOnce /\ Accounts

LEMMA RetriedFinite ==
  \A d \in Domains : IsFiniteSet(Retried(d)) /\ Cardinality(Retried(d)) \in Nat
BY LimitAssumption, FS_Subset, FS_CardinalityType DEF Retried

LEMMA InitEstablishes == Init => IInv
<1> SUFFICES ASSUME Init PROVE IInv
  OBVIOUS
<1>1. crawl \in [Crawls -> {NewCrawl(s) : s \in Seeds}]
  BY DEF Init
<1>2. \A c \in Crawls :
        /\ DOMAIN crawl[c] = Fields
        /\ crawl[c].seed \in Pages /\ crawl[c].pages = 0 /\ crawl[c].retried = FALSE
        /\ crawl[c].at = "idle"
  <2> SUFFICES ASSUME NEW c \in Crawls
               PROVE  /\ DOMAIN crawl[c] = Fields
                      /\ crawl[c].seed \in Pages /\ crawl[c].pages = 0
                      /\ crawl[c].retried = FALSE /\ crawl[c].at = "idle"
    OBVIOUS
  <2>1. crawl[c] \in {NewCrawl(s) : s \in Seeds}
    BY <1>1
  <2>2. PICK s \in Seeds : crawl[c] = NewCrawl(s)
    BY <2>1
  <2>3. DOMAIN NewCrawl(s) = Fields
    BY DEF NewCrawl, Fields
  <2> QED
    BY <2>2, <2>3, PageAssumption DEF NewCrawl
<1>3. Shape
  <2>1. remaining \in [Domains -> 0..Maximum] /\ asked \in [Domains -> Nat]
    BY LimitAssumption DEF Init
  <2>2. DOMAIN crawl = Crawls
    BY <1>1
  <2> QED
    BY <2>1, <2>2, <1>2 DEF Shape
<1>4. Paying /\ RetriedOnce
  BY <1>2 DEF Paying, RetriedOnce
<1>5. \A d \in Domains : Retried(d) = {}
  BY <1>2 DEF Retried
<1>6. Accounts
  BY <1>5, FS_EmptySet, LimitAssumption DEF Accounts, Init
<1> QED
  BY <1>3, <1>4, <1>6 DEF IInv
-------------------------------------------------------------------------------
\* A step that asks for nothing: it moves one crawl, which keeps its seed, its pages
\* and whether it tried its seed again.
LEMMA NothingAsked ==
  ASSUME IInv, NEW c \in Crawls, UNCHANGED <<remaining, asked>>,
         DOMAIN crawl' = Crawls, \A k \in Crawls \ {c} : crawl'[k] = crawl[k],
         DOMAIN crawl'[c] = Fields, crawl'[c].seed = crawl[c].seed,
         crawl'[c].retried = crawl[c].retried,
         crawl'[c].pages \in {crawl[c].pages, crawl[c].pages + 1},
         crawl'[c].at \notin {"fetch", "fallback"},
         crawl'[c].retried =>
           \/ crawl'[c].at = "done" /\ crawl'[c].item.depth = 0
           \/ crawl'[c].pages > 0
  PROVE  IInv'
<1>1. \A k \in Crawls : /\ crawl'[k].seed = crawl[k].seed
                        /\ crawl'[k].retried = crawl[k].retried
  OBVIOUS
<1>2. Shape'
  BY <1>1 DEF IInv, Shape
<1>3. Paying'
  BY <1>1 DEF IInv, Paying, Domain
<1>4. RetriedOnce'
  BY DEF IInv, RetriedOnce
<1>5. \A d \in Domains : Retried(d)' = Retried(d)
  BY <1>1 DEF Retried, Domain
<1>6. Accounts'
  BY <1>5 DEF IInv, Accounts
<1> QED
  BY <1>2, <1>3, <1>4, <1>6 DEF IInv

LEMMA StartKeeps == ASSUME IInv, NEW c \in Crawls, Start(c) PROVE IInv'
<1>1. /\ DOMAIN crawl' = Crawls /\ \A k \in Crawls \ {c} : crawl'[k] = crawl[k]
      /\ DOMAIN crawl'[c] = Fields /\ crawl'[c].seed = crawl[c].seed
      /\ crawl'[c].retried = crawl[c].retried /\ crawl'[c].pages = crawl[c].pages
      /\ crawl'[c].at = "loop"
  BY DEF IInv, Shape, Fields, Start
<1>2. crawl[c].retried => crawl[c].pages > 0
  BY DEF IInv, RetriedOnce, Start, At
<1> QED
  BY <1>1, <1>2, NothingAsked DEF Start

LEMMA SkipKeeps == ASSUME IInv, NEW c \in Crawls, Skip(c) PROVE IInv'
<1>1. /\ DOMAIN crawl' = Crawls /\ \A k \in Crawls \ {c} : crawl'[k] = crawl[k]
      /\ DOMAIN crawl'[c] = Fields /\ crawl'[c].seed = crawl[c].seed
      /\ crawl'[c].retried = crawl[c].retried /\ crawl'[c].pages = crawl[c].pages
      /\ crawl'[c].at = "loop"
  BY DEF IInv, Shape, Fields, Skip, Looping, At
<1>2. crawl[c].retried => crawl[c].pages > 0
  BY SMTT(20) DEF IInv, RetriedOnce, Skip, Looping, At
<1> QED
  BY <1>1, <1>2, NothingAsked DEF Skip

LEMMA ReadKeeps == ASSUME IInv, NEW c \in Crawls, Read(c) PROVE IInv'
<1>1. /\ DOMAIN crawl' = Crawls /\ \A k \in Crawls \ {c} : crawl'[k] = crawl[k]
      /\ DOMAIN crawl'[c] = Fields /\ crawl'[c].seed = crawl[c].seed
      /\ crawl'[c].retried = crawl[c].retried /\ crawl'[c].pages = crawl[c].pages + 1
      /\ crawl'[c].at = "loop"
  BY DEF IInv, Shape, Fields, Read
<1>2. crawl'[c].pages > 0
  BY <1>1 DEF IInv, Shape
<1> QED
  BY <1>1, <1>2, NothingAsked, ZenonT(20) DEF Read

\* A crawl that tried its seed twice and has no page is done.
LEMMA FailKeeps == ASSUME IInv, NEW c \in Crawls, Fail(c) PROVE IInv'
<1>1. /\ DOMAIN crawl' = Crawls /\ \A k \in Crawls \ {c} : crawl'[k] = crawl[k]
      /\ DOMAIN crawl'[c] = Fields /\ crawl'[c].seed = crawl[c].seed
      /\ crawl'[c].retried = crawl[c].retried /\ crawl'[c].pages = crawl[c].pages
      /\ crawl'[c].item = crawl[c].item
      /\ crawl'[c].at = IF crawl[c].item.depth = 0 /\ crawl[c].pages = 0
                        THEN "done" ELSE "loop"
  BY DEF IInv, Shape, Fields, Fail
<1>2. crawl[c].retried => crawl[c].item.depth = 0 \/ crawl[c].pages > 0
  BY DEF IInv, RetriedOnce
<1>3. crawl[c].pages = 0 \/ crawl[c].pages > 0
  BY DEF IInv, Shape
<1>4. UNCHANGED <<remaining, asked>>
  BY DEF Fail
<1>5. crawl'[c].at \in {"done", "loop"}
  BY <1>1
<1>6. crawl'[c].retried => \/ crawl'[c].at = "done" /\ crawl'[c].item.depth = 0
                           \/ crawl'[c].pages > 0
  BY <1>1, <1>2, <1>3
<1> QED
  BY <1>1, <1>4, <1>5, <1>6, NothingAsked

LEMMA ReturnKeeps == ASSUME IInv, NEW c \in Crawls, Return(c) PROVE IInv'
<1>1. /\ DOMAIN crawl' = Crawls /\ \A k \in Crawls \ {c} : crawl'[k] = crawl[k]
      /\ DOMAIN crawl'[c] = Fields /\ crawl'[c].seed = crawl[c].seed
      /\ crawl'[c].retried = crawl[c].retried /\ crawl'[c].pages = crawl[c].pages
      /\ crawl'[c].at = "done"
  BY DEF IInv, Shape, Fields, Return
<1>2. crawl[c].retried => crawl[c].pages > 0
  BY DEF IInv, RetriedOnce, Return, At
<1> QED
  BY <1>1, <1>2, NothingAsked DEF Return

\* What is asked is paid for: the budget loses what the domain is asked.
LEMMA RequestKeeps == ASSUME IInv, NEW c \in Crawls, Request(c) PROVE IInv'
<1>1. /\ DOMAIN crawl' = Crawls /\ \A k \in Crawls \ {c} : crawl'[k] = crawl[k]
      /\ DOMAIN crawl'[c] = Fields /\ crawl'[c].seed = crawl[c].seed
      /\ crawl'[c].retried = crawl[c].retried /\ crawl'[c].pages = crawl[c].pages
      /\ crawl'[c].at = "fetch"
  BY DEF IInv, Shape, Fields, Request
<1>2. crawl[c].retried => crawl[c].pages > 0
  BY DEF IInv, RetriedOnce, Request, Looping, At
<1>3. Domain(c) \in Domains /\ remaining[Domain(c)] > 0
  BY PageAssumption DEF IInv, Shape, Request, Unwanted, SameSite, Domain
<1>4. /\ remaining' = [remaining EXCEPT ![Domain(c)] = @ - 1]
      /\ asked' = [asked EXCEPT ![Domain(c)] = @ + 1]
  BY DEF Request, Spend
<1>5. /\ remaining \in [Domains -> 0..Maximum] /\ asked \in [Domains -> Nat]
      /\ Maximum \in Nat
  BY LimitAssumption DEF IInv, Shape
<1>6. remaining' \in [Domains -> 0..Maximum] /\ asked' \in [Domains -> Nat]
  BY <1>3, <1>4, <1>5
<1>7. \A k \in Crawls : /\ crawl'[k].seed = crawl[k].seed
                        /\ crawl'[k].retried = crawl[k].retried
  BY <1>1
<1>8. Shape'
  BY <1>1, <1>6 DEF IInv, Shape
<1>9. Paying'
  BY <1>1, <1>3, <1>7 DEF IInv, Paying, Domain
<1>10. RetriedOnce'
  BY <1>1, <1>2 DEF IInv, RetriedOnce
<1>11. \A d \in Domains : Retried(d)' = Retried(d)
  BY <1>7 DEF Retried, Domain
<1>12. Accounts'
  <2> SUFFICES ASSUME NEW d \in Domains
               PROVE  asked'[d] = (Maximum - remaining'[d]) + Cardinality(Retried(d))
    BY <1>11 DEF Accounts
  <2>1. asked[d] = (Maximum - remaining[d]) + Cardinality(Retried(d))
    BY DEF IInv, Accounts
  <2>2. Cardinality(Retried(d)) \in Nat
    BY RetriedFinite
  <2>3. CASE d = Domain(c)
    BY <2>1, <2>2, <2>3, <1>4, <1>5
  <2>4. CASE d # Domain(c)
    BY <2>1, <2>4, <1>4, <1>5
  <2> QED
    BY <2>3, <2>4
<1> QED
  BY <1>8, <1>9, <1>10, <1>12 DEF IInv

\* The second try of a seed is not paid for, and happens once in a crawl.
LEMMA FallbackKeeps == ASSUME IInv, NEW c \in Crawls, Fallback(c) PROVE IInv'
<1>1. /\ DOMAIN crawl' = Crawls /\ \A k \in Crawls \ {c} : crawl'[k] = crawl[k]
      /\ DOMAIN crawl'[c] = Fields /\ crawl'[c].seed = crawl[c].seed
      /\ crawl'[c].retried = TRUE /\ crawl'[c].pages = crawl[c].pages
      /\ crawl'[c].item = crawl[c].item /\ crawl'[c].at = "fallback"
  BY DEF IInv, Shape, Fields, Fallback
<1>2. /\ crawl[c].at = "fetch" /\ crawl[c].pages = 0 /\ crawl[c].item.depth = 0
      /\ asked' = [asked EXCEPT ![Domain(c)] = @ + 1] /\ remaining' = remaining
  BY DEF Fallback, HasFallback, At
<1>3. ~crawl[c].retried
  BY <1>2 DEF IInv, RetriedOnce
<1>4. Domain(c) \in Domains
  BY <1>2 DEF IInv, Paying
<1>5. /\ remaining \in [Domains -> 0..Maximum] /\ asked \in [Domains -> Nat]
      /\ Maximum \in Nat
  BY LimitAssumption DEF IInv, Shape
<1>6. asked' \in [Domains -> Nat]
  BY <1>2, <1>4, <1>5
<1>7. Shape'
  BY <1>1, <1>2, <1>6 DEF IInv, Shape
<1>8. Paying'
  BY <1>1, <1>4 DEF IInv, Paying, Domain
<1>9. RetriedOnce'
  BY <1>1, <1>2 DEF IInv, RetriedOnce
<1>10. \A k \in Crawls : Domain(k)' = Domain(k)
  BY <1>1 DEF Domain
<1>11. \A d \in Domains : d = Domain(c) =>
         Retried(d)' = Retried(d) \cup {c} /\ c \notin Retried(d)
  <2>1. \A d \in Domains :
          Retried(d)' = {k \in Crawls : crawl'[k].retried /\ Domain(k) = d}
    BY <1>10 DEF Retried
  <2>2. Domain(c)' = Domain(c)
    BY <1>10
  <2> QED
    BY <2>1, <2>2, <1>1, <1>3, <1>4, <1>10 DEF Retried
<1>12. \A d \in Domains : d # Domain(c) => Retried(d)' = Retried(d)
  BY <1>1, <1>10 DEF Retried
<1>13. Accounts'
  <2> SUFFICES ASSUME NEW d \in Domains
               PROVE  asked'[d] = (Maximum - remaining[d]) + Cardinality(Retried(d)')
    BY <1>2 DEF Accounts
  <2>1. asked[d] = (Maximum - remaining[d]) + Cardinality(Retried(d))
    BY DEF IInv, Accounts
  <2>2. IsFiniteSet(Retried(d)) /\ Cardinality(Retried(d)) \in Nat
    BY RetriedFinite
  <2>3. CASE d = Domain(c)
    <3>1. Retried(d)' = Retried(d) \cup {c} /\ c \notin Retried(d)
      BY <2>3, <1>11
    <3>2. Cardinality(Retried(d)') = Cardinality(Retried(d)) + 1
      BY <3>1, <2>2, FS_AddElement
    <3> QED
      BY <3>2, <2>1, <2>2, <2>3, <1>2, <1>5
  <2>4. CASE d # Domain(c)
    BY <2>1, <2>4, <1>2, <1>5, <1>12
  <2> QED
    BY <2>3, <2>4
<1> QED
  BY <1>7, <1>8, <1>9, <1>13 DEF IInv

LEMMA StutterKeeps == ASSUME IInv, UNCHANGED <<remaining, crawl, asked>> PROVE IInv'
BY DEF IInv, Shape, Paying, RetriedOnce, Accounts, Retried, Domain

LEMMA StepKeeps == IInv /\ [Next]_vars => IInv'
<1> SUFFICES ASSUME IInv, [Next]_vars PROVE IInv'
  OBVIOUS
<1>1. ASSUME NEW c \in Crawls, Start(c) PROVE IInv'
  BY <1>1, StartKeeps
<1>2. ASSUME NEW c \in Crawls, Step(c) PROVE IInv'
  <2>1. CASE Wait(c)
    BY <2>1, StutterKeeps DEF Wait
  <2> QED
    BY <1>2, <2>1, SkipKeeps, RequestKeeps, FallbackKeeps, ReadKeeps, FailKeeps, ReturnKeeps
       DEF Step
<1>3. CASE Tick
  BY <1>3, StutterKeeps DEF Tick
<1>4. CASE UNCHANGED vars
  BY <1>4, StutterKeeps DEF vars
<1> QED
  BY <1>1, <1>2, <1>3, <1>4 DEF Next

\* The budget of a domain bounds what all crawls of the process ask of it together,
\* except for the second tries of seeds (domainBudget.trySpend, fetchURL).
THEOREM RequestsAreBounded == Spec => []RequestsBounded
<1>1. IInv => RequestsBounded
  <2> SUFFICES ASSUME IInv, NEW d \in Domains
               PROVE  asked[d] <= Maximum + Cardinality(Retried(d))
    BY DEF RequestsBounded, Retried
  <2>1. asked[d] = (Maximum - remaining[d]) + Cardinality(Retried(d))
    BY DEF IInv, Accounts
  <2>2. remaining[d] \in 0..Maximum /\ Maximum \in Nat
    BY LimitAssumption DEF IInv, Shape
  <2> QED
    BY <2>1, <2>2, RetriedFinite
<1> QED
  BY <1>1, InitEstablishes, StepKeeps, PTL DEF Spec

-------------------------------------------------------------------------------
(***************************************************************************)
(* The pages within reach, for any web, first page and set of pages read.  *)
(***************************************************************************)

OneMore(w, read, Q) == Q \cup UNION {LinkedFrom(w, q) : q \in Q \cap read}

LEMMA ReachRecursive ==
  ASSUME NEW w, NEW first, NEW read
  PROVE  Reach(w, first, read) = CHOOSE r :
           r = [n \in 0..MaxDepth |-> IF n = 0 THEN {first} ELSE OneMore(w, read, r[n - 1])]
BY Zenon DEF Reach, OneMore

\* What there is to know about Reach.
IsReach(r, w, first, read) ==
  /\ r[0] = {first}
  /\ \A n \in 0..MaxDepth : n # MaxDepth => r[n + 1] = OneMore(w, read, r[n])
  /\ \A n \in 0..MaxDepth : r[n] \in SUBSET Pages

LEMMA ReachValues ==
  ASSUME NEW w, NEW first \in Pages, NEW read
  PROVE  IsReach(Reach(w, first, read), w, first, read)
<1> DEFINE S == SUBSET Pages
           step == [n \in 1..MaxDepth |-> [Q \in S |-> OneMore(w, read, Q)]]
           r == Reach(w, first, read)
<1>0. MaxDepth \in Nat
  BY LimitAssumption
<1>1. \A Q \in S : OneMore(w, read, Q) \in S
  BY DEF LinkedFrom, OneMore
<1>2. step \in [1..MaxDepth -> [S -> S]] /\ {first} \in S
  BY <1>1
<1>3. PICK f \in [0..MaxDepth -> S] : Unfolds(f, MaxDepth, {first}, step)
  <2> HIDE DEF S, step
  <2> QED
    BY <1>0, <1>2, Recursion
<1>4. \A n \in 1..MaxDepth : n - 1 \in 0..MaxDepth
  BY <1>0
<1>5. \A n \in 1..MaxDepth : f[n] = OneMore(w, read, f[n - 1])
  BY <1>3, <1>4 DEF Unfolds
<1>6. f = [n \in 0..MaxDepth |-> IF n = 0 THEN {first} ELSE OneMore(w, read, f[n - 1])]
  <2>1. \A n \in 0..MaxDepth : n # 0 => n \in 1..MaxDepth
    BY <1>0
  <2> QED
    BY <1>3, <1>5, <2>1 DEF Unfolds
<1>7. r = [n \in 0..MaxDepth |-> IF n = 0 THEN {first} ELSE OneMore(w, read, r[n - 1])]
  BY <1>6, ReachRecursive, Zenon
<1> HIDE DEF r
<1>8. r[0] = {first} /\ \A n \in 1..MaxDepth : r[n] = OneMore(w, read, r[n - 1])
  <2>1. \A n \in 0..MaxDepth : r[n] = IF n = 0 THEN {first} ELSE OneMore(w, read, r[n - 1])
    BY <1>7, Zenon
  <2>2. 0 \in 0..MaxDepth /\ \A n \in 1..MaxDepth : n \in 0..MaxDepth /\ n # 0
    BY <1>0
  <2> QED
    BY <2>1, <2>2, Zenon
<1>10. ASSUME NEW n \in 0..MaxDepth, n # MaxDepth PROVE r[n + 1] = OneMore(w, read, r[n])
  <2>1. n + 1 \in 1..MaxDepth /\ (n + 1) - 1 = n
    BY <1>0, <1>10
  <2> QED
    BY <1>8, <2>1
<1> DEFINE T == {n \in Nat : r[n] \in S}
<1>9. \A n \in 0..MaxDepth : n \in T
  <2>1. 0 \in T
    BY <1>8, <1>2
  <2>2. ASSUME NEW n \in 0..MaxDepth, n \in T, n # MaxDepth PROVE n + 1 \in T
    <3>1. n + 1 \in Nat /\ r[n] \in S
      BY <1>0, <2>2
    <3>2. r[n + 1] = OneMore(w, read, r[n])
      BY <1>10, <2>2
    <3> QED
      BY <1>1, <3>1, <3>2
  <2> HIDE DEF T
  <2> QED
    BY <1>0, <2>1, <2>2, BoundedInduction
<1> QED
  BY <1>8, <1>9, <1>10 DEF r, T, IsReach

\* More links, more pages.
LEMMA ReachDeeper ==
  ASSUME NEW w, NEW first, NEW read, NEW r, IsReach(r, w, first, read), NEW m \in 0..MaxDepth
  PROVE  \A n \in 0..MaxDepth : m <= n => r[m] \subseteq r[n]
<1> DEFINE T == {n \in Nat : m <= n => r[m] \subseteq r[n]}
<1>0. MaxDepth \in Nat
  BY LimitAssumption
<1>1. 0 \in T
  BY <1>0
<1>2. ASSUME NEW n \in 0..MaxDepth, n \in T, n # MaxDepth PROVE n + 1 \in T
  <2> SUFFICES ASSUME m <= n + 1 PROVE r[m] \subseteq r[n + 1]
    BY <1>2
  <2>1. r[n] \subseteq r[n + 1]
    BY <1>2 DEF IsReach, OneMore
  <2> QED
    BY <1>0, <1>2, <2>1
<1> HIDE DEF T
<1>3. \A n \in 0..MaxDepth : n \in T
  BY <1>0, <1>1, <1>2, BoundedInduction
<1> QED
  BY <1>3 DEF T

NotBefore(r, q, m) == \A k \in 0..MaxDepth : k < m => q \notin r[k]

\* Reading one more page brings in nothing at the depths up to its own.
LEMMA ReachKept ==
  ASSUME NEW w, NEW first, NEW read, NEW q, NEW r, NEW s, NEW m \in 0..MaxDepth,
         IsReach(r, w, first, read), IsReach(s, w, first, read \cup {q}),
         NotBefore(r, q, m)
  PROVE  \A k \in 0..MaxDepth : k <= m => s[k] = r[k]
<1> DEFINE T == {k \in Nat : k <= m => s[k] = r[k]}
<1>0. MaxDepth \in Nat
  BY LimitAssumption
<1>1. 0 \in T
  BY DEF IsReach
<1>2. ASSUME NEW n \in 0..MaxDepth, n \in T, n # MaxDepth PROVE n + 1 \in T
  <2> SUFFICES ASSUME n + 1 <= m PROVE s[n + 1] = r[n + 1]
    BY <1>2
  <2>1. s[n] = r[n] /\ q \notin r[n]
    BY <1>0, <1>2 DEF NotBefore
  <2>2. r[n + 1] = OneMore(w, read, r[n]) /\ s[n + 1] = OneMore(w, read \cup {q}, s[n])
    BY <1>2 DEF IsReach
  <2> QED
    BY <2>1, <2>2 DEF OneMore
<1> HIDE DEF T
<1>3. \A n \in 0..MaxDepth : n \in T
  BY <1>0, <1>1, <1>2, BoundedInduction
<1> QED
  BY <1>3 DEF T

\* The more pages are read, the more are within reach.
LEMMA ReachGrows ==
  ASSUME NEW w, NEW first, NEW read, NEW q, NEW r, NEW s,
         IsReach(r, w, first, read), IsReach(s, w, first, read \cup {q})
  PROVE  \A k \in 0..MaxDepth : r[k] \subseteq s[k]
<1> DEFINE T == {k \in Nat : r[k] \subseteq s[k]}
<1>0. MaxDepth \in Nat
  BY LimitAssumption
<1>1. 0 \in T
  BY DEF IsReach
<1>2. ASSUME NEW n \in 0..MaxDepth, n \in T, n # MaxDepth PROVE n + 1 \in T
  <2>1. r[n + 1] = OneMore(w, read, r[n]) /\ s[n + 1] = OneMore(w, read \cup {q}, s[n])
    BY <1>2 DEF IsReach
  <2> QED
    BY <1>2, <2>1 DEF OneMore
<1> HIDE DEF T
<1>3. \A n \in 0..MaxDepth : n \in T
  BY <1>0, <1>1, <1>2, BoundedInduction
<1> QED
  BY <1>3 DEF T

-------------------------------------------------------------------------------
(***************************************************************************)
(* The links of a page.                                                    *)
(***************************************************************************)

LEMMA Constants ==
  /\ MaxDepth \in Nat /\ Maximum \in Nat /\ MaxPages \in Nat /\ MaxRetries \in Nat
  /\ RetryDelay \in Nat /\ \A p \in Pages : PlainOf[p] \in Pages
BY LimitAssumption, PageAssumption

LEMMA LinkFields ==
  ASSUME NEW r \in Reference
  PROVE  /\ r.kind = "link" => r.to \in Pages /\ r = [kind |-> "link", to |-> r.to]
         /\ r.kind \in {"contact", "repository"} => r.value \in Values
BY DEF Reference, Contact, Repository, Link, Useless

Linked(c, items, p, depth, n) ==
  /\ \A j \in 1..Len(items) :
       /\ items[j].depth = depth + 1 /\ items[j].url \in LinkedFrom(web, p)
       /\ SameSite(c, items[j].url)
  /\ \A i \in 1..n : IsNewLink(c, web[p][i]) => \E j \in 1..Len(items) : items[j].url = web[p][i].to

LEMMA NewItemsRecursive ==
  ASSUME NEW c, NEW p, NEW depth
  PROVE  NewItems(c, p, depth) = (CHOOSE f : f =
           [i \in 0..Len(web[p]) |->
              IF i = 0 THEN <<>>
              ELSE IF IsNewLink(c, web[p][i])
                   THEN Append(f[i - 1], [url |-> web[p][i].to, depth |-> depth + 1])
                   ELSE f[i - 1]])[Len(web[p])]
BY Zenon DEF NewItems

\* What is put into the queue: the links of the page, on the site and not yet visited.
LEMMA NewItemsAre ==
  ASSUME web \in Webs, NEW c, NEW p \in Pages, NEW depth \in 0..MaxDepth, depth < MaxDepth
  PROVE  /\ NewItems(c, p, depth) \in Seq(Item)
         /\ Linked(c, NewItems(c, p, depth), p, depth, Len(web[p]))
<1> DEFINE refs == web[p]
           len == Len(refs)
           S == Seq(Item)
           add(i, s) == IF IsNewLink(c, refs[i])
                        THEN Append(s, [url |-> refs[i].to, depth |-> depth + 1]) ELSE s
           step == [i \in 1..len |-> [s \in S |-> add(i, s)]]
<1>0. refs \in Seq(Reference) /\ len \in Nat
  BY WebAssumption
<1>1. \A i \in 1..len : refs[i] \in Reference
  BY <1>0
<1>2. ASSUME NEW i \in 1..len, IsNewLink(c, refs[i])
      PROVE  /\ [url |-> refs[i].to, depth |-> depth + 1] \in Item
             /\ refs[i].to \in LinkedFrom(web, p) /\ SameSite(c, refs[i].to)
  <2>1. refs[i].to \in Pages /\ refs[i] = [kind |-> "link", to |-> refs[i].to]
    BY <1>1, <1>2, LinkFields DEF IsNewLink
  <2>2. refs[i] \in ToSet(refs)
    BY <1>0 DEF ToSet
  <2>3. depth + 1 \in 0..MaxDepth
    BY Constants
  <2> QED
    BY <1>2, <2>1, <2>2, <2>3 DEF Item, LinkedFrom, IsNewLink
<1>3. \A i \in 1..len, s \in S : add(i, s) \in S
  BY <1>2
<1>4. step \in [1..len -> [S -> S]] /\ <<>> \in S
  BY <1>3
<1>5. PICK f \in [0..len -> S] : Unfolds(f, len, <<>>, step)
  <2> HIDE DEF S, step, len
  <2> QED
    BY <1>0, <1>4, Recursion
<1>6. \A i \in 1..len : i - 1 \in 0..len
  BY <1>0
<1>7. f[0] = <<>> /\ \A i \in 1..len : f[i] = add(i, f[i - 1])
  BY <1>5, <1>6 DEF Unfolds
<1>8. f = [i \in 0..len |-> IF i = 0 THEN <<>> ELSE add(i, f[i - 1])]
  <2>1. \A i \in 0..len : i # 0 => i \in 1..len
    BY <1>0
  <2> HIDE DEF add
  <2> QED
    BY <1>5, <1>7, <2>1
<1> DEFINE g == CHOOSE h : h = [i \in 0..len |-> IF i = 0 THEN <<>> ELSE add(i, h[i - 1])]
<1>9. g = [i \in 0..len |-> IF i = 0 THEN <<>> ELSE add(i, g[i - 1])]
  <2> HIDE DEF add, len
  <2> QED
    BY <1>8, Zenon
<1>10. NewItems(c, p, depth) = g[len]
  BY NewItemsRecursive, Zenon
<1> HIDE DEF g
<1>11. g[0] = <<>> /\ \A i \in 1..len : g[i] = add(i, g[i - 1])
  <2> HIDE DEF add
  <2>1. \A i \in 0..len : g[i] = IF i = 0 THEN <<>> ELSE add(i, g[i - 1])
    BY <1>9, Zenon
  <2>2. 0 \in 0..len /\ \A i \in 1..len : i \in 0..len /\ i # 0
    BY <1>0
  <2> QED
    BY <2>1, <2>2, Zenon
<1> DEFINE T == {n \in Nat : g[n] \in S /\ Linked(c, g[n], p, depth, n)}
<1>12. 0 \in T
  <2>1. g[0] = <<>>
    BY <1>11
  <2>2. Linked(c, <<>>, p, depth, 0)
    BY DEF Linked
  <2> QED
    BY <1>4, <2>1, <2>2
<1>13. ASSUME NEW n \in 0..len, n \in T, n # len PROVE n + 1 \in T
  <2>1. n + 1 \in 1..len /\ (n + 1) - 1 = n /\ g[n] \in S /\ Linked(c, g[n], p, depth, n)
    BY <1>0, <1>13
  <2>2. g[n + 1] = add(n + 1, g[n])
    BY <1>11, <2>1
  <2>3. g[n + 1] \in S
    BY <1>3, <2>1, <2>2
  <2>4. CASE ~IsNewLink(c, refs[n + 1])
    <3>1. g[n + 1] = g[n]
      BY <2>2, <2>4
    <3>2. \A i \in 1..n + 1 : i = n + 1 \/ i \in 1..n
      BY <1>0
    <3>3. Linked(c, g[n], p, depth, n + 1)
      BY <2>1, <2>4, <3>2 DEF Linked
    <3> QED
      BY <2>3, <3>1, <3>3
  <2>5. CASE IsNewLink(c, refs[n + 1])
    <3> DEFINE x == [url |-> refs[n + 1].to, depth |-> depth + 1]
    <3>1. g[n + 1] = Append(g[n], x) /\ x \in Item
      BY <2>1, <2>2, <2>5, <1>2
    <3> HIDE DEF x, S
    <3>2. /\ Len(g[n + 1]) = Len(g[n]) + 1 /\ Len(g[n]) \in Nat
          /\ \A j \in 1..Len(g[n]) : g[n + 1][j] = g[n][j]
          /\ g[n + 1][Len(g[n]) + 1] = x
      BY <2>1, <3>1 DEF S
    <3>3. x.url = refs[n + 1].to /\ x.depth = depth + 1
      BY DEF x
    <3>4. x.url \in LinkedFrom(web, p) /\ SameSite(c, x.url)
      BY <1>2, <2>1, <2>5, <3>3
    <3>5. ASSUME NEW j \in 1..Len(g[n + 1])
          PROVE  /\ g[n + 1][j].depth = depth + 1 /\ g[n + 1][j].url \in LinkedFrom(web, p)
                 /\ SameSite(c, g[n + 1][j].url)
      <4>1. CASE j = Len(g[n]) + 1
        BY <3>2, <3>3, <3>4, <4>1
      <4>2. CASE j \in 1..Len(g[n])
        BY <2>1, <3>2, <4>2 DEF Linked
      <4> QED
        BY <3>2, <4>1, <4>2
    <3>6. ASSUME NEW i \in 1..n + 1, IsNewLink(c, refs[i])
          PROVE  \E j \in 1..Len(g[n + 1]) : g[n + 1][j].url = refs[i].to
      <4>1. CASE i = n + 1
        BY <3>2, <3>3, <4>1, SMTT(20)
      <4>2. CASE i \in 1..n
        <5>1. PICK j \in 1..Len(g[n]) : g[n][j].url = refs[i].to
          BY <2>1, <3>6, <4>2 DEF Linked
        <5>2. j \in 1..Len(g[n + 1]) /\ g[n + 1][j].url = refs[i].to
          BY <3>2, <5>1
        <5> QED
          BY <5>2
      <4> QED
        BY <4>1, <4>2
    <3>7. Linked(c, g[n + 1], p, depth, n + 1)
      BY <3>5, <3>6 DEF Linked
    <3> QED
      BY <2>3, <3>7
  <2> QED
    BY <2>4, <2>5
<1> HIDE DEF T
<1>14. \A n \in 0..len : n \in T
  BY <1>0, <1>12, <1>13, BoundedInduction
<1> QED
  BY <1>0, <1>10, <1>14 DEF T

-------------------------------------------------------------------------------
(***************************************************************************)
(* Types.                                                                  *)
(***************************************************************************)

LEMMA CrawlFields ==
  ASSUME TypeOK, NEW c \in Crawls
  PROVE  /\ crawl[c].at \in {"idle", "loop", "fetch", "fallback", "done"}
         /\ crawl[c].seed \in Pages /\ crawl[c].queue \in Seq(Item) /\ crawl[c].item \in Item
         /\ crawl[c].item.url \in Pages /\ crawl[c].item.depth \in 0..MaxDepth
         /\ crawl[c].visited \in SUBSET Pages /\ crawl[c].pages \in Nat
         /\ crawl[c].collected \in SUBSET Values /\ crawl[c].read \in SUBSET Pages
         /\ crawl[c].failed \in SUBSET Pages /\ crawl[c].retried \in BOOLEAN
BY DEF TypeOK, Crawl, Item

LEMMA HeadAndTail ==
  ASSUME NEW q \in Seq(Item), q # <<>>
  PROVE  /\ Head(q) \in Item /\ Head(q) = q[1] /\ Head(q).url \in Pages
         /\ Head(q).depth \in 0..MaxDepth /\ Tail(q) \in Seq(Item)
         /\ Len(q) \in Nat /\ Len(q) >= 1 /\ Len(Tail(q)) = Len(q) - 1
         /\ \A i \in 1..Len(Tail(q)) : Tail(q)[i] = q[i + 1] /\ i + 1 \in 1..Len(q)
<1>1. Len(q) \in Nat /\ Len(q) >= 1 /\ Tail(q) \in Seq(Item) /\ Len(Tail(q)) = Len(q) - 1
  OBVIOUS
<1>2. Head(q) \in Item /\ Head(q) = q[1]
  OBVIOUS
<1>3. \A i \in 1..Len(Tail(q)) : Tail(q)[i] = q[i + 1] /\ i + 1 \in 1..Len(q)
  BY <1>1
<1> QED
  BY <1>1, <1>2, <1>3 DEF Item

LEMMA ClientStarts ==
  /\ Client!NewRequest \in Client!Request /\ Client!NoRequest \in Client!Request
  /\ Client!ClientInit => Client!ClientTypeOK
<1>1. Client!NewRequest \in Client!Request /\ Client!NoRequest \in Client!Request
  BY Constants DEF Client!NewRequest, Client!NoRequest, Client!Request
<1> QED
  BY <1>1 DEF Client!ClientInit, Client!ClientTypeOK

\* Whatever the client does, its state keeps its type.
LEMMA ClientTypes ==
  ASSUME Client!ClientTypeOK, NEW c \in Crawls,
         \/ Client!Get(c) \/ Client!ClientStep(c) \/ Client!ClientTick
         \/ NoPage(c, Client!NewRequest) \/ NoPage(c, Client!NoRequest)
         \/ Client!Answered(c, Client!NoRequest) \/ UNCHANGED client
  PROVE  Client!ClientTypeOK'
<1>0. token \in BOOLEAN /\ request \in [Crawls -> Client!Request]
  BY DEF Client!ClientTypeOK
<1>1. CASE Client!Get(c)
  BY <1>0, <1>1, ClientStarts DEF Client!Get, Client!ClientTypeOK
<1>2. CASE NoPage(c, Client!NewRequest)
  BY <1>0, <1>2, ClientStarts DEF NoPage, Client!GivenUp, Client!Answered, Client!ClientTypeOK
<1>3. CASE NoPage(c, Client!NoRequest) \/ Client!Answered(c, Client!NoRequest)
  BY <1>0, <1>3, ClientStarts DEF NoPage, Client!GivenUp, Client!Answered, Client!ClientTypeOK
<1>4. CASE Client!ClientStep(c)
  <2>1. CASE Client!TakeTick(c) \/ Client!Resend(c)
    BY <1>0, <2>1 DEF Client!TakeTick, Client!Resend, Client!ClientTypeOK, Client!Request
  <2>2. CASE Client!Retry(c)
    BY <1>0, <2>2, Constants
    DEF Client!Retry, Client!NextAttempt, Client!ClientTypeOK, Client!Request
  <2> QED
    BY <1>4, <2>1, <2>2 DEF Client!ClientStep
<1>5. CASE Client!ClientTick
  <2>1. token' = TRUE
    BY <1>5 DEF Client!ClientTick
  <2>2. ASSUME NEW u \in Crawls
        PROVE  [request[u] EXCEPT !.timer = IF @ = 0 THEN 0 ELSE @ - 1] \in Client!Request
    BY <1>0, Constants DEF Client!Request
  <2> QED
    BY <1>5, <2>1, <2>2 DEF Client!ClientTick, Client!ClientTypeOK
<1>6. CASE UNCHANGED client
  BY <1>0, <1>6 DEF client, Client!ClientTypeOK
<1> QED
  BY <1>1, <1>2, <1>3, <1>4, <1>5, <1>6

LEMMA CollectedType ==
  ASSUME TypeOK, NEW c, NEW p \in Pages
  PROVE  TracesOn(c, p) \in SUBSET Values
<1>1. web[p] \in Seq(Reference)
  BY WebAssumption DEF TypeOK
<1>2. \A r \in ToSet(web[p]) : r \in Reference
  BY <1>1 DEF ToSet
<1>3. \A r \in ToSet(web[p]) : Reports(c, r) => r.value \in Values
  BY <1>2, LinkFields DEF Reports
<1> QED
  BY <1>3 DEF TracesOn

LEMMA InitTypes == Init => TypeOK
<1> SUFFICES ASSUME Init PROVE TypeOK
  OBVIOUS
<1>1. \A s \in Seeds : NewCrawl(s) \in Crawl
  BY PageAssumption, Constants DEF NewCrawl, Crawl, Item
<1>2. crawl \in [Crawls -> Crawl]
  BY <1>1 DEF Init
<1> QED
  BY <1>2, ClientStarts, Constants DEF Init, TypeOK

LEMMA CrawlTypes ==
  ASSUME TypeOK, NEW c \in Crawls, Start(c) \/ Step(c)
  PROVE  crawl' \in [Crawls -> Crawl]
<1>0. crawl \in [Crawls -> Crawl] /\ web \in Webs
  BY DEF TypeOK
<1>1. CASE Start(c)
  <2>1. [url |-> crawl[c].seed, depth |-> 0] \in Item
    BY CrawlFields, Constants DEF Item
  <2>2. <<[url |-> crawl[c].seed, depth |-> 0]>> \in Seq(Item)
    BY <2>1
  <2>3. [crawl[c] EXCEPT !.at = "loop",
                         !.queue = <<[url |-> crawl[c].seed, depth |-> 0]>>] \in Crawl
    BY <1>0, <2>2 DEF Crawl
  <2> QED
    BY <1>0, <1>1, <2>3 DEF Start
<1>2. CASE Skip(c) \/ Request(c)
  <2>1. crawl[c].queue \in Seq(Item) /\ crawl[c].queue # <<>> /\ crawl[c].visited \in SUBSET Pages
    BY <1>2, CrawlFields DEF Skip, Request, Looping
  <2>2. /\ Head(crawl[c].queue) \in Item /\ Tail(crawl[c].queue) \in Seq(Item)
        /\ crawl[c].visited \cup {Head(crawl[c].queue).url} \in SUBSET Pages
    BY <2>1, HeadAndTail
  <2> DEFINE head == Head(crawl[c].queue)
             tail == Tail(crawl[c].queue)
  <2>3. CASE Skip(c)
    <3>1. [crawl[c] EXCEPT !.queue = tail, !.visited = @ \cup {head.url}] \in Crawl
      BY <1>0, <2>2, ZenonT(30) DEF Crawl
    <3> QED
      BY <1>0, <2>3, <3>1 DEF Skip
  <2>4. CASE Request(c)
    <3>1. [crawl[c] EXCEPT !.at = "fetch", !.queue = tail, !.item = head,
                           !.visited = @ \cup {head.url}] \in Crawl
      BY <1>0, <2>2, ZenonT(30) DEF Crawl
    <3> QED
      BY <1>0, <2>4, <3>1 DEF Request
  <2> QED
    BY <1>2, <2>3, <2>4
<1>3. CASE Wait(c)
  BY <1>0, <1>3 DEF Wait
<1>4. CASE Fallback(c) \/ Return(c)
  <2>1. /\ [crawl[c] EXCEPT !.at = "fallback", !.retried = TRUE] \in Crawl
        /\ [crawl[c] EXCEPT !.at = "done"] \in Crawl
    BY <1>0 DEF Crawl
  <2> QED
    BY <1>0, <1>4, <2>1 DEF Fallback, Return
<1>5. CASE Read(c)
  <2> DEFINE item == crawl[c].item
             page == IF At(c, "fallback") THEN PlainOf[item.url] ELSE item.url
             queue == IF item.depth >= MaxDepth THEN crawl[c].queue
                      ELSE Enqueue(crawl[c].queue, NewItems(c, page, item.depth))
  <2>1. page \in Pages
    BY CrawlFields, Constants
  <2>2. queue \in Seq(Item)
    BY <1>0, <2>1, CrawlFields, NewItemsAre, Constants DEF Enqueue
  <2>3. /\ crawl[c].collected \cup TracesOn(c, page) \in SUBSET Values
        /\ crawl[c].read \cup {page} \in SUBSET Pages
    BY <2>1, CrawlFields, CollectedType
  <2>4. crawl' = [crawl EXCEPT ![c].at = "loop", ![c].pages = @ + 1,
                    ![c].collected = @ \cup TracesOn(c, page),
                    ![c].read = @ \cup {page}, ![c].queue = queue]
    BY <1>5 DEF Read
  <2> HIDE DEF item, page, queue
  <2> QED
    BY <1>0, <2>2, <2>3, <2>4 DEF Crawl
<1>6. CASE Fail(c)
  <2>1. crawl[c].failed \cup {crawl[c].item.url} \in SUBSET Pages
    BY CrawlFields
  <2>2. PICK step \in {"loop", "done"} :
          crawl' = [crawl EXCEPT ![c].failed = @ \cup {crawl[c].item.url}, ![c].at = step]
    BY <1>6 DEF Fail
  <2>3. [crawl[c] EXCEPT !.failed = @ \cup {crawl[c].item.url}, !.at = step] \in Crawl
    BY <1>0, <2>1 DEF Crawl
  <2> QED
    BY <1>0, <2>2, <2>3
<1> QED
  BY <1>1, <1>2, <1>3, <1>4, <1>5, <1>6 DEF Step

LEMMA TypesKept == IInv /\ TypeOK /\ [Next]_vars => TypeOK'
<1> SUFFICES ASSUME IInv, TypeOK, [Next]_vars PROVE TypeOK'
  OBVIOUS
<1>1. remaining' \in [Domains -> 0..Maximum] /\ asked' \in [Domains -> Nat]
  BY StepKeeps DEF IInv, Shape
<1>2. ASSUME NEW c \in Crawls, Start(c) \/ Step(c) PROVE TypeOK'
  <2>1. web' = web
    BY <1>2, ZenonT(30) DEF Start, Step, Skip, Request, Wait, Fallback, Read, Fail, Return
  <2>2. \/ Client!Get(c) \/ Client!ClientStep(c) \/ NoPage(c, Client!NewRequest)
        \/ NoPage(c, Client!NoRequest) \/ Client!Answered(c, Client!NoRequest)
        \/ UNCHANGED client
    BY <1>2, Zenon DEF Start, Step, Skip, Request, Wait, Fallback, Read, Fail, Return
  <2>3. Client!ClientTypeOK'
    BY <2>2, ClientTypes DEF TypeOK
  <2> QED
    BY <1>1, <1>2, <2>1, <2>3, CrawlTypes, SMTT(20) DEF TypeOK
<1>3. CASE Tick
  <2>1. Client!ClientTypeOK'
    <3>1. CASE Crawls = {}
      BY <1>3, <3>1 DEF Tick, Client!ClientTick, Client!ClientTypeOK, TypeOK
    <3>2. ASSUME NEW c \in Crawls PROVE Client!ClientTypeOK'
      BY <1>3, ClientTypes DEF Tick, TypeOK
    <3> QED
      BY <3>1, <3>2
  <2> QED
    BY <1>1, <1>3, <2>1 DEF Tick, TypeOK
<1>4. CASE UNCHANGED vars
  BY <1>1, <1>4 DEF vars, client, TypeOK, Client!ClientTypeOK
<1> QED
  BY <1>2, <1>3, <1>4 DEF Next

LEMMA Inductive == Spec => [](IInv /\ TypeOK)
BY InitEstablishes, StepKeeps, InitTypes, TypesKept, PTL DEF Spec

\* Queues, depths and counts stay in range, the budget never goes below zero, and no
\* request is tried more than MaxRetries times after the first.
THEOREM CrawlerTypeCorrect == Spec => []TypeOK
BY Inductive, PTL

-------------------------------------------------------------------------------
(***************************************************************************)
(* Breadth first. The queue holds pages of two depths at most, in order,   *)
(* so that a page is met by a shortest way first; and what is within reach *)
(* is either visited or waits in the queue at a depth no greater than its  *)
(* distance. The pages that were read at MaxDepth have not been followed,  *)
(* and when the first of them is read all shorter ways are known.          *)
(***************************************************************************)

Dist(c) == Reach(web, First(c), crawl[c].read)

InQueue(c, p, n) ==
  \E i \in 1..Len(crawl[c].queue) :
    crawl[c].queue[i].url = p /\ crawl[c].queue[i].depth <= n

\* Only a crawl that waits for a page has a request.
Asking(c) == request[c].at # "none" => crawl[c].at \in {"fetch", "fallback"}

\* Before the first page is read there is only the seed.
Opening(c) ==
  /\ At(c, "idle") => /\ crawl[c].pages = 0 /\ crawl[c].visited = {}
                      /\ crawl[c].queue = <<>> /\ ~crawl[c].retried
  /\ At(c, "fallback") => crawl[c].pages = 0 /\ crawl[c].retried
  /\ crawl[c].pages = 0 =>
       /\ crawl[c].read = {} /\ crawl[c].item = [url |-> crawl[c].seed, depth |-> 0]
       /\ crawl[c].at \in {"loop", "fetch"} => ~crawl[c].retried
       /\ \/ crawl[c].queue = <<>>
          \/ /\ crawl[c].queue = <<[url |-> crawl[c].seed, depth |-> 0]>>
             /\ crawl[c].at \in {"loop", "done"}
  /\ crawl[c].pages # 0 =>
       /\ First(c) \in crawl[c].read
       /\ At(c, "fetch") => crawl[c].item.depth # 0

Near(c) ==
  /\ \A i \in 1..Len(crawl[c].queue) :
       crawl[c].queue[i].url \in Dist(c)[crawl[c].queue[i].depth]
  /\ At(c, "fetch") => crawl[c].item.url \in Dist(c)[crawl[c].item.depth]
  /\ crawl[c].at \in {"fetch", "fallback"} => SameSite(c, crawl[c].item.url)
  /\ crawl[c].read \subseteq {p \in Within(c) : SameSite(c, p)}

Ordered(c) ==
  /\ \A i \in 1..Len(crawl[c].queue) :
       /\ crawl[c].item.depth <= crawl[c].queue[i].depth
       /\ crawl[c].queue[i].depth <= crawl[c].item.depth + 1
       /\ crawl[c].pages # 0 => crawl[c].queue[i].depth # 0
  /\ \A i, j \in 1..Len(crawl[c].queue) :
       i <= j => crawl[c].queue[i].depth <= crawl[c].queue[j].depth

Closed(c) == ~At(c, "idle") =>
  \A n \in 0..MaxDepth : \A p \in Dist(c)[n] :
    SameSite(c, p) => p \in crawl[c].visited \/ p = First(c) \/ InQueue(c, p, n)

Followed(c) == crawl[c].item.depth < MaxDepth =>
  \A q \in crawl[c].read : \A p \in LinkedFrom(web, q) :
    SameSite(c, p) => p \in crawl[c].visited \/ InQueue(c, p, MaxDepth)

Nearest(c) == At(c, "fetch") =>
  \/ crawl[c].item.url \in crawl[c].read
  \/ \A k \in 0..MaxDepth : k < crawl[c].item.depth => crawl[c].item.url \notin Dist(c)[k]

\* While the budget lasts, no page of the site is passed over.
Heeded(c) == Domain(c) # NoDomain /\ remaining[Domain(c)] > 0 =>
  \A p \in crawl[c].visited : SameSite(c, p) =>
    \/ p \in crawl[c].read \cup crawl[c].failed \cup {crawl[c].seed}
    \/ crawl[c].at \in {"fetch", "fallback"} /\ p = crawl[c].item.url

Exhausted(c) ==
  At(c, "done") /\ crawl[c].pages # 0 /\ crawl[c].pages < MaxPages => crawl[c].queue = <<>>

SearchInv(c) ==
  /\ Asking(c) /\ Opening(c) /\ Near(c) /\ Ordered(c) /\ Closed(c) /\ Followed(c)
  /\ Nearest(c) /\ Heeded(c) /\ Exhausted(c)

LEMMA SameDist ==
  ASSUME NEW c, UNCHANGED web, crawl'[c].seed = crawl[c].seed, crawl'[c].read = crawl[c].read,
         crawl'[c].retried = crawl[c].retried
  PROVE  /\ Dist(c)' = Dist(c) /\ First(c)' = First(c) /\ Within(c)' = Within(c)
         /\ Domain(c)' = Domain(c) /\ \A p : SameSite(c, p)' = SameSite(c, p)
<1>1. First(c)' = First(c) /\ Domain(c)' = Domain(c)
  BY DEF First, Domain
<1> QED
  BY <1>1 DEF Dist, Within, SameSite

\* Distances of a crawl, and those of one that has read nothing.
LEMMA DistValues ==
  ASSUME TypeOK, NEW c \in Crawls
  PROVE  /\ First(c) \in Pages
         /\ IsReach(Dist(c), web, First(c), crawl[c].read)
         /\ Within(c) = Dist(c)[MaxDepth]
<1>1. First(c) \in Pages
  BY CrawlFields, Constants DEF First
<1> QED
  BY <1>1, ReachValues DEF Dist, Within

LEMMA DistValuesNext ==
  ASSUME NEW c \in Crawls, First(c)' \in Pages
  PROVE  /\ IsReach(Dist(c)', web', First(c)', crawl'[c].read)
         /\ Within(c)' = Dist(c)'[MaxDepth]
<1>1. Dist(c)' = Reach(web', First(c)', crawl'[c].read)
  BY DEF Dist
<1>2. Within(c)' = Dist(c)'[MaxDepth]
  BY DEF Within, Dist
<1> QED
  BY <1>1, <1>2, ReachValues

\* A page within reach is the first, or linked from one that was read.
LEMMA DistLinked ==
  ASSUME NEW w, NEW first, NEW read, NEW r, IsReach(r, w, first, read)
  PROVE  \A n \in 0..MaxDepth : \A p \in r[n] :
           p = first \/ \E q \in read : p \in LinkedFrom(w, q)
<1> DEFINE T == {n \in Nat : \A p \in r[n] : p = first \/ \E q \in read : p \in LinkedFrom(w, q)}
<1>0. MaxDepth \in Nat
  BY LimitAssumption
<1>1. 0 \in T
  BY DEF IsReach
<1>2. ASSUME NEW n \in 0..MaxDepth, n \in T, n # MaxDepth PROVE n + 1 \in T
  <2>1. r[n + 1] = OneMore(w, read, r[n])
    BY <1>2 DEF IsReach
  <2> QED
    BY <1>2, <2>1 DEF OneMore
<1> HIDE DEF T
<1>3. \A n \in 0..MaxDepth : n \in T
  BY <1>0, <1>1, <1>2, BoundedInduction
<1> QED
  BY <1>3 DEF T

LEMMA NothingRead ==
  ASSUME TypeOK, NEW c \in Crawls, crawl[c].read = {}, NEW n \in 0..MaxDepth, NEW p \in Dist(c)[n]
  PROVE  p = First(c)
BY DistValues, DistLinked

LEMMA SearchInit == ASSUME Init, NEW c \in Crawls PROVE SearchInv(c)
<1>1. PICK s \in Seeds : crawl[c] = NewCrawl(s)
  <2>1. crawl[c] \in {NewCrawl(s) : s \in Seeds}
    BY DEF Init
  <2> QED
    BY <2>1
<1>2. /\ crawl[c].at = "idle" /\ crawl[c].pages = 0 /\ crawl[c].queue = <<>>
      /\ crawl[c].visited = {} /\ crawl[c].read = {} /\ crawl[c].retried = FALSE
      /\ crawl[c].item = [url |-> crawl[c].seed, depth |-> 0]
  BY <1>1 DEF NewCrawl
<1>3. request[c].at = "none"
  BY DEF Init, Client!ClientInit, Client!NoRequest
<1> QED
  BY <1>2, <1>3 DEF SearchInv, Asking, Opening, Near, Ordered, Closed, Followed, Nearest,
     Heeded, Exhausted, At

\* A crawl that others' steps pass by: they may use up the budget.
LEMMA PassedBy ==
  ASSUME TypeOK, NEW c \in Crawls, SearchInv(c), UNCHANGED web, crawl'[c] = crawl[c],
         request'[c].at = request[c].at,
         Domain(c) # NoDomain => remaining'[Domain(c)] = remaining[Domain(c)]
                                 \/ remaining[Domain(c)] > 0
  PROVE  SearchInv(c)'
<1>1. /\ Dist(c)' = Dist(c) /\ First(c)' = First(c) /\ Within(c)' = Within(c)
      /\ Domain(c)' = Domain(c) /\ \A p : SameSite(c, p)' = SameSite(c, p)
  BY SameDist
<1>2. /\ \A s : At(c, s)' = At(c, s) /\ \A p, n : InQueue(c, p, n)' = InQueue(c, p, n)
  BY DEF At, InQueue
<1>3. Asking(c)' /\ Opening(c)' /\ Near(c)' /\ Ordered(c)'
  BY <1>1, <1>2 DEF SearchInv, Asking, Opening, Near, Ordered
<1>4. Closed(c)' /\ Followed(c)' /\ Nearest(c)'
  BY <1>1, <1>2 DEF SearchInv, Closed, Followed, Nearest
<1>5. Heeded(c)'
  BY <1>1 DEF SearchInv, Heeded
<1>6. Exhausted(c)'
  BY <1>2 DEF SearchInv, Exhausted
<1> QED
  BY <1>3, <1>4, <1>5, <1>6 DEF SearchInv

LEMMA StartSearch ==
  ASSUME TypeOK, TypeOK', NEW c \in Crawls, SearchInv(c), Start(c) PROVE SearchInv(c)'
<1> DEFINE first == [url |-> crawl[c].seed, depth |-> 0]
<1>0. /\ crawl'[c].at = "loop" /\ crawl'[c].queue = <<first>> /\ crawl'[c].item = crawl[c].item
      /\ crawl'[c].seed = crawl[c].seed /\ crawl'[c].visited = crawl[c].visited
      /\ crawl'[c].pages = crawl[c].pages /\ crawl'[c].read = crawl[c].read
      /\ crawl'[c].failed = crawl[c].failed /\ crawl'[c].retried = crawl[c].retried
      /\ web' = web /\ remaining' = remaining /\ request' = request
  BY DEF Start, TypeOK, Crawl, client
<1>1. /\ Dist(c)' = Dist(c) /\ First(c)' = First(c) /\ Within(c)' = Within(c)
      /\ Domain(c)' = Domain(c) /\ \A p : SameSite(c, p)' = SameSite(c, p)
  BY <1>0, SameDist
<1>2. /\ crawl[c].pages = 0 /\ crawl[c].visited = {} /\ ~crawl[c].retried
      /\ crawl[c].read = {} /\ crawl[c].item = first
  BY DEF SearchInv, Opening, Start, At
<1>3. Len(<<first>>) = 1 /\ <<first>>[1] = first
  OBVIOUS
<1>4. Asking(c)' /\ Opening(c)'
  BY <1>0, <1>2 DEF SearchInv, Asking, Opening, Start, At
<1>5. Near(c)'
  <2>1. crawl[c].seed \in Dist(c)[0]
    BY <1>2, DistValues DEF IsReach, First
  <2> QED
    BY <1>0, <1>1, <1>2, <1>3, <2>1 DEF Near, At
<1>6. Ordered(c)'
  BY <1>0, <1>2, <1>3 DEF Ordered
<1>7. Closed(c)'
  BY <1>0, <1>1, <1>2, NothingRead DEF Closed
<1>8. Followed(c)' /\ Nearest(c)' /\ Heeded(c)' /\ Exhausted(c)'
  BY <1>0, <1>1, <1>2 DEF Followed, Nearest, Heeded, Exhausted, At
<1> QED
  BY <1>4, <1>5, <1>6, <1>7, <1>8 DEF SearchInv

LEMMA ItemDepths ==
  ASSUME NEW q \in Seq(Item), NEW i \in 1..Len(q)
  PROVE  q[i].depth \in Nat /\ q[i].depth \in 0..MaxDepth
<1>1. q[i] \in Item
  OBVIOUS
<1> QED
  BY <1>1, Constants DEF Item

LEMMA Single == \A x : Head(<<x>>) = x /\ Tail(<<x>>) = <<>> /\ <<x>> # <<>>
OBVIOUS

\* The queue without its head.
LEMMA Dequeued ==
  ASSUME TypeOK, NEW c \in Crawls, SearchInv(c), crawl[c].queue # <<>>,
         crawl'[c].queue = Tail(crawl[c].queue)
  PROVE  /\ \A i \in 1..Len(crawl'[c].queue) :
              /\ crawl'[c].queue[i] = crawl[c].queue[i + 1] /\ i + 1 \in 1..Len(crawl[c].queue)
              /\ Head(crawl[c].queue).depth <= crawl'[c].queue[i].depth
              /\ crawl'[c].queue[i].depth <= Head(crawl[c].queue).depth + 1
         /\ \A i, j \in 1..Len(crawl'[c].queue) :
              i <= j => crawl'[c].queue[i].depth <= crawl'[c].queue[j].depth
         /\ \A p, n : InQueue(c, p, n) => p = Head(crawl[c].queue).url \/ InQueue(c, p, n)'
         /\ Head(crawl[c].queue) = crawl[c].queue[1] /\ 1 \in 1..Len(crawl[c].queue)
<1> DEFINE q == crawl[c].queue
           t == crawl'[c].queue
<1>1. q \in Seq(Item) /\ q # <<>> /\ t = Tail(q)
  BY CrawlFields
<1> HIDE DEF q, t
<1>2. /\ Head(q) = q[1] /\ Len(q) \in Nat /\ Len(q) >= 1 /\ Len(t) = Len(q) - 1
      /\ \A i \in 1..Len(t) : t[i] = q[i + 1] /\ i + 1 \in 1..Len(q)
  BY <1>1, HeadAndTail
<1>3. \A i \in 1..Len(q) : q[i].depth \in Nat
  BY <1>1, ItemDepths
<1>4. /\ \A i \in 1..Len(q) : /\ crawl[c].item.depth <= q[i].depth
                              /\ q[i].depth <= crawl[c].item.depth + 1
      /\ \A i, j \in 1..Len(q) : i <= j => q[i].depth <= q[j].depth
  BY DEF SearchInv, Ordered, q
<1>5. crawl[c].item.depth \in Nat
  BY CrawlFields, Constants
<1>6. ASSUME NEW i \in 1..Len(t)
      PROVE  Head(q).depth <= t[i].depth /\ t[i].depth <= Head(q).depth + 1
  <2>1. i + 1 \in 1..Len(q) /\ 1 \in 1..Len(q) /\ t[i] = q[i + 1] /\ 1 <= i + 1
    BY <1>2
  <2>2. q[1].depth \in Nat /\ q[i + 1].depth \in Nat
    BY <1>3, <2>1
  <2>3. q[1].depth <= q[i + 1].depth
    BY <1>4, <2>1
  <2>4. q[i + 1].depth <= crawl[c].item.depth + 1 /\ crawl[c].item.depth <= q[1].depth
    BY <1>4, <2>1
  <2> QED
    BY <1>2, <1>5, <2>1, <2>2, <2>3, <2>4
<1>7. ASSUME NEW i \in 1..Len(t), NEW j \in 1..Len(t), i <= j PROVE t[i].depth <= t[j].depth
  <2>1. i + 1 \in 1..Len(q) /\ j + 1 \in 1..Len(q) /\ i + 1 <= j + 1
    BY <1>2, <1>7
  <2> QED
    BY <1>2, <1>4, <2>1
<1>8. ASSUME NEW p, NEW n, InQueue(c, p, n), p # Head(q).url PROVE InQueue(c, p, n)'
  <2>1. PICK i \in 1..Len(q) : q[i].url = p /\ q[i].depth <= n
    BY <1>8 DEF InQueue, q
  <2>2. i # 1
    BY <1>2, <1>8, <2>1
  <2>3. i - 1 \in 1..Len(t) /\ (i - 1) + 1 = i
    BY <1>2, <2>2
  <2>4. t[i - 1] = q[i]
    BY <1>2, <2>3
  <2> QED
    BY <2>1, <2>3, <2>4 DEF InQueue, t
<1>9. 1 \in 1..Len(q)
  BY <1>2
<1> QED
  BY <1>2, <1>6, <1>7, <1>8, <1>9 DEF q, t

LEMMA SkipSearch ==
  ASSUME TypeOK, TypeOK', NEW c \in Crawls, SearchInv(c), Skip(c) PROVE SearchInv(c)'
<1> DEFINE head == Head(crawl[c].queue)
<1>0. /\ crawl[c].at = "loop" /\ crawl'[c].at = "loop" /\ crawl'[c].queue = Tail(crawl[c].queue)
      /\ crawl'[c].item = crawl[c].item /\ crawl'[c].visited = crawl[c].visited \cup {head.url}
      /\ crawl'[c].seed = crawl[c].seed /\ crawl[c].queue # <<>>
      /\ crawl'[c].pages = crawl[c].pages /\ crawl'[c].read = crawl[c].read
      /\ crawl'[c].failed = crawl[c].failed /\ crawl'[c].retried = crawl[c].retried
      /\ web' = web /\ remaining' = remaining /\ request' = request
  BY DEF Skip, TypeOK, Crawl, client, Looping, At
<1>1. /\ Dist(c)' = Dist(c) /\ First(c)' = First(c) /\ Within(c)' = Within(c)
      /\ Domain(c)' = Domain(c) /\ \A p : SameSite(c, p)' = SameSite(c, p)
  BY <1>0, SameDist
<1>2. /\ \A i \in 1..Len(crawl'[c].queue) :
           crawl'[c].queue[i] = crawl[c].queue[i + 1] /\ i + 1 \in 1..Len(crawl[c].queue)
      /\ \A i, j \in 1..Len(crawl'[c].queue) :
           i <= j => crawl'[c].queue[i].depth <= crawl'[c].queue[j].depth
      /\ \A p, n : InQueue(c, p, n) => p = head.url \/ InQueue(c, p, n)'
  BY <1>0, Dequeued
<1>3. Unwanted(c, head.url)
  BY DEF Skip
<1> HIDE DEF head
<1>4. crawl[c].pages = 0 => crawl'[c].queue = <<>>
  BY <1>0, Single DEF SearchInv, Opening
<1>5. Asking(c)' /\ Opening(c)'
  BY <1>0, <1>1, <1>4 DEF SearchInv, Asking, Opening, At
<1>6. Near(c)'
  BY <1>0, <1>1, <1>2 DEF SearchInv, Near, At
<1>7. Ordered(c)'
  BY <1>0, <1>2 DEF SearchInv, Ordered
<1>8. Closed(c)'
  BY <1>0, <1>1, <1>2 DEF SearchInv, Closed, At
<1>9. Followed(c)'
  BY <1>0, <1>1, <1>2 DEF SearchInv, Followed
<1>10. Heeded(c)'
  BY <1>0, <1>1, <1>3 DEF SearchInv, Heeded, Unwanted
<1>11. Nearest(c)' /\ Exhausted(c)'
  BY <1>0 DEF Nearest, Exhausted, At
<1> QED
  BY <1>5, <1>6, <1>7, <1>8, <1>9, <1>10, <1>11 DEF SearchInv

\* The page that is asked for is met by a shortest way.
LEMMA HeadIsNearest ==
  ASSUME TypeOK, NEW c \in Crawls, SearchInv(c), ~At(c, "idle"), crawl[c].queue # <<>>,
         crawl'[c].queue = Tail(crawl[c].queue), SameSite(c, Head(crawl[c].queue).url),
         Head(crawl[c].queue).url \notin crawl[c].visited
  PROVE  \/ Head(crawl[c].queue).url \in crawl[c].read
         \/ \A k \in 0..MaxDepth : k < Head(crawl[c].queue).depth =>
              Head(crawl[c].queue).url \notin Dist(c)[k]
<1> DEFINE q == crawl[c].queue
           head == Head(crawl[c].queue)
<1>1. head = q[1] /\ 1 \in 1..Len(q) /\ \A i \in 1..Len(q) : q[i].depth \in Nat
  BY Dequeued, CrawlFields, ItemDepths
<1> SUFFICES ASSUME NEW k \in 0..MaxDepth, k < head.depth, head.url \in Dist(c)[k]
             PROVE  head.url \in crawl[c].read
  OBVIOUS
<1>2. head.url = First(c) \/ InQueue(c, head.url, k)
  BY DEF SearchInv, Closed
<1>3. ~InQueue(c, head.url, k)
  <2> SUFFICES ASSUME NEW i \in 1..Len(q), q[i].depth <= k PROVE FALSE
    BY DEF InQueue
  <2>1. q[1].depth <= q[i].depth
    BY <1>1 DEF SearchInv, Ordered
  <2> QED
    BY <1>1, <2>1, Constants, SMTT(20)
<1>4. crawl[c].pages # 0
  <2> SUFFICES ASSUME crawl[c].pages = 0 PROVE FALSE
    OBVIOUS
  <2>1. q = <<[url |-> crawl[c].seed, depth |-> 0]>>
    BY DEF SearchInv, Opening
  <2>2. head.depth = 0
    BY <2>1
  <2> QED
    BY <2>2, Constants
<1> QED
  BY <1>2, <1>3, <1>4 DEF SearchInv, Opening

LEMMA RequestSearch ==
  ASSUME TypeOK, TypeOK', NEW c \in Crawls, SearchInv(c), Request(c) PROVE SearchInv(c)'
<1> DEFINE head == Head(crawl[c].queue)
<1>0. /\ crawl[c].at = "loop" /\ crawl'[c].at = "fetch" /\ crawl'[c].queue = Tail(crawl[c].queue)
      /\ crawl'[c].item = head /\ crawl'[c].visited = crawl[c].visited \cup {head.url}
      /\ crawl'[c].seed = crawl[c].seed /\ crawl[c].queue # <<>>
      /\ crawl'[c].pages = crawl[c].pages /\ crawl'[c].read = crawl[c].read
      /\ crawl'[c].failed = crawl[c].failed /\ crawl'[c].retried = crawl[c].retried
      /\ web' = web
  BY DEF Request, TypeOK, Crawl, Looping, At
<1>1. /\ Dist(c)' = Dist(c) /\ First(c)' = First(c) /\ Within(c)' = Within(c)
      /\ Domain(c)' = Domain(c) /\ \A p : SameSite(c, p)' = SameSite(c, p)
  BY <1>0, SameDist
<1>2. /\ \A i \in 1..Len(crawl'[c].queue) :
           /\ crawl'[c].queue[i] = crawl[c].queue[i + 1] /\ i + 1 \in 1..Len(crawl[c].queue)
           /\ head.depth <= crawl'[c].queue[i].depth
           /\ crawl'[c].queue[i].depth <= head.depth + 1
      /\ \A i, j \in 1..Len(crawl'[c].queue) :
           i <= j => crawl'[c].queue[i].depth <= crawl'[c].queue[j].depth
      /\ \A p, n : InQueue(c, p, n) => p = head.url \/ InQueue(c, p, n)'
      /\ head = crawl[c].queue[1] /\ 1 \in 1..Len(crawl[c].queue)
  BY <1>0, Dequeued
<1>3. ~Unwanted(c, head.url)
  BY DEF Request
<1>4. head.url \notin crawl[c].visited /\ SameSite(c, head.url) /\ remaining[Domain(c)] > 0
  BY <1>3 DEF Unwanted
<1>5. \/ head.url \in crawl[c].read
      \/ \A k \in 0..MaxDepth : k < head.depth => head.url \notin Dist(c)[k]
  BY <1>0, <1>4, HeadIsNearest DEF At
<1>6. crawl[c].pages = 0 =>
        head = [url |-> crawl[c].seed, depth |-> 0] /\ crawl'[c].queue = <<>>
  BY <1>0, Single DEF SearchInv, Opening
<1>7. head.depth \in 0..MaxDepth /\ crawl[c].item.depth \in 0..MaxDepth
  BY <1>0, HeadAndTail, CrawlFields
<1> HIDE DEF head
<1>8. Asking(c)' /\ Opening(c)'
  <2>1. Asking(c)'
    BY <1>0 DEF Asking
  <2>2. crawl[c].pages # 0 => head.depth # 0
    BY <1>2 DEF SearchInv, Ordered
  <2> QED
    BY <1>0, <1>1, <1>6, <2>1, <2>2 DEF SearchInv, Opening, At
<1>9. Near(c)'
  <2>1. head.url \in Dist(c)[head.depth]
    BY <1>2 DEF SearchInv, Near
  <2> QED
    BY <1>0, <1>1, <1>2, <1>4, <2>1 DEF SearchInv, Near, At
<1>10. Ordered(c)'
  BY <1>0, <1>2 DEF SearchInv, Ordered
<1>11. Closed(c)'
  BY <1>0, <1>1, <1>2 DEF SearchInv, Closed, At
<1>12. Followed(c)'
  <2>1. crawl[c].item.depth <= head.depth
    BY <1>2 DEF SearchInv, Ordered
  <2>2. head.depth < MaxDepth => crawl[c].item.depth < MaxDepth
    BY <1>7, <2>1, Constants
  <2> QED
    BY <1>0, <1>1, <1>2, <2>2 DEF SearchInv, Followed
<1>13. Nearest(c)'
  BY <1>0, <1>1, <1>5 DEF Nearest, At
<1>14. Heeded(c)'
  BY <1>0, <1>1, <1>4 DEF SearchInv, Heeded
<1>15. Exhausted(c)'
  BY <1>0 DEF Exhausted, At
<1> QED
  BY <1>8, <1>9, <1>10, <1>11, <1>12, <1>13, <1>14, <1>15 DEF SearchInv

LEMMA ReturnSearch ==
  ASSUME TypeOK, TypeOK', NEW c \in Crawls, SearchInv(c), Return(c) PROVE SearchInv(c)'
<1>0. /\ crawl[c].at = "loop" /\ crawl'[c].at = "done" /\ crawl'[c].queue = crawl[c].queue
      /\ crawl'[c].item = crawl[c].item /\ crawl'[c].visited = crawl[c].visited
      /\ crawl'[c].seed = crawl[c].seed
      /\ crawl'[c].pages = crawl[c].pages /\ crawl'[c].read = crawl[c].read
      /\ crawl'[c].failed = crawl[c].failed /\ crawl'[c].retried = crawl[c].retried
      /\ web' = web /\ remaining' = remaining /\ request' = request
  BY DEF Return, TypeOK, Crawl, client, At
<1>1. /\ Dist(c)' = Dist(c) /\ First(c)' = First(c) /\ Within(c)' = Within(c)
      /\ Domain(c)' = Domain(c) /\ \A p : SameSite(c, p)' = SameSite(c, p)
  BY <1>0, SameDist
<1>2. \A p, n : InQueue(c, p, n)' = InQueue(c, p, n)
  BY <1>0 DEF InQueue
<1>3. Asking(c)' /\ Opening(c)' /\ Near(c)' /\ Ordered(c)'
  BY <1>0, <1>1 DEF SearchInv, Asking, Opening, Near, Ordered, At
<1>4. Closed(c)' /\ Followed(c)' /\ Nearest(c)' /\ Heeded(c)'
  BY <1>0, <1>1, <1>2 DEF SearchInv, Closed, Followed, Nearest, Heeded, At
<1>5. Exhausted(c)'
  BY <1>0 DEF Exhausted, Return, Looping, At
<1> QED
  BY <1>3, <1>4, <1>5 DEF SearchInv

LEMMA FailSearch ==
  ASSUME TypeOK, TypeOK', NEW c \in Crawls, SearchInv(c), Fail(c) PROVE SearchInv(c)'
<1>0. /\ crawl'[c].at = (IF crawl[c].item.depth = 0 /\ crawl[c].pages = 0
                         THEN "done" ELSE "loop")
      /\ crawl'[c].queue = crawl[c].queue
      /\ crawl'[c].item = crawl[c].item /\ crawl'[c].visited = crawl[c].visited
      /\ crawl'[c].seed = crawl[c].seed
      /\ crawl'[c].pages = crawl[c].pages /\ crawl'[c].read = crawl[c].read
      /\ crawl'[c].failed = crawl[c].failed \cup {crawl[c].item.url}
      /\ crawl'[c].retried = crawl[c].retried
      /\ web' = web /\ remaining' = remaining
  BY DEF Fail, TypeOK, Crawl
<1>1. /\ Dist(c)' = Dist(c) /\ First(c)' = First(c) /\ Within(c)' = Within(c)
      /\ Domain(c)' = Domain(c) /\ \A p : SameSite(c, p)' = SameSite(c, p)
  BY <1>0, SameDist
<1>2. \A p, n : InQueue(c, p, n)' = InQueue(c, p, n)
  BY <1>0 DEF InQueue
<1>3. request[c].at = "sending" /\ request'[c].at = "none"
  BY DEF Fail, NoPage, Client!GivenUp, Client!Answered, Client!NoRequest, TypeOK,
     Client!ClientTypeOK
<1>4. crawl[c].at \in {"fetch", "fallback"}
  BY <1>3 DEF SearchInv, Asking
<1>5. crawl[c].pages = 0 => crawl[c].item.depth = 0 /\ crawl'[c].at = "done"
  BY <1>0 DEF SearchInv, Opening
<1>6. Asking(c)' /\ Opening(c)'
  BY <1>0, <1>1, <1>3, <1>4, <1>5 DEF SearchInv, Asking, Opening, At
<1>7. Near(c)' /\ Ordered(c)'
  BY <1>0, <1>1 DEF SearchInv, Near, Ordered, At
<1>8. Closed(c)' /\ Followed(c)'
  BY <1>0, <1>1, <1>2, <1>4 DEF SearchInv, Closed, Followed, At
<1>9. Nearest(c)' /\ Heeded(c)'
  BY <1>0, <1>1 DEF SearchInv, Nearest, Heeded, At
<1>10. Exhausted(c)'
  BY <1>0, <1>5 DEF Exhausted, At
<1> QED
  BY <1>6, <1>7, <1>8, <1>9, <1>10 DEF SearchInv

\* The seed is tried again before anything is read, and counts as the first page then.
LEMMA FallbackSearch ==
  ASSUME TypeOK, TypeOK', NEW c \in Crawls, SearchInv(c), Fallback(c) PROVE SearchInv(c)'
<1>0. /\ crawl[c].at = "fetch" /\ crawl'[c].at = "fallback" /\ crawl'[c].queue = crawl[c].queue
      /\ crawl'[c].item = crawl[c].item /\ crawl'[c].visited = crawl[c].visited
      /\ crawl'[c].seed = crawl[c].seed /\ crawl[c].pages = 0
      /\ crawl'[c].pages = crawl[c].pages /\ crawl'[c].read = crawl[c].read
      /\ crawl'[c].failed = crawl[c].failed /\ crawl'[c].retried = TRUE
      /\ web' = web /\ remaining' = remaining
  BY DEF Fallback, HasFallback, TypeOK, Crawl, At
<1>1. /\ crawl[c].queue = <<>> /\ crawl[c].read = {}
      /\ crawl[c].item = [url |-> crawl[c].seed, depth |-> 0]
  BY <1>0 DEF SearchInv, Opening
<1>2. Domain(c)' = Domain(c) /\ \A p : SameSite(c, p)' = SameSite(c, p)
  BY <1>0 DEF Domain, SameSite
<1>3. Len(crawl'[c].queue) = 0
  BY <1>0, <1>1
<1>4. Asking(c)' /\ Opening(c)'
  BY <1>0, <1>1 DEF Asking, Opening, At
<1>5. Near(c)' /\ Ordered(c)'
  BY <1>0, <1>1, <1>2, <1>3 DEF SearchInv, Near, Ordered, At
<1>6. Closed(c)'
  <2>1. \A n \in 0..MaxDepth : \A p \in Dist(c)'[n] : p = First(c)'
    <3> SUFFICES ASSUME NEW n \in 0..MaxDepth, NEW p \in Dist(c)'[n] PROVE p = First(c)'
      OBVIOUS
    <3>1. First(c)' \in Pages
      BY <1>0, CrawlFields, Constants DEF First
    <3>2. IsReach(Dist(c)', web', First(c)', crawl'[c].read)
      BY <3>1, DistValuesNext
    <3> QED
      BY <1>0, <1>1, <3>2, DistLinked
  <2> QED
    BY <2>1 DEF Closed
<1>7. Followed(c)' /\ Nearest(c)' /\ Heeded(c)' /\ Exhausted(c)'
  BY <1>0, <1>1, <1>2 DEF SearchInv, Followed, Nearest, Heeded, Exhausted, At
<1> QED
  BY <1>4, <1>5, <1>6, <1>7 DEF SearchInv

LEMMA Concatenated ==
  ASSUME NEW q \in Seq(Item), NEW s \in Seq(Item)
  PROVE  /\ \A i \in 1..Len(q) : (q \o s)[i] = q[i] /\ i \in 1..Len(q \o s)
         /\ \A j \in 1..Len(s) : (q \o s)[Len(q) + j] = s[j] /\ Len(q) + j \in 1..Len(q \o s)
         /\ \A i \in 1..Len(q \o s) : i \notin 1..Len(q) => i - Len(q) \in 1..Len(s) /\ i > Len(q)
<1>1. Len(q \o s) = Len(q) + Len(s) /\ Len(q) \in Nat /\ Len(s) \in Nat
  OBVIOUS
<1> QED
  BY <1>1

\* The queue after a page was read: all it held, and the links of the page one deeper.
LEMMA Enqueued ==
  ASSUME TypeOK, NEW c \in Crawls, NEW page \in Pages, NEW m \in 0..MaxDepth,
         crawl'[c].queue = IF m >= MaxDepth THEN crawl[c].queue
                           ELSE Enqueue(crawl[c].queue, NewItems(c, page, m))
  PROVE  /\ \A i \in 1..Len(crawl'[c].queue) :
              \/ i \in 1..Len(crawl[c].queue) /\ crawl'[c].queue[i] = crawl[c].queue[i]
              \/ /\ m < MaxDepth /\ i > Len(crawl[c].queue)
                 /\ crawl'[c].queue[i].depth = m + 1
                 /\ crawl'[c].queue[i].url \in LinkedFrom(web, page)
         /\ \A p, n : InQueue(c, p, n) => InQueue(c, p, n)'
         /\ m < MaxDepth =>
              \A p \in LinkedFrom(web, page) : SameSite(c, p) =>
                p \in crawl[c].visited \/ \A n \in Nat : m + 1 <= n => InQueue(c, p, n)'
<1> DEFINE q == crawl[c].queue
           t == crawl'[c].queue
           s == NewItems(c, page, m)
<1>0. q \in Seq(Item) /\ m \in Nat /\ MaxDepth \in Nat /\ web \in Webs
  BY CrawlFields, Constants DEF TypeOK
<1>1. CASE m >= MaxDepth
  BY <1>0, <1>1 DEF InQueue
<1>2. CASE m < MaxDepth
  <2>1. s \in Seq(Item) /\ Linked(c, s, page, m, Len(web[page]))
    BY <1>0, <1>2, NewItemsAre
  <2>2. t = q \o s
    BY <1>0, <1>2 DEF Enqueue
  <2> HIDE DEF q, t, s
  <2>3. /\ \A i \in 1..Len(q) : t[i] = q[i] /\ i \in 1..Len(t)
        /\ \A j \in 1..Len(s) : t[Len(q) + j] = s[j] /\ Len(q) + j \in 1..Len(t)
        /\ \A i \in 1..Len(t) : i \notin 1..Len(q) => i - Len(q) \in 1..Len(s) /\ i > Len(q)
    BY <1>0, <2>1, <2>2, Concatenated
  <2>4. ASSUME NEW i \in 1..Len(t), i \notin 1..Len(q)
        PROVE  /\ i > Len(q) /\ t[i].depth = m + 1 /\ t[i].url \in LinkedFrom(web, page)
    <3>1. i - Len(q) \in 1..Len(s) /\ i > Len(q) /\ Len(q) + (i - Len(q)) = i
      BY <1>0, <2>3, <2>4
    <3>2. t[i] = s[i - Len(q)]
      BY <2>3, <3>1
    <3> QED
      BY <2>1, <3>1, <3>2 DEF Linked
  <2>5. ASSUME NEW p, NEW n, InQueue(c, p, n) PROVE InQueue(c, p, n)'
    BY <2>3, <2>5 DEF InQueue, q, t
  <2>6. ASSUME NEW p \in LinkedFrom(web, page), SameSite(c, p), p \notin crawl[c].visited,
               NEW n \in Nat, m + 1 <= n
        PROVE  InQueue(c, p, n)'
    <3>1. PICK i \in 1..Len(web[page]) : web[page][i] = [kind |-> "link", to |-> p]
      BY DEF LinkedFrom, ToSet
    <3>2. IsNewLink(c, web[page][i]) /\ web[page][i].to = p
      BY <2>6, <3>1 DEF IsNewLink
    <3>3. PICK j \in 1..Len(s) : s[j].url = p
      BY <2>1, <3>2 DEF Linked
    <3>4. s[j].depth = m + 1
      BY <2>1 DEF Linked
    <3>5. t[Len(q) + j] = s[j] /\ Len(q) + j \in 1..Len(t)
      BY <2>3
    <3> QED
      BY <2>6, <3>3, <3>4, <3>5 DEF InQueue, t
  <2> QED
    BY <1>2, <2>3, <2>4, <2>5, <2>6 DEF q, t
<1> QED
  BY <1>0, <1>1, <1>2


PageRead(c) == IF At(c, "fallback") THEN PlainOf[crawl[c].item.url] ELSE crawl[c].item.url

\* The page that is read was met at its distance from the first.
LEMMA ReadFacts ==
  ASSUME TypeOK, NEW c \in Crawls, SearchInv(c), Read(c)
  PROVE  /\ crawl[c].at \in {"fetch", "fallback"} /\ PageRead(c) \in Pages
         /\ PageRead(c) \in Dist(c)[crawl[c].item.depth] /\ SameSite(c, PageRead(c))
         /\ crawl[c].pages = 0 => PageRead(c) = First(c) /\ crawl[c].queue = <<>>
         /\ At(c, "fallback") => crawl[c].item = [url |-> crawl[c].seed, depth |-> 0]
         /\ \/ PageRead(c) \in crawl[c].read
            \/ \A k \in 0..MaxDepth : k < crawl[c].item.depth => PageRead(c) \notin Dist(c)[k]
<1>1. crawl[c].at \in {"fetch", "fallback"}
  BY DEF Read, Client!Answered, SearchInv, Asking
<1>2. /\ crawl[c].item.url \in Pages /\ crawl[c].item.depth \in 0..MaxDepth
      /\ crawl[c].seed \in Pages
  BY CrawlFields
<1>3. PageRead(c) \in Pages /\ SameSite(c, PageRead(c))
  <2>1. SameSite(c, crawl[c].item.url)
    BY <1>1 DEF SearchInv, Near
  <2> QED
    BY <1>2, <2>1, Constants, PageAssumption DEF PageRead, SameSite
<1>4. IsReach(Dist(c), web, First(c), crawl[c].read)
  BY DistValues
<1>5. CASE At(c, "fetch")
  <2>1. PageRead(c) = crawl[c].item.url
    BY <1>5 DEF PageRead, At
  <2>2. crawl[c].pages = 0 => crawl[c].item.url = First(c) /\ crawl[c].queue = <<>>
    BY <1>5 DEF SearchInv, Opening, First, At
  <2> QED
    BY <1>1, <1>3, <1>5, <2>1, <2>2 DEF SearchInv, Near, Nearest, At
<1>6. CASE At(c, "fallback")
  <2>1. crawl[c].item = [url |-> crawl[c].seed, depth |-> 0] /\ crawl[c].retried
    BY <1>6 DEF SearchInv, Opening
  <2>2. PageRead(c) = First(c) /\ crawl[c].item.depth = 0
    BY <1>6, <2>1 DEF PageRead, First
  <2>3. First(c) \in Dist(c)[0]
    BY <1>4 DEF IsReach
  <2>4. crawl[c].pages = 0 => crawl[c].queue = <<>>
    BY <1>6 DEF SearchInv, Opening, At
  <2>5. \A k \in 0..MaxDepth : ~(k < crawl[c].item.depth)
    BY <2>2, Constants
  <2> QED
    BY <1>1, <1>3, <2>1, <2>2, <2>3, <2>4, <2>5
<1> QED
  BY <1>1, <1>5, <1>6 DEF At

LEMMA ReadSearch ==
  ASSUME TypeOK, TypeOK', NEW c \in Crawls, SearchInv(c), Read(c) PROVE SearchInv(c)'
<1> DEFINE page == PageRead(c)
           m == crawl[c].item.depth
<1>0. /\ crawl'[c].at = "loop"
      /\ crawl'[c].queue = IF m >= MaxDepth THEN crawl[c].queue
                           ELSE Enqueue(crawl[c].queue, NewItems(c, page, m))
      /\ crawl'[c].item = crawl[c].item /\ crawl'[c].visited = crawl[c].visited
      /\ crawl'[c].seed = crawl[c].seed
      /\ crawl'[c].pages = crawl[c].pages + 1 /\ crawl'[c].read = crawl[c].read \cup {page}
      /\ crawl'[c].failed = crawl[c].failed /\ crawl'[c].retried = crawl[c].retried
      /\ web' = web /\ remaining' = remaining
  <2>1. crawl' = [crawl EXCEPT ![c].at = "loop", ![c].pages = @ + 1,
                    ![c].collected = @ \cup TracesOn(c, page), ![c].read = @ \cup {page},
                    ![c].queue = IF m >= MaxDepth THEN @
                                 ELSE Enqueue(@, NewItems(c, page, m))]
    BY Zenon DEF Read, PageRead
  <2>2. web' = web /\ remaining' = remaining
    BY DEF Read
  <2>3. c \in DOMAIN crawl /\ crawl[c] \in Crawl
    BY DEF TypeOK
  <2> DEFINE links == IF m >= MaxDepth THEN crawl[c].queue
                      ELSE Enqueue(crawl[c].queue, NewItems(c, page, m))
             collected == crawl[c].collected \cup TracesOn(c, page)
  <2> HIDE DEF page, m
  <2>4. crawl'[c] = [crawl[c] EXCEPT !.at = "loop", !.pages = @ + 1, !.collected = collected,
                       !.read = @ \cup {page}, !.queue = links]
    BY <2>1, <2>3
  <2> HIDE DEF links, collected
  <2>5. /\ crawl'[c].at = "loop" /\ crawl'[c].queue = links
        /\ crawl'[c].pages = crawl[c].pages + 1 /\ crawl'[c].read = crawl[c].read \cup {page}
        /\ \A f \in {"item", "visited", "seed", "failed", "retried"} :
             crawl'[c][f] = crawl[c][f]
    BY <2>3, <2>4 DEF Crawl
  <2> QED
    BY <2>2, <2>5 DEF links
<1>1. /\ First(c)' = First(c) /\ Domain(c)' = Domain(c)
      /\ \A p : SameSite(c, p)' = SameSite(c, p)
  BY <1>0 DEF First, Domain, SameSite
<1>2. /\ crawl[c].at \in {"fetch", "fallback"} /\ page \in Pages
      /\ page \in Dist(c)[m] /\ SameSite(c, page)
      /\ crawl[c].pages = 0 => page = First(c) /\ crawl[c].queue = <<>>
      /\ At(c, "fallback") => crawl[c].item = [url |-> crawl[c].seed, depth |-> 0]
      /\ At(c, "fetch") => page = crawl[c].item.url
      /\ \/ page \in crawl[c].read
         \/ \A k \in 0..MaxDepth : k < m => page \notin Dist(c)[k]
  <2>1. At(c, "fetch") => page = crawl[c].item.url
    BY DEF PageRead, At
  <2> HIDE DEF page
  <2> QED
    BY <2>1, ReadFacts DEF page
<1>3. m \in 0..MaxDepth /\ m \in Nat /\ MaxDepth \in Nat /\ crawl[c].pages \in Nat
  BY CrawlFields, Constants
<1> HIDE DEF page
<1>4. /\ \A i \in 1..Len(crawl'[c].queue) :
           \/ i \in 1..Len(crawl[c].queue) /\ crawl'[c].queue[i] = crawl[c].queue[i]
           \/ /\ m < MaxDepth /\ i > Len(crawl[c].queue) /\ crawl'[c].queue[i].depth = m + 1
              /\ crawl'[c].queue[i].url \in LinkedFrom(web, page)
      /\ \A p, n : InQueue(c, p, n) => InQueue(c, p, n)'
      /\ m < MaxDepth =>
           \A p \in LinkedFrom(web, page) : SameSite(c, p) =>
             p \in crawl[c].visited \/ \A n \in Nat : m + 1 <= n => InQueue(c, p, n)'
  BY <1>0, <1>2, <1>3, Enqueued
<1>5. /\ IsReach(Dist(c), web, First(c), crawl[c].read)
      /\ IsReach(Dist(c)', web, First(c), crawl[c].read \cup {page})
      /\ First(c) \in Pages /\ Within(c) = Dist(c)[MaxDepth] /\ Within(c)' = Dist(c)'[MaxDepth]
  <2>1. First(c)' \in Pages
    BY <1>1, DistValues
  <2> QED
    BY <1>0, <1>1, <2>1, DistValues, DistValuesNext
<1> PICK r, s : r = Dist(c) /\ s = Dist(c)'
  OBVIOUS
<1> DEFINE seen == crawl[c].read \cup {page}
<1>16. IsReach(r, web, First(c), crawl[c].read) /\ IsReach(s, web, First(c), seen)
  BY <1>5
<1>6. \A k \in 0..MaxDepth : r[k] \subseteq s[k]
  <2> HIDE DEF seen
  <2>1. seen = crawl[c].read \cup {page}
    BY DEF seen
  <2> QED
    BY <1>16, <2>1, ReachGrows, ZenonT(30)
<1>7. Asking(c)' /\ Opening(c)'
  <2>1. request'[c].at = "none"
    BY DEF Read, Client!Answered, Client!NoRequest, TypeOK, Client!ClientTypeOK
  <2>2. First(c) \in crawl[c].read \cup {page}
    BY <1>2 DEF SearchInv, Opening
  <2>3. crawl'[c].pages # 0
    BY <1>0, <1>3
  <2> QED
    BY <1>0, <1>1, <2>1, <2>2, <2>3 DEF Asking, Opening, At
<1>8. Near(c)'
  <2>1. ASSUME NEW i \in 1..Len(crawl'[c].queue)
        PROVE  crawl'[c].queue[i].url \in s[crawl'[c].queue[i].depth]
    <3>1. CASE i \in 1..Len(crawl[c].queue) /\ crawl'[c].queue[i] = crawl[c].queue[i]
      <4>1. crawl[c].queue[i].depth \in 0..MaxDepth
        BY <3>1, CrawlFields, ItemDepths
      <4>2. crawl[c].queue[i].url \in r[crawl[c].queue[i].depth]
        BY <3>1 DEF SearchInv, Near
      <4> QED
        BY <1>6, <3>1, <4>1, <4>2
    <3>2. CASE /\ m < MaxDepth /\ crawl'[c].queue[i].depth = m + 1
               /\ crawl'[c].queue[i].url \in LinkedFrom(web, page)
      <4>1. s[m + 1] = OneMore(web, seen, s[m])
        <5>1. \A k \in 0..MaxDepth : k # MaxDepth => s[k + 1] = OneMore(web, seen, s[k])
          BY <1>16 DEF IsReach
        <5> HIDE DEF m, seen
        <5> QED
          BY <1>3, <3>2, <5>1
      <4>2. page \in s[m]
        BY <1>2, <1>3, <1>6
      <4> QED
        BY <3>2, <4>1, <4>2 DEF OneMore
    <3> QED
      BY <1>4, <3>1, <3>2
  <2>2. crawl'[c].read \subseteq {p \in Within(c)' : SameSite(c, p)}
    <3>1. crawl[c].read \subseteq {p \in s[MaxDepth] : SameSite(c, p)}
      BY <1>3, <1>5, <1>6 DEF SearchInv, Near
    <3>2. page \in s[MaxDepth]
      <4>1. r[m] \subseteq r[MaxDepth]
        BY <1>3, <1>5, ReachDeeper
      <4> QED
        BY <1>2, <1>3, <1>6, <4>1
    <3> QED
      BY <1>0, <1>2, <1>5, <3>1, <3>2
  <2> QED
    BY <1>0, <1>1, <2>1, <2>2 DEF Near, At
<1>9. Ordered(c)'
  <2>1. ASSUME NEW i \in 1..Len(crawl'[c].queue)
        PROVE  /\ m <= crawl'[c].queue[i].depth /\ crawl'[c].queue[i].depth <= m + 1
               /\ crawl'[c].queue[i].depth # 0
    <3>1. CASE i \in 1..Len(crawl[c].queue) /\ crawl'[c].queue[i] = crawl[c].queue[i]
      <4>1. crawl[c].pages # 0
        BY <1>2, <3>1
      <4> QED
        BY <3>1, <4>1 DEF SearchInv, Ordered
    <3>2. CASE crawl'[c].queue[i].depth = m + 1
      BY <1>3, <3>2
    <3> QED
      BY <1>4, <3>1, <3>2
  <2>2. ASSUME NEW i \in 1..Len(crawl'[c].queue), NEW j \in 1..Len(crawl'[c].queue), i <= j
        PROVE  crawl'[c].queue[i].depth <= crawl'[c].queue[j].depth
    <3>0. Len(crawl[c].queue) \in Nat
      BY CrawlFields
    <3>1. CASE crawl'[c].queue[j].depth = m + 1
      BY <2>1, <3>1
    <3>2. CASE j \in 1..Len(crawl[c].queue) /\ crawl'[c].queue[j] = crawl[c].queue[j]
      <4>1. i \in 1..Len(crawl[c].queue) /\ crawl'[c].queue[i] = crawl[c].queue[i]
        BY <1>4, <2>2, <3>0, <3>2
      <4> QED
        BY <2>2, <3>2, <4>1 DEF SearchInv, Ordered
    <3> QED
      BY <1>4, <3>1, <3>2
  <2> QED
    BY <1>0, <2>1, <2>2 DEF Ordered
<1>10. ASSUME NEW q \in crawl[c].read \cup {page}, NEW p \in LinkedFrom(web, q), SameSite(c, p),
              m < MaxDepth, p \notin crawl[c].visited, NEW n \in 0..MaxDepth, m + 1 <= n
       PROVE  InQueue(c, p, n)'
  <2>1. CASE q = page
    BY <1>3, <1>4, <1>10, <2>1
  <2>2. CASE q \in crawl[c].read
    <3>1. InQueue(c, p, MaxDepth)
      BY <1>10, <2>2 DEF SearchInv, Followed
    <3>2. PICK i \in 1..Len(crawl[c].queue) :
            crawl[c].queue[i].url = p /\ crawl[c].queue[i].depth <= MaxDepth
      BY <3>1 DEF InQueue
    <3>3. crawl[c].queue[i].depth <= m + 1 /\ crawl[c].queue[i].depth \in Nat
      BY CrawlFields, ItemDepths DEF SearchInv, Ordered
    <3>4. crawl[c].queue[i].depth <= n
      BY <1>3, <1>10, <3>3
    <3>5. InQueue(c, p, n)
      BY <3>2, <3>4 DEF InQueue
    <3> QED
      BY <1>4, <3>5
  <2> QED
    BY <1>10, <2>1, <2>2
<1>11. Closed(c)'
  <2>0. ~At(c, "idle")
    BY <1>2 DEF At
  <2>1. ASSUME NEW n \in 0..MaxDepth, NEW p \in s[n], SameSite(c, p), p \notin crawl[c].visited,
               p # First(c)
        PROVE  InQueue(c, p, n)'
    <3>1. CASE p \in r[n]
      <4>1. InQueue(c, p, n)
        BY <2>0, <2>1, <3>1 DEF SearchInv, Closed
      <4> QED
        BY <1>4, <4>1
    <3>2. CASE p \notin r[n]
      <4>1. page \notin crawl[c].read
        <5> SUFFICES ASSUME page \in crawl[c].read PROVE FALSE
          OBVIOUS
        <5>1. crawl'[c].read = crawl[c].read
          BY <1>0
        <5>2. s = r
          BY <1>0, <5>1, SameDist
        <5> QED
          BY <2>1, <3>2, <5>2
      <4>2. \A k \in 0..MaxDepth : k <= m => s[k] = r[k]
        <5>1. NotBefore(r, page, m)
          BY <1>2, <4>1 DEF NotBefore
        <5>2. IsReach(s, web, First(c), crawl[c].read \cup {page})
          BY <1>16
        <5>3. m \in 0..MaxDepth
          BY <1>3
        <5> HIDE DEF m
        <5> QED
          BY <1>16, <5>1, <5>2, <5>3, ReachKept
      <4>3. m < n
        BY <1>3, <2>1, <3>2, <4>2
      <4>4. PICK q \in crawl[c].read \cup {page} : p \in LinkedFrom(web, q)
        BY <1>5, <2>1, DistLinked
      <4> QED
        BY <1>3, <1>10, <2>1, <4>3, <4>4
    <3> QED
      BY <3>1, <3>2
  <2> QED
    BY <1>0, <1>1, <2>1 DEF Closed
<1>12. Followed(c)'
  BY <1>0, <1>1, <1>3, <1>10 DEF Followed
<1>13. Heeded(c)'
  <2>1. ASSUME Domain(c) # NoDomain, remaining[Domain(c)] > 0, NEW p \in crawl[c].visited,
               SameSite(c, p)
        PROVE  p \in (crawl[c].read \cup {page}) \cup crawl[c].failed \cup {crawl[c].seed}
    <3>1. \/ p \in crawl[c].read \cup crawl[c].failed \cup {crawl[c].seed}
          \/ p = crawl[c].item.url
      BY <2>1 DEF SearchInv, Heeded
    <3>2. crawl[c].item.url = page \/ crawl[c].item.url = crawl[c].seed
      BY <1>2 DEF At
    <3> QED
      BY <3>1, <3>2
  <2> QED
    BY <1>0, <1>1, <2>1 DEF Heeded
<1>14. Nearest(c)' /\ Exhausted(c)'
  BY <1>0 DEF Nearest, Exhausted, At
<1> QED
  BY <1>7, <1>8, <1>9, <1>11, <1>12, <1>13, <1>14 DEF SearchInv

\* The waits of the client: a crawl that waits for a page keeps waiting.
LEMMA WaitSearch ==
  ASSUME TypeOK, NEW c \in Crawls, SearchInv(c), UNCHANGED <<web, remaining>>,
         crawl'[c] = crawl[c], request[c].at = "none" => request'[c].at = "none"
  PROVE  SearchInv(c)'
<1>1. /\ Dist(c)' = Dist(c) /\ First(c)' = First(c) /\ Within(c)' = Within(c)
      /\ Domain(c)' = Domain(c) /\ \A p : SameSite(c, p)' = SameSite(c, p)
  BY SameDist
<1>2. /\ \A s : At(c, s)' = At(c, s) /\ \A p, n : InQueue(c, p, n)' = InQueue(c, p, n)
  BY DEF At, InQueue
<1>3. Asking(c)' /\ Opening(c)' /\ Near(c)' /\ Ordered(c)'
  BY <1>1, <1>2 DEF SearchInv, Asking, Opening, Near, Ordered
<1>4. Closed(c)' /\ Followed(c)' /\ Nearest(c)'
  BY <1>1, <1>2 DEF SearchInv, Closed, Followed, Nearest
<1>5. Heeded(c)' /\ Exhausted(c)'
  BY <1>1, <1>2 DEF SearchInv, Heeded, Exhausted
<1> QED
  BY <1>3, <1>4, <1>5 DEF SearchInv

\* A step of another crawl: it may spend what is left of a budget.
LEMMA OthersSearch ==
  ASSUME TypeOK, NEW c \in Crawls, NEW k \in Crawls \ {c}, Start(k) \/ Step(k), SearchInv(c)
  PROVE  SearchInv(c)'
<1>0. /\ crawl \in [Crawls -> Crawl] /\ request \in [Crawls -> Client!Request]
      /\ remaining \in [Domains -> 0..Maximum]
  BY SMTT(20) DEF TypeOK, Client!ClientTypeOK
<1>1. web' = web
  BY ZenonT(30) DEF Start, Step, Skip, Request, Wait, Fallback, Read, Fail, Return
<1>2. crawl'[c] = crawl[c]
  BY <1>0, SMTT(20) DEF Start, Step, Skip, Request, Wait, Fallback, Read, Fail, Return
<1>3. request'[c] = request[c]
  BY <1>0 DEF Start, Step, Skip, Request, Wait, Fallback, Read, Fail, Return, NoPage, client,
     Client!Get, Client!ClientStep, Client!TakeTick, Client!Retry, Client!Resend,
     Client!Answered, Client!GivenUp
<1>4. Domain(c) # NoDomain => \/ remaining'[Domain(c)] = remaining[Domain(c)]
                              \/ remaining[Domain(c)] > 0
  <2>1. CASE Request(k)
    <3>1. remaining[Domain(k)] > 0 /\ remaining' = [remaining EXCEPT ![Domain(k)] = @ - 1]
      BY <2>1 DEF Request, Unwanted, Spend
    <3>2. CASE Domain(c) = Domain(k)
      BY <3>1, <3>2
    <3>3. CASE Domain(c) # Domain(k)
      <4>1. Domain(c) # NoDomain => Domain(c) \in Domains
        BY CrawlFields, PageAssumption, SMTT(20) DEF Domain
      <4> QED
        BY <1>0, <3>1, <3>3, <4>1
    <3> QED
      BY <3>2, <3>3
  <2>2. CASE ~Request(k)
    BY <2>2 DEF Start, Step, Skip, Wait, Fallback, Read, Fail, Return
  <2> QED
    BY <2>1, <2>2
<1> QED
  BY <1>1, <1>2, <1>3, <1>4, PassedBy

LEMMA SearchStep ==
  ASSUME TypeOK, TypeOK', [Next]_vars, NEW c \in Crawls, SearchInv(c) PROVE SearchInv(c)'
<1>0. request \in [Crawls -> Client!Request]
  BY DEF TypeOK, Client!ClientTypeOK
<1>1. CASE Start(c)
  BY <1>1, StartSearch
<1>2. CASE Skip(c) \/ Request(c)
  BY <1>2, SkipSearch, RequestSearch
<1>3. CASE Wait(c)
  <2>1. request[c].at = "none" => request'[c].at = "none"
    BY <1>0, <1>3 DEF Wait, Client!ClientStep, Client!TakeTick, Client!Retry, Client!Resend
  <2> QED
    BY <1>3, <2>1, WaitSearch DEF Wait
<1>4. CASE Fallback(c) \/ Fail(c)
  BY <1>4, FallbackSearch, FailSearch
<1>5. CASE Read(c) \/ Return(c)
  BY <1>5, ReadSearch, ReturnSearch
<1>6. CASE \E k \in Crawls \ {c} : Start(k) \/ Step(k)
  BY <1>6, OthersSearch
<1>7. CASE Tick
  <2>1. request'[c].at = request[c].at
    BY <1>0, <1>7 DEF Tick, Client!ClientTick, Client!Request
  <2> QED
    BY <1>7, <2>1, WaitSearch DEF Tick
<1>8. CASE UNCHANGED vars
  BY <1>8, WaitSearch DEF vars
<1> QED
  BY <1>1, <1>2, <1>3, <1>4, <1>5, <1>6, <1>7, <1>8 DEF Next, Step

\* A crawl that is done has nothing left to visit within MaxDepth links.
LEMMA SearchFound ==
  ASSUME TypeOK, \A c \in Crawls : SearchInv(c) PROVE BreadthFirst
<1>1. NeverTooFar
  BY DEF NeverTooFar, SearchInv, Near, SameSite
<1>2. ASSUME NEW c \in Crawls, At(c, "done"), crawl[c].pages < MaxPages, Domain(c) # NoDomain,
             remaining[Domain(c)] > 0, crawl[c].read # {},
             NEW p \in Within(c), SameSite(c, p)
      PROVE  p \in crawl[c].read \cup crawl[c].failed \cup {crawl[c].seed}
  <2>1. crawl[c].pages # 0
    BY <1>2 DEF SearchInv, Opening
  <2>2. First(c) \in crawl[c].read
    BY <2>1 DEF SearchInv, Opening
  <2>3. crawl[c].queue = <<>>
    BY <1>2, <2>1 DEF SearchInv, Exhausted
  <2>4. ~InQueue(c, p, MaxDepth)
    BY <2>3 DEF InQueue
  <2>5. p \in crawl[c].visited \/ p = First(c)
    <3>1. p \in Dist(c)[MaxDepth] /\ MaxDepth \in 0..MaxDepth
      BY <1>2, DistValues, Constants
    <3> QED
      BY <1>2, <2>4, <3>1 DEF SearchInv, Closed, At
  <2> QED
    BY <1>2, <2>2, <2>5 DEF SearchInv, Heeded, At
<1> QED
  BY <1>1, <1>2 DEF BreadthFirst, NothingOverlooked

\* A crawl reads pages of its site only, none farther than MaxDepth links from the page
\* that answers for its seed; and when it ends with pages and budget to spare it has read,
\* or failed to read, every one of them.
THEOREM CrawlIsBreadthFirst == Spec => []BreadthFirst
<1> DEFINE Search == \A c \in Crawls : SearchInv(c)
<1>1. Init => Search
  BY SearchInit
<1>2. TypeOK /\ TypeOK' /\ Search /\ [Next]_vars => Search'
  BY SearchStep
<1>3. TypeOK /\ Search => BreadthFirst
  BY SearchFound
<1> QED
  BY <1>1, <1>2, <1>3, CrawlerTypeCorrect, PTL DEF Spec
===============================================================================
