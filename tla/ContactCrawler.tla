--------------------------- MODULE ContactCrawler ---------------------------
(***************************************************************************)
(* ContactCrawler: the plugin that reads the pages of a domain or subdomain*)
(* for contacts (internal/pkg/plugins/contact_crawler). Every FollowTrace  *)
(* crawls breadth first from its seed within a number of pages and a depth;*)
(* the crawls of a process share one budget per registrable domain.        *)
(*                                                                         *)
(* They also share the plugin's HTTPClient, whose steps a crawl takes while*)
(* it waits for a page.                                                    *)
(*                                                                         *)
(* A page is known by its URL without the fragment. What its URL answers is*)
(* a sequence of references, whatever its status and wherever redirects led*)
(* the client: the code looks at neither. Any request may fail.            *)
(***************************************************************************)
EXTENDS Integers, FiniteSets, Sequences, SequencesExt

CONSTANTS
  Crawls,     \* FollowTrace calls of one process
  Pages,      \* URLs
  Values,     \* addresses, numbers, profiles and repositories found in pages
  Domains,    \* registrable domains
  NoDomain,   \* the answer of registrableDomain for an address or a bare suffix
  DomainOf,   \* the registrable domain of a URL's host
  PlainOf,    \* the http:// form of an https:// URL, itself for any other
  Seeds,      \* the URLs that the crawls may start from
  Webs,       \* what the URLs may answer: [Pages -> sequences of references]
  OwnerOf,    \* a repository's owner fits the label of these domains
  Maximum,    \* maxPagesPerRegistrableDomainPerProcess, 60
  MaxPages,   \* maxPagesPerCall, 20
  MaxDepth,   \* maxDepthPerCall, 2
  MaxRetries, \* of the client
  RetryDelay

\* An href after mailtoTrace, telTrace, socialLinkTrace and resolveLink: a contact,
\* a repository on GitHub, a link, or nothing of use. Addresses and numbers in the
\* text count as contacts.
Contact    == [kind : {"contact"}, value : Values]
Repository == [kind : {"repository"}, value : Values]
Link       == [kind : {"link"}, to : Pages]
Useless    == [kind : {"useless"}]
Reference  == Contact \cup Repository \cup Link \cup Useless

ASSUME PageAssumption ==
  /\ DomainOf \in [Pages -> Domains \cup {NoDomain}]
  /\ NoDomain \notin Domains
  /\ PlainOf \in [Pages -> Pages]
  /\ \A p \in Pages : DomainOf[PlainOf[p]] = DomainOf[p]
  /\ Seeds \subseteq Pages
  /\ OwnerOf \in [Values -> SUBSET Domains]
ASSUME WebAssumption ==
  \A w \in Webs : w \in [Pages -> Seq(Reference)]
ASSUME LimitAssumption ==
  /\ IsFiniteSet(Crawls)
  /\ Maximum \in Nat /\ MaxPages \in Nat /\ MaxDepth \in Nat
  /\ MaxRetries \in Nat /\ RetryDelay \in Nat

VARIABLES
  web,        \* what the URLs answer
  remaining,  \* domainBudget.limits, under its mutex
  crawl,      \* the locals of crawl
  asked,      \* history: how often a domain was asked for a page
  token,      \* of the client
  request

client == <<token, request>>
vars == <<web, remaining, crawl, asked, token, request>>

Client == INSTANCE HTTPClient WITH Users <- Crawls

Item == [url : Pages, depth : 0..MaxDepth]

\* read, failed and retried are histories: the pages whose body was parsed, those
\* that could not be had, and whether the seed was asked for a second time.
Crawl == [at : {"idle", "loop", "fetch", "fallback", "done"}, seed : Pages,
          queue : Seq(Item), item : Item, visited : SUBSET Pages,
          pages : Nat, collected : SUBSET Values,
          read : SUBSET Pages, failed : SUBSET Pages, retried : BOOLEAN]

TypeOK ==
  /\ web \in Webs
  /\ remaining \in [Domains -> 0..Maximum]
  /\ crawl \in [Crawls -> Crawl]
  /\ asked \in [Domains -> Nat]
  /\ Client!ClientTypeOK

NewCrawl(seed) ==
  [at |-> "idle", seed |-> seed, queue |-> <<>>, item |-> [url |-> seed, depth |-> 0],
   visited |-> {}, pages |-> 0, collected |-> {}, read |-> {}, failed |-> {},
   retried |-> FALSE]

Init ==
  /\ web \in Webs
  /\ remaining = [d \in Domains |-> Maximum]
  /\ crawl \in [Crawls -> {NewCrawl(s) : s \in Seeds}]
  /\ asked = [d \in Domains |-> 0]
  /\ Client!ClientInit

-------------------------------------------------------------------------------
(***************************************************************************)
(* parsePage.                                                              *)
(***************************************************************************)

Domain(c) == DomainOf[crawl[c].seed]

\* sameSite: an IP address or a bare suffix is on no site, not even on its own.
SameSite(c, p) == Domain(c) # NoDomain /\ DomainOf[p] = Domain(c)

\* A repository of somebody who has nothing to do with the site is not reported,
\* or its contributors would be looked up.
Reports(c, r) ==
  \/ r.kind = "contact"
  \/ r.kind = "repository" /\ Domain(c) \in OwnerOf[r.value]

TracesOn(c, p) == {r.value : r \in {q \in ToSet(web[p]) : Reports(c, q)}}

\* The links that are worth a place in the queue.
IsNewLink(c, r) ==
  r.kind = "link" /\ r.to \notin crawl[c].visited /\ SameSite(c, r.to)

NewItems(c, p, depth) ==
  LET items[i \in 0..Len(web[p])] ==
        IF i = 0 THEN <<>>
        ELSE IF IsNewLink(c, web[p][i])
             THEN Append(items[i - 1], [url |-> web[p][i].to, depth |-> depth + 1])
             ELSE items[i - 1]
  IN items[Len(web[p])]

-------------------------------------------------------------------------------
(***************************************************************************)
(* crawl.                                                                  *)
(***************************************************************************)

At(c, step) == crawl[c].at = step
Looping(c) == At(c, "loop") /\ crawl[c].queue # <<>> /\ crawl[c].pages < MaxPages

\* FollowTrace: normalizeURL, newCrawler, and the queue with the seed.
Start(c) ==
  /\ At(c, "idle")
  /\ crawl' = [crawl EXCEPT ![c].at = "loop",
                            ![c].queue = <<[url |-> crawl[c].seed, depth |-> 0]>>]
  /\ UNCHANGED <<web, remaining, asked, client>>

\* Variant: trySpend does not refuse.
UnwantedUnlimited(c, p) == p \in crawl[c].visited \/ ~SameSite(c, p)

\* The page at the head of the queue was met before, is on another site, or comes
\* when the budget of the domain is used up. It counts as visited all the same.
Unwanted(c, p) ==
  p \in crawl[c].visited \/ ~(SameSite(c, p) /\ remaining[Domain(c)] > 0)

Skip(c) ==
  LET p == Head(crawl[c].queue).url
  IN /\ Looping(c) /\ Unwanted(c, p)
     /\ crawl' = [crawl EXCEPT ![c].queue = Tail(@), ![c].visited = @ \cup {p}]
     /\ UNCHANGED <<web, remaining, asked, client>>

\* Variant: the budget is spent when the page has been read.
SpendLater(d) == UNCHANGED remaining

\* domainBudget.trySpend for a domain that has some left.
Spend(d) == remaining' = [remaining EXCEPT ![d] = @ - 1]

\* The page is asked for, and paid for whether or not it will be had.
Request(c) ==
  LET item == Head(crawl[c].queue)
  IN /\ Looping(c) /\ ~Unwanted(c, item.url)
     /\ Spend(Domain(c)) /\ Client!Get(c)
     /\ asked' = [asked EXCEPT ![Domain(c)] = @ + 1]
     /\ crawl' = [crawl EXCEPT ![c].at = "fetch", ![c].queue = Tail(@),
                               ![c].item = item, ![c].visited = @ \cup {item.url}]
     /\ UNCHANGED web

\* fetchURL has an error, or an answer that breaks off before its end.
NoPage(c, next) == Client!GivenUp(c, next) \/ Client!Answered(c, next)

\* fetchURL's address list: the seed has a second one, over plain http.
HasFallback(c) ==
  /\ At(c, "fetch") /\ crawl[c].item.depth = 0 /\ crawl[c].pages = 0
  /\ PlainOf[crawl[c].item.url] # crawl[c].item.url

Fallback(c) ==
  /\ HasFallback(c) /\ NoPage(c, Client!NewRequest)
  /\ crawl' = [crawl EXCEPT ![c].at = "fallback", ![c].retried = TRUE]
  /\ asked' = [asked EXCEPT ![Domain(c)] = @ + 1]
  /\ UNCHANGED <<web, remaining>>

\* Variant: links go to the head of the queue.
EnqueueFirst(queue, items) == items \o queue

\* append
Enqueue(queue, items) == queue \o items

\* The body of the page, or of its plain form, is parsed; its links are followed
\* unless it is as deep as pages get.
Read(c) ==
  LET item == crawl[c].item
      page == IF At(c, "fallback") THEN PlainOf[item.url] ELSE item.url
  IN /\ Client!Answered(c, Client!NoRequest)
     /\ crawl' = [crawl EXCEPT ![c].at = "loop", ![c].pages = @ + 1,
                    ![c].collected = @ \cup TracesOn(c, page),
                    ![c].read = @ \cup {page},
                    ![c].queue = IF item.depth >= MaxDepth THEN @
                                 ELSE Enqueue(@, NewItems(c, page, item.depth))]
     /\ UNCHANGED <<web, remaining, asked>>

\* Without its seed a crawl ends, and succeeds; any other page is passed over.
Fail(c) ==
  LET item == crawl[c].item
  IN /\ ~HasFallback(c) /\ NoPage(c, Client!NoRequest)
     /\ crawl' = [crawl EXCEPT ![c].failed = @ \cup {item.url},
                    ![c].at = IF item.depth = 0 /\ crawl[c].pages = 0
                              THEN "done" ELSE "loop"]
     /\ UNCHANGED <<web, remaining, asked>>

Return(c) ==
  /\ At(c, "loop") /\ ~Looping(c)
  /\ crawl' = [crawl EXCEPT ![c].at = "done"]
  /\ UNCHANGED <<web, remaining, asked, client>>

\* Do, on behalf of the crawl.
Wait(c) == Client!ClientStep(c) /\ UNCHANGED <<web, remaining, crawl, asked>>

Tick == Client!ClientTick /\ UNCHANGED <<web, remaining, crawl, asked>>

Step(c) ==
  Skip(c) \/ Request(c) \/ Wait(c) \/ Fallback(c) \/ Read(c) \/ Fail(c) \/ Return(c)

Next == Tick \/ \E c \in Crawls : Start(c) \/ Step(c)

Spec == Init /\ [][Next]_vars

\* The ticker ticks, and a crawl takes its steps: the client's timeout ends every
\* try. A tick goes to any goroutine that waits for one, in the order they came,
\* so none waits for ever.
FairSpec == Spec /\ WF_vars(Tick) /\ \A c \in Crawls : SF_vars(Step(c))

-------------------------------------------------------------------------------
(***************************************************************************)
(* Correctness.                                                            *)
(***************************************************************************)

\* However its crawls interleave and whatever fails, the process asks a domain for
\* at most Maximum pages, and once more for each seed it tried a second time.
RequestsBounded == \A d \in Domains :
  asked[d] <= Maximum + Cardinality({c \in Crawls : crawl[c].retried /\ Domain(c) = d})

\* The page that answers for the seed.
First(c) == IF crawl[c].retried THEN PlainOf[crawl[c].seed] ELSE crawl[c].seed

LinkedFrom(w, q) == {p \in Pages : [kind |-> "link", to |-> p] \in ToSet(w[q])}

\* The pages within n links of the first, over pages that were read.
Reach(w, first, read) ==
  LET reach[n \in 0..MaxDepth] ==
        IF n = 0 THEN {first}
        ELSE reach[n - 1] \cup UNION {LinkedFrom(w, q) : q \in reach[n - 1] \cap read}
  IN reach

Within(c) == Reach(web, First(c), crawl[c].read)[MaxDepth]

\* No page is read that is farther than MaxDepth links from the seed, or on
\* another domain than the seed.
NeverTooFar == \A c \in Crawls :
  crawl[c].read \subseteq {p \in Within(c) : DomainOf[p] = Domain(c)}

\* A crawl that neither the pages nor the budget stopped has read, or failed to
\* read, every page of the site within MaxDepth links, also one that it met first
\* by a longer way.
NothingOverlooked == \A c \in Crawls :
  At(c, "done") /\ crawl[c].pages < MaxPages /\ Domain(c) # NoDomain
    /\ remaining[Domain(c)] > 0 /\ crawl[c].read # {} =>
      {p \in Within(c) : SameSite(c, p)}
        \subseteq crawl[c].read \cup crawl[c].failed \cup {crawl[c].seed}

\* What a crawl reads is what breadth-first search finds.
BreadthFirst == NeverTooFar /\ NothingOverlooked

\* Every crawl ends, also on a site whose pages link to each other in circles.
CrawlEnds == \A c \in Crawls : At(c, "loop") ~> At(c, "done")

=============================================================================
