CONSTANTS
  Crawls = {c1, c2}
  Pages <- SitePages
  Values = {"mail", "own", "foreign"}
  Domains = {"site.org", "other.org"}
  NoDomain = NoDomain
  DomainOf <- SiteOf
  PlainOf <- PlainForm
  Seeds = {"home", "www", "address"}
  Webs <- TwoWebs
  OwnerOf <- Owners
  Maximum = 7
  MaxPages = 5
  MaxDepth = 2
  MaxRetries = 1
  RetryDelay = 1
SPECIFICATION FairSpec
INVARIANTS
  TypeOK
  RequestsBounded
  BreadthFirst
PROPERTIES
  CrawlEnds
