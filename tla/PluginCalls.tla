------------------------------ MODULE PluginCalls ------------------------------
(***************************************************************************)
(* PluginCalls: what FollowTrace of each plugin makes of the answers to its*)
(* requests (internal/pkg/plugins). The fields a plugin takes from a page  *)
(* and the traces it makes of them are abstracted to whether there are any.*)
(*                                                                         *)
(* An answer is a page with something to report, one that has something but*)
(* not what the next request would need, or an empty one; a body that      *)
(* cannot be decoded; a status (404, 400 for an invalid request and for    *)
(* other reasons, 403 and 429, 500 and more); or none at all. The shared   *)
(* client turns a status of 500 and more into no answer; plugins with a    *)
(* client of their own see it.                                             *)
(***************************************************************************)
EXTENDS FiniteSets

Telling  == {"page", "partial"}
Decoded  == Telling \cup {"empty"}
Statuses == {"notFound", "invalidRequest", "badRequest", "limited", "unavailable"}
Reply    == Decoded \cup Statuses \cup {"garbage", "none"}

\* No fault of the request: somebody refused to say, or could not.
Unanswered == {"limited", "unavailable", "none"}

\* A call: the requests made, those that yielded traces, and whether FollowTrace
\* returns an error, in which case it returns no traces.
Result(sent, answers, failed) ==
  [sent |-> sent, found |-> {r \in sent : answers[r] \in Telling}, failed |-> failed]

\* One request, an error unless it is answered or the answer is in quiet.
One(r, answers, quiet) == Result({r}, answers, answers[r] \notin Decoded \cup quiet)

\* Requests that are made and passed over independently.
Each(requests, answers) == Result(requests, answers, FALSE)

-------------------------------------------------------------------------------
\* Profiles and searches with one request.
GitHubProfile(a)   == One("profile", a, {})
HabrProfile(a)     == One("profile", a, {"notFound"})
KeybaseProfile(a)  == One("profile", a, {})
CodeforcesProfile(a) == One("profile", a, {})

\* A status of 400 whose body names an invalid request: there is no such account.
BlueskyProfile(a)  == One("profile", a, {"invalidRequest"})

\* HTML can always be parsed.
TelegramProfile(a) == One("profile", a, {"garbage"})
CrowdinProfile(a)   == One("profile", a, {"notFound", "garbage"})
LaunchpadProfile(a) == One("profile", a, {"notFound", "garbage"})
LinuxOrgRuProfile(a) == One("profile", a, {"notFound", "garbage"})

AcademicPapers(a) == One("papers", a, {})
Facebook(a)       == One("search", a, {"garbage"})

\* A name that does not exist is an error of the resolver.
DNSResolver(a) == One("address", a, {})

\* hackertarget's status is not looked at, and its text has no line of the form.
Subdomains(a) == One("hosts", a, Statuses \cup {"garbage"})

\* Whatever crt.sh does is no error.
CrtSh(a) == Each({"certificates"}, a)

-------------------------------------------------------------------------------
\* The referral of IANA leads to the registry's server, whose text is reported; what
\* else IANA says is not.
Whois(a) ==
  IF a["iana"] = "page"
  THEN [One("registry", a, {"garbage"}) EXCEPT !.sent = @ \cup {"iana"}]
  ELSE [One("iana", a, {"garbage"}) EXCEPT !.found = {}]

\* With a key, the API comes first; what it does not know the public page may.
FetchV3Profile(a) == One("v3", a, {"notFound", "garbage"})
FetchPublicProfile(a) == One("public", a, {"notFound", "garbage"})

\* fetchProfile with an API key; without one it is FetchPublicProfile.
Gravatar(a) ==
  LET v3 == FetchV3Profile(a)
  IN IF v3.failed \/ v3.found # {} THEN v3
     ELSE [FetchPublicProfile(a) EXCEPT !.sent = @ \cup v3.sent]

\* Either kind of keys is reported without the other.
GitHubKeys(a) == Each({"ssh", "gpg"}, a)

\* An error body decodes to no repositories or not at all.
CodeRepositories(a) == Each({"github", "bitbucket", "gitlab"}, a)

\* The search must succeed; the page of the company it finds, if it has an id, need
\* not.
CompanyRegistry(a) ==
  IF a["search"] = "page" THEN Each({"search", "detail"}, a)
  ELSE One("search", a, {"garbage"})

\* One request for each type of record.
DNSRecords(a) == Each({"MX", "SOA"}, a)

\* Without the origin there is no name of the network to look up.
LookupASN(a) == IF a["origin"] \in Telling THEN {"origin", "network"} ELSE {"origin"}
IPIntel(a) == Each(LookupASN(a) \cup {"pointer"}, a)

\* decideExistence: a status is enough for one kind of sites; of the other kind,
\* any text without the site's message is believed, at any status.
SiteClaims(site, reply) ==
  IF site = "byMessage" THEN reply \notin {"empty", "none"} ELSE reply \in Decoded \cup {"garbage"}

\* One probe for each site, thirty at a time; a probe that fails claims nothing.
SocialProfiles(a) ==
  LET sites == {"byStatus", "byMessage"}
  IN [sent |-> sites, found |-> {s \in sites : SiteClaims(s, a[s])}, failed |-> FALSE]

\* isFork: a page stands for a fork. Without an answer the repository is none.
IsFork(a) == a["repository"] = "page"

\* A history that is not there or cannot be decoded has no authors.
FetchCommitAuthors(a) == One("commits", a, {"notFound", "garbage"})

GitHubIdentity(a) ==
  IF IsFork(a) THEN [Each({"repository"}, a) EXCEPT !.found = {}]
  ELSE [FetchCommitAuthors(a) EXCEPT !.sent = @ \cup {"repository"}]

-------------------------------------------------------------------------------
Requests == [
  github_profile |-> {"profile"}, habr_profile |-> {"profile"}, keybase_profile |-> {"profile"},
  codeforces_profile |-> {"profile"}, bluesky_profile |-> {"profile"},
  telegram_profile |-> {"profile"}, crowdin_profile |-> {"profile"},
  launchpad_profile |-> {"profile"}, linuxorgru_profile |-> {"profile"},
  academic_papers |-> {"papers"}, facebook |-> {"search"}, dns_resolver |-> {"address"},
  subdomains |-> {"hosts"}, crtsh |-> {"certificates"}, whois |-> {"iana", "registry"},
  gravatar |-> {"v3", "public"}, github_keys |-> {"ssh", "gpg"},
  coderepos |-> {"github", "bitbucket", "gitlab"}, companyregistry |-> {"search", "detail"},
  dns_records |-> {"MX", "SOA"}, ip_intel |-> {"origin", "network", "pointer"},
  social_profiles |-> {"byStatus", "byMessage"}, github_identity |-> {"repository", "commits"}]

Plugins == DOMAIN Requests

\* Plugins that use http.Get, the resolver or a connection of their own.
OwnHTTP  == {"subdomains", "crtsh", "coderepos", "social_profiles"}
Resolver == {"dns_resolver", "ip_intel"}
Dialled  == {"whois"}

Replies(p) ==
  CASE p \in OwnHTTP  -> Reply
    [] p \in Resolver -> Decoded \cup {"notFound", "garbage", "none"}
    [] p \in Dialled  -> Decoded \cup {"garbage", "none"}
    [] OTHER          -> Reply \ {"unavailable"}

FollowTrace(p, a) ==
  CASE p = "github_profile" -> GitHubProfile(a)
    [] p = "habr_profile" -> HabrProfile(a)
    [] p = "keybase_profile" -> KeybaseProfile(a)
    [] p = "codeforces_profile" -> CodeforcesProfile(a)
    [] p = "bluesky_profile" -> BlueskyProfile(a)
    [] p = "telegram_profile" -> TelegramProfile(a)
    [] p = "crowdin_profile" -> CrowdinProfile(a)
    [] p = "launchpad_profile" -> LaunchpadProfile(a)
    [] p = "linuxorgru_profile" -> LinuxOrgRuProfile(a)
    [] p = "academic_papers" -> AcademicPapers(a)
    [] p = "facebook" -> Facebook(a)
    [] p = "dns_resolver" -> DNSResolver(a)
    [] p = "subdomains" -> Subdomains(a)
    [] p = "crtsh" -> CrtSh(a)
    [] p = "whois" -> Whois(a)
    [] p = "gravatar" -> Gravatar(a)
    [] p = "github_keys" -> GitHubKeys(a)
    [] p = "coderepos" -> CodeRepositories(a)
    [] p = "companyregistry" -> CompanyRegistry(a)
    [] p = "dns_records" -> DNSRecords(a)
    [] p = "ip_intel" -> IPIntel(a)
    [] p = "social_profiles" -> SocialProfiles(a)
    [] p = "github_identity" -> GitHubIdentity(a)

===============================================================================
