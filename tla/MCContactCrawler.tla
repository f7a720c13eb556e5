-------------------------- MODULE MCContactCrawler --------------------------
(***************************************************************************)
(* An instance of ContactCrawler for TLC: two crawls, of a site, of its    *)
(* subdomain or of an address, all with one budget. One web is a circle    *)
(* with a shortcut, where a page may be met by the longer way first; the   *)
(* other leads off the site and back to the plain form of the home page,   *)
(* too far from that page for its links to be followed.                    *)
(***************************************************************************)
EXTENDS ContactCrawler, TLC

Href(p) == [kind |-> "link", to |-> p]
Mail == [kind |-> "contact", value |-> "mail"]
Own == [kind |-> "repository", value |-> "own"]
Foreign == [kind |-> "repository", value |-> "foreign"]

SitePages == {"home", "plain", "a", "www", "deep", "wwwplain", "address", "other"}

SiteOf == [p \in SitePages |-> CASE p = "address" -> NoDomain
                                 [] p = "other" -> "other.org"
                                 [] OTHER -> "site.org"]

PlainForm == [p \in SitePages |-> CASE p = "home" -> "plain"
                                   [] p = "www" -> "wwwplain"
                                   [] OTHER -> p]

Circle == [p \in SitePages |->
  CASE p = "home" -> <<Href("a"), Href("www"), Mail, Foreign>>
    [] p = "a" -> <<Href("www"), Own, Href("wwwplain")>>
    [] p = "www" -> <<Href("deep"), Href("home"), Href("plain")>>
    [] p = "deep" -> <<Href("a"), Mail>>
    [] OTHER -> <<Href("a")>>]

Away == [p \in SitePages |->
  CASE p = "home" -> <<Href("other"), Href("address"), Href("a")>>
    [] p = "a" -> <<Href("www"), Href("plain"), [kind |-> "useless"]>>
    [] p = "www" -> <<Href("deep")>>
    [] p = "plain" -> <<Href("home"), Href("plain"), Href("a"), Href("wwwplain")>>
    [] OTHER -> <<>>]

Owners == "mail" :> {} @@ "own" :> {"site.org"} @@ "foreign" :> {}

TwoWebs == {Circle, Away}

=============================================================================
