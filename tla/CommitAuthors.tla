----------------------------- MODULE CommitAuthors -----------------------------
(***************************************************************************)
(* CommitAuthors: whom the github_identity plugin reports of the people    *)
(* who signed the commits of a repository (plugins/github_identity/        *)
(* commits.go). A signature names its person, which the code cannot see,   *)
(* by a login, an address and a name, any of which may be missing.         *)
(***************************************************************************)
EXTENDS Naturals, FiniteSets

CONSTANTS
  Missing,          \* an empty field
  MaxContributors   \* maxDistinctContributors, 5

ASSUME ContributorAssumption == MaxContributors \in Nat

Unsigned(a) == a.login = Missing /\ a.email = Missing /\ a.name = Missing

\* parseCommitAuthors: the author with the login GitHub knows, the committer and
\* the co-authors without.
SignaturesOf(commit) ==
  {a \in {commit.author} \cup {[s EXCEPT !.login = Missing] :
                                 s \in {commit.committer} \cup commit.coauthors} : ~Unsigned(a)}

ParseCommitAuthors(log) == UNION {SignaturesOf(commit) : commit \in log}

\* identityKey
IdentityKey(a) ==
  IF a.login # Missing THEN <<"login", a.login>>
  ELSE IF a.email # Missing THEN <<"email", a.email>> ELSE <<"name", a.name>>

\* Variant: people without an account do not count.
DistinctLogins(authors) == Cardinality({a.login : a \in authors} \ {Missing})

\* distinctIdentityCount: a person who signs in two ways counts twice, two people who
\* sign in one way count once.
DistinctIdentities(authors) == Cardinality({IdentityKey(a) : a \in authors})

\* filterAuthorsForSharedRepo
Reported(log, owner) ==
  LET authors == ParseCommitAuthors(log)
  IN IF DistinctIdentities(authors) <= MaxContributors THEN authors
     ELSE {a \in authors : a.login = owner.login}

People(authors) == {a.person : a \in authors}

\* No two people sign in one way.
ToldApart(authors) ==
  \A a, b \in authors : IdentityKey(a) = IdentityKey(b) => a.person = b.person

===============================================================================
